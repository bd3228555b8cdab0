---------------------------- MODULE LocalSessions ----------------------------
(***************************************************************************)
(* The machine-local side of sessions: SessionRunner with its SessionRegistry *)
(* and state file, and the resources it manages one by one, which outlive  *)
(* the process: worktrees, previews (processes of the host, or containers) *)
(* and the containers of the tunnels.                                      *)
(*                                                                         *)
(* A flow is an operation under way: for each session the one that holds   *)
(* the session's lock, and the recovery, which takes no lock.  Commands    *)
(* are accepted from the registration on, while the recovery still loads,  *)
(* reconciles and rebuilds.                                                *)
(***************************************************************************)
EXTENDS Naturals, Sequences, FiniteSets

CONSTANTS
  Sessions,
  Containers,  \* the sessions whose project previews in a container (runtime 'docker')
  None,        \* no workspace, no flow
  MaxRuns,     \* bound: starts of the agent
  MaxCloses,   \* bound: close commands per session
  MaxFaults    \* bound: steps that fail

ASSUME NamesAssumption ==
  "recovery" \notin Sessions /\ None \notin Sessions \cup {"recovery"} /\ None \notin [preview : Nat, tunnel : BOOLEAN]
ASSUME ContainersAssumption == Containers \subseteq Sessions
ASSUME BoundsAssumption == {MaxRuns, MaxCloses, MaxFaults} \subseteq Nat

VARIABLES
  worktree,  \* per session: "none", "branch" (only its branch is left) or "full"
  previews,  \* per session: the previews that run, numbered as started
  tunnel,    \* per session: whether the container of its tunnel runs
  file,      \* per session: the workspace in the state file
  persisted, \* SessionRegistry.persistedWorkspaces
  active,    \* SessionRegistry.workspaces
  saving,    \* the registry operation that awaits the store
  queue,     \* SessionRunner.sessionOperations, per session; the head holds the lock
  flow,      \* where the operation that holds the lock is, and where the recovery is
  recovery,  \* SessionRunner.restore: its stage, sessions still to rebuild, the current one
  agent,     \* "down", "up", "stopping" (shutdown under way) or "stopped" (only flows left)
  leaving,   \* the sessions the shutdown has still to take care of
  started,   \* per session: how many previews have been started
  lost,      \* per session: previews no record named when a process died or saved before it
             \* had loaded, or that could be neither recorded nor removed; 0: the worktree
  told,      \* per session: prepare received, close commands received, clean-up
             \* answered, and whether a command came while the recovery was under way
  count      \* starts of the agent and faults so far

resources == <<worktree, previews, tunnel>>
registry == <<file, persisted, active, saving>>
process == <<agent, leaving, lost>>
vars == <<resources, registry, queue, flow, recovery, process, started, told, count>>

\* Every run of the agent starts one preview of a session at most; one more may
\* be there from before.
MaxStarts == MaxRuns + 1

Workspace == [preview: 0..MaxStarts, tunnel: BOOLEAN]  \* 0: no sandboxRef
Bare == [preview |-> 0, tunnel |-> FALSE]

Recovery == "recovery"
Flows == Sessions \cup {Recovery}

Idle == [kind |-> "idle", at |-> "idle", ws |-> Bare, failed |-> FALSE, deaf |-> FALSE]
NoRecovery == [stage |-> "none", todo |-> {}, current |-> None, read |-> [s \in Sessions |-> None]]
NoSave == [flow |-> None]

Init ==
  /\ \E stored \in SUBSET Sessions :  \* what an earlier process left when it died
       /\ worktree = [s \in Sessions |-> IF s \in stored THEN "full" ELSE "none"]
       /\ previews = [s \in Sessions |-> IF s \in stored THEN {1} ELSE {}]
       /\ tunnel = [s \in Sessions |-> s \in stored]
       /\ file = [s \in Sessions |-> IF s \in stored THEN [preview |-> 1, tunnel |-> TRUE] ELSE None]
       /\ started = [s \in Sessions |-> IF s \in stored THEN 1 ELSE 0]
       /\ told = [s \in Sessions |-> [prepare |-> s \in stored, closes |-> 0,
                                    cleaned |-> FALSE, early |-> FALSE]]
  /\ persisted = [s \in Sessions |-> None]
  /\ active = [s \in Sessions |-> None]
  /\ saving = NoSave
  /\ queue = [s \in Sessions |-> <<>>]
  /\ flow = [f \in Flows |-> Idle]
  /\ recovery = NoRecovery
  /\ agent = "down"
  /\ leaving = {}
  /\ lost = [s \in Sessions |-> {}]
  /\ count = [runs |-> 0, faults |-> 0]
-----------------------------------------------------------------------------
(***************************************************************************)
(* Steps of a flow.                                                        *)
(***************************************************************************)
SessionOf(f) == IF f = Recovery THEN recovery.current ELSE f

At(f, place) == flow[f].at = place
Goto(f, place) == flow' = [flow EXCEPT ![f].at = place]

\* A step that fails, of which there are at most MaxFaults.
Fault == count.faults < MaxFaults /\ count' = [count EXCEPT !.faults = @ + 1]

\* prepareUnlocked and rebuildPreview both undo what they began.
Undone(kind) == CASE kind = "prepare" -> "rollback" [] kind = "rebuild" -> "undo" [] OTHER -> kind

\* The catch block: the resources of the workspace as far as it got.
Undo(f) == flow' = [flow EXCEPT ![f].kind = Undone(@), ![f].at = "close"]

\* What a failed save puts back, by what the operation found before.
Rollback(s) ==
  /\ persisted' = [persisted EXCEPT ![s] = saving.persisted]
  /\ active' = [active EXCEPT ![s] =
       IF saving.active # None THEN saving.persisted
       ELSE IF saving.kind = "register" THEN None ELSE @]

\* An operation of the registry: it changes both maps, then awaits the store.
\* Others wait in SessionRegistry.withLock.
Save(f, kind, ws, ok, failure) ==
  LET s == SessionOf(f) IN
  /\ saving = NoSave
  /\ persisted' = [persisted EXCEPT ![s] = ws]
  /\ active' = [active EXCEPT ![s] = IF kind = "register" \/ @ # None THEN ws ELSE None]
  /\ saving' = [flow |-> f, session |-> s, kind |-> kind, ok |-> ok, failure |-> failure,
                persisted |-> persisted[s], active |-> active[s]]
  /\ UNCHANGED file

\* update() of a session that is no longer persisted throws.
Update(f, ws, ok, failure) ==
  /\ saving = NoSave
  /\ IF persisted[SessionOf(f)] # None
       THEN /\ Save(f, "update", ws, ok, failure)
            /\ flow' = [flow EXCEPT ![f].at = "saving", ![f].ws = ws]
       ELSE /\ UNCHANGED registry
            /\ flow' = [flow EXCEPT ![f].at = failure, ![f].ws = ws,
                 ![f].kind = IF failure = "close" THEN Undone(@) ELSE @,
                 ![f].failed = failure # "close"]

\* What a record names, and of session s what the file then names no more (0: the worktree).
Named(record) == IF record = None THEN {} ELSE {record.preview}
Unrecorded(s) ==
  (previews[s] \ Named(file'[s])) \cup (IF file'[s] = None /\ worktree[s] # "none" THEN {0} ELSE {})

\* FileSessionWorkspaceStore.save renames the whole file into place.
EndSave ==
  /\ saving # NoSave
  /\ file' = persisted
  /\ saving' = NoSave
  /\ flow' = [flow EXCEPT ![saving.flow].at = saving.ok]
  /\ lost' = [s \in Sessions |-> IF recovery.stage = "load" /\ file'[s] = None
                                  THEN lost[s] \cup Unrecorded(s) ELSE lost[s]]
  /\ UNCHANGED <<resources, persisted, active, queue, recovery, agent, leaving, started, told, count>>

\* "close" is where a preparation or a rebuild undoes itself; elsewhere the
\* error is kept and the clean-up goes on.
FailSave ==
  LET f == saving.flow IN
  /\ saving # NoSave
  /\ Fault
  /\ Rollback(saving.session)
  /\ saving' = NoSave
  /\ flow' = [flow EXCEPT ![f].at = saving.failure, ![f].failed = saving.failure # "close",
       ![f].kind = IF saving.failure = "close" THEN Undone(@) ELSE @]
  /\ UNCHANGED <<resources, file, queue, recovery, process, started, told>>
-----------------------------------------------------------------------------
(***************************************************************************)
(* Commands and the lock of a session.                                     *)
(***************************************************************************)
Busy == recovery.stage \in {"load", "reconcile", "rebuild"}

ReceivePrepare(s) ==
  /\ agent = "up"
  /\ ~told[s].prepare
  /\ told' = [told EXCEPT ![s].prepare = TRUE, ![s].early = @ \/ Busy]
  /\ queue' = [queue EXCEPT ![s] = Append(@, "prepare")]
  /\ UNCHANGED <<resources, registry, flow, recovery, process, started, count>>

ReceiveClose(s) ==
  /\ agent = "up"
  /\ told[s].prepare /\ told[s].closes < MaxCloses
  /\ told' = [told EXCEPT ![s].closes = @ + 1, ![s].early = @ \/ Busy]
  /\ queue' = [queue EXCEPT ![s] = Append(@, "close")]
  /\ UNCHANGED <<resources, registry, flow, recovery, process, started, count>>

\* The head of the queue begins with what it finds in the registry.
BeginPrepare(s) ==
  /\ queue[s] # <<>> /\ Head(queue[s]) = "prepare" /\ At(s, "idle")
  /\ flow' = [flow EXCEPT ![s] = [Idle EXCEPT !.kind = "prepare", !.deaf = agent # "up",
       !.at = IF \/ active[s] # None /\ active[s].preview # 0 /\ active[s].tunnel
                 \/ persisted[s] # None  \* answers what is there, or refuses
              THEN "end" ELSE "worktree"]]
  /\ UNCHANGED <<resources, registry, queue, recovery, process, started, told, count>>

BeginClose(s) ==
  /\ queue[s] # <<>> /\ Head(queue[s]) = "close" /\ At(s, "idle")
  /\ flow' = [flow EXCEPT ![s] = [Idle EXCEPT !.kind = "close",
       !.at = IF persisted[s] = None THEN "cleaned" ELSE "close",
       !.ws = IF persisted[s] = None THEN Bare ELSE persisted[s]]]
  /\ UNCHANGED <<resources, registry, queue, recovery, process, started, told, count>>

BeginShutdown(s) ==
  /\ queue[s] # <<>> /\ Head(queue[s]) = "shutdown" /\ At(s, "idle")
  /\ flow' = [flow EXCEPT ![s] = [Idle EXCEPT !.kind = "shutdown",
       !.at = IF active[s] = None THEN "end" ELSE "close",
       !.ws = IF active[s] = None THEN Bare ELSE active[s]]]
  /\ UNCHANGED <<resources, registry, queue, recovery, process, started, told, count>>

\* Mutant of Release: the lock is kept by an operation that threw.
ReleaseUnlessFailed(s) ==
  /\ flow[s].at \in {"end", "cleaned"}
  /\ ~flow[s].failed
  /\ queue' = [queue EXCEPT ![s] = Tail(@)]
  /\ told' = [told EXCEPT ![s].cleaned = @ \/ (flow[s].at = "cleaned" /\ agent = "up")]
  /\ flow' = [flow EXCEPT ![s] = Idle]
  /\ UNCHANGED <<resources, registry, recovery, process, started, count>>

\* withSessionLock's finally, and the answer of a close that cleaned up.
Release(s) ==
  /\ flow[s].at \in {"end", "cleaned"}
  /\ queue' = [queue EXCEPT ![s] = Tail(@)]
  /\ told' = [told EXCEPT ![s].cleaned = @ \/ (flow[s].at = "cleaned" /\ agent = "up")]
  /\ flow' = [flow EXCEPT ![s] = Idle]
  /\ UNCHANGED <<resources, registry, recovery, process, started, count>>
-----------------------------------------------------------------------------
(***************************************************************************)
(* Preparing.  Each step of a preparation first announces itself to the    *)
(* API, which throws once the agent has closed its socket; an announcement *)
(* under way at that moment times out and the step is made.                *)
(***************************************************************************)
MayStep(f) == flow[f].kind # "prepare" \/ ~flow[f].deaf

\* What the next step finds: no socket, if there is none any more.
Deafen(f) == flow[f].kind = "prepare" /\ agent # "up"

Unheard(f) == flow[f].kind = "prepare" /\ agent # "up"

CreateWorktree(s) ==
  /\ At(s, "worktree") /\ MayStep(s)
  /\ worktree[s] = "none"
  /\ worktree' = [worktree EXCEPT ![s] = "full"]
  /\ flow' = [flow EXCEPT ![s].at = "register", ![s].deaf = Deafen(s)]
  /\ UNCHANGED <<previews, tunnel, registry, queue, recovery, process, started, told, count>>

\* Nothing to undo: there is no workspace yet.
FailWorktree(s) ==
  /\ At(s, "worktree")
  /\ IF worktree[s] # "none" \/ Unheard(s) THEN UNCHANGED count ELSE Fault
  /\ flow' = [flow EXCEPT ![s].at = "end", ![s].failed = TRUE]
  /\ UNCHANGED <<resources, registry, queue, recovery, process, started, told>>

Register(s) ==
  /\ At(s, "register")
  /\ Save(s, "register", flow[s].ws, IF flow[s].ws.tunnel THEN "end"
                                     ELSE IF flow[s].ws.preview # 0 THEN "open" ELSE "start", "close")
  /\ Goto(s, "saving")
  /\ UNCHANGED <<resources, queue, recovery, process, started, told, count>>

\* A container whose name is taken exits at once; its reference is returned
\* all the same.
StartPreview(f) ==
  LET s == SessionOf(f)
      n == started[s] + 1
      ws == [flow[f].ws EXCEPT !.preview = n] IN
  /\ At(f, "start") /\ MayStep(f)
  /\ n <= MaxStarts
  /\ started' = [started EXCEPT ![s] = n]
  /\ previews' = [previews EXCEPT ![s] =
       IF s \in Containers /\ @ # {} THEN @ ELSE @ \cup {n}]
  /\ IF flow[f].kind = "prepare"
       THEN /\ flow' = [flow EXCEPT ![f].at = "register", ![f].ws = ws, ![f].deaf = Deafen(f)]
            /\ UNCHANGED registry
       ELSE flow' = [flow EXCEPT ![f].at = "update", ![f].ws = ws] /\ UNCHANGED registry
  /\ UNCHANGED <<worktree, tunnel, queue, recovery, process, told, count>>

\* The rebuild's registrations are updates.
UpdateRebuilt(f) ==
  /\ At(f, "update")
  /\ Update(f, flow[f].ws, IF flow[f].ws.tunnel THEN "rebuilt" ELSE "open", "close")
  /\ UNCHANGED <<resources, queue, recovery, process, started, told, count>>

\* The health check passes and the tunnel opens.
OpenTunnel(f) ==
  LET s == SessionOf(f) IN
  /\ At(f, "open") /\ MayStep(f)
  /\ flow[f].ws.preview \in previews[s] /\ ~tunnel[s]
  /\ tunnel' = [tunnel EXCEPT ![s] = TRUE]
  /\ flow' = [flow EXCEPT ![f].ws.tunnel = TRUE,
       ![f].at = IF flow[f].kind = "prepare" THEN "register" ELSE "update"]
  /\ UNCHANGED <<worktree, previews, registry, queue, recovery, process, started, told, count>>

\* The set-up command, the preview, its health check or the tunnel fails; two
\* containers of one name make the second fail.
FailPreview(f) ==
  LET s == SessionOf(f) IN
  /\ flow[f].at \in {"start", "open"}
  /\ IF \/ Unheard(f)
        \/ At(f, "open") /\ (flow[f].ws.preview \notin previews[s] \/ tunnel[s])
       THEN UNCHANGED count ELSE Fault
  /\ Undo(f)
  /\ UNCHANGED <<resources, registry, queue, recovery, process, started, told>>
-----------------------------------------------------------------------------
(***************************************************************************)
(* Clean-up (cleanupWorkspace) and the removal of the preview only         *)
(* (removePreviewResources).                                               *)
(***************************************************************************)
CleansUp(f) == flow[f].kind \in {"close", "rollback"}

CloseTunnel(f) ==
  LET s == SessionOf(f) IN
  /\ At(f, "close")
  /\ IF flow[f].ws.tunnel
       THEN /\ tunnel' = [tunnel EXCEPT ![s] = FALSE]
            /\ Update(f, [flow[f].ws EXCEPT !.tunnel = FALSE], "stop", "stop")
       ELSE Goto(f, "stop") /\ UNCHANGED <<tunnel, registry>>
  /\ UNCHANGED <<worktree, previews, queue, recovery, process, started, told, count>>

\* Docker's exit status is not looked at: the tunnel is taken for closed.
CloseTunnelInVain(f) ==
  /\ At(f, "close") /\ flow[f].ws.tunnel
  /\ Fault
  /\ Update(f, [flow[f].ws EXCEPT !.tunnel = FALSE], "stop", "stop")
  /\ UNCHANGED <<resources, queue, recovery, process, started, told>>

\* Docker cannot be run at all.
FailCloseTunnel(f) ==
  /\ At(f, "close") /\ flow[f].ws.tunnel
  /\ Fault
  /\ flow' = [flow EXCEPT ![f].at = "stop", ![f].failed = TRUE]
  /\ UNCHANGED <<resources, registry, queue, recovery, process, started, told>>

\* Where the removal goes on: cleanupWorkspace to the worktree, shutdown ends,
\* a rebuild starts anew unless something failed.
AfterStop(f) ==
  CASE CleansUp(f) -> "remove"
    [] flow[f].kind = "shutdown" -> "end"
    [] flow[f].kind = "rebuild" -> "removed"
    [] flow[f].kind = "undo" -> "suspend"

\* A container is stopped by its name, a process group by its number.
Stopped(s, n) == IF s \in Containers THEN {} ELSE previews[s] \ {n}

\* Mutant of StopPreview: the reference is dropped, the process is not ended.
StopPreviewUnended(f) ==
  /\ At(f, "stop")
  /\ IF flow[f].ws.preview # 0
       THEN Update(f, [flow[f].ws EXCEPT !.preview = 0], AfterStop(f), AfterStop(f))
       ELSE Goto(f, AfterStop(f)) /\ UNCHANGED registry
  /\ UNCHANGED <<resources, queue, recovery, process, started, told, count>>

StopPreview(f) ==
  LET s == SessionOf(f) IN
  /\ At(f, "stop")
  /\ IF flow[f].ws.preview # 0
       THEN /\ previews' = [previews EXCEPT ![s] = Stopped(s, flow[f].ws.preview)]
            /\ Update(f, [flow[f].ws EXCEPT !.preview = 0], AfterStop(f), AfterStop(f))
       ELSE Goto(f, AfterStop(f)) /\ UNCHANGED <<previews, registry>>
  /\ UNCHANGED <<worktree, tunnel, queue, recovery, process, started, told, count>>

FailStopPreview(f) ==
  /\ At(f, "stop") /\ flow[f].ws.preview # 0
  /\ Fault
  /\ flow' = [flow EXCEPT ![f].at = AfterStop(f), ![f].failed = TRUE]
  /\ lost' = [lost EXCEPT ![SessionOf(f)] = @ \cup ({flow[f].ws.preview} \ Named(file[SessionOf(f)]))]
  /\ UNCHANGED <<resources, registry, queue, recovery, agent, leaving, started, told>>

\* Mutant of RemoveWorktree: the record goes whatever failed.
RemoveWorktreeForgets(s) ==
  /\ At(s, "remove")
  /\ worktree' \in {worktree, [worktree EXCEPT ![s] = "none"]}
  /\ Goto(s, "forget")
  /\ UNCHANGED <<previews, tunnel, registry, queue, recovery, process, started, told, count>>

\* WorktreeService.cleanup in the mode 'delete-local', the only one sent.
RemoveWorktree(s) ==
  /\ At(s, "remove")
  /\ worktree' = [worktree EXCEPT ![s] = "none"]
  /\ flow' = [flow EXCEPT ![s].at = IF flow[s].failed THEN "end" ELSE "forget"]
  /\ UNCHANGED <<previews, tunnel, registry, queue, recovery, process, started, told, count>>

\* git refuses to remove the worktree, or then its branch.
FailRemoveWorktree(s) ==
  /\ At(s, "remove")
  /\ Fault
  /\ worktree' \in {worktree, [worktree EXCEPT ![s] = IF @ = "full" THEN "branch" ELSE @]}
  /\ flow' = [flow EXCEPT ![s].at = "end", ![s].failed = TRUE]
  /\ lost' = [lost EXCEPT ![s] = IF file[s] = None THEN @ \cup {0} ELSE @]
  /\ UNCHANGED <<previews, tunnel, registry, queue, recovery, agent, leaving, started, told>>

\* unregister() of a session that is not persisted does nothing.
Forget(s) ==
  LET done == IF flow[s].kind = "rollback" THEN "end" ELSE "cleaned" IN
  /\ At(s, "forget")
  /\ saving = NoSave
  /\ IF persisted[s] = None
       THEN Goto(s, done) /\ UNCHANGED registry
       ELSE Save(s, "unregister", None, done, "end") /\ Goto(s, "saving")
  /\ UNCHANGED <<resources, queue, recovery, process, started, told, count>>
-----------------------------------------------------------------------------
(***************************************************************************)
(* Recovery: no lock, one session after the other.                         *)
(***************************************************************************)
\* The agent has registered with the API.
Start ==
  /\ agent = "down"
  /\ count.runs < MaxRuns
  /\ agent' = "up"
  /\ recovery' = [NoRecovery EXCEPT !.stage = "load"]
  /\ count' = [count EXCEPT !.runs = @ + 1]
  /\ UNCHANGED <<resources, registry, queue, flow, leaving, lost, started, told>>

Load ==
  LET stored == {s \in Sessions : file[s] # None} IN
  /\ recovery.stage = "load"
  /\ saving = NoSave
  /\ persisted' = file
  /\ active' = file
  /\ recovery' = [recovery EXCEPT !.stage = "reconcile", !.todo = stored, !.read = file]
  /\ UNCHANGED <<resources, file, saving, queue, flow, process, started, told, count>>

\* DockerOrphanReconciler.reconcile with no session excepted.
Reconcile ==
  /\ recovery.stage = "reconcile"
  /\ previews' = [s \in Sessions |-> IF s \in Containers THEN {} ELSE previews[s]]
  /\ tunnel' = [s \in Sessions |-> FALSE]
  /\ recovery' = [recovery EXCEPT !.stage = "rebuild"]
  /\ UNCHANGED <<worktree, registry, queue, flow, process, started, told, count>>

\* validatePrepared, then rebuildPreview with what the file said.
BeginRebuild(s) ==
  /\ recovery.stage = "rebuild" /\ recovery.current = None
  /\ s \in recovery.todo
  /\ recovery' = [recovery EXCEPT !.current = s]
  /\ flow' = [flow EXCEPT ![Recovery] = [Idle EXCEPT !.kind = "rebuild", !.ws = recovery.read[s],
       !.at = IF worktree[s] = "full" THEN "close" ELSE "suspend"]]
  /\ UNCHANGED <<resources, registry, queue, process, started, told, count>>

\* The project is no longer configured, or the worktree is on another branch.
FailValidate(s) ==
  /\ recovery.stage = "rebuild" /\ recovery.current = None
  /\ s \in recovery.todo
  /\ Fault
  /\ recovery' = [recovery EXCEPT !.current = s]
  /\ flow' = [flow EXCEPT ![Recovery] = [Idle EXCEPT !.kind = "rebuild", !.at = "suspend"]]
  /\ UNCHANGED <<resources, registry, queue, process, started, told>>

Rebuild ==
  /\ At(Recovery, "removed")
  /\ Goto(Recovery, IF flow[Recovery].failed THEN "suspend" ELSE "start")
  /\ UNCHANGED <<resources, registry, queue, recovery, process, started, told, count>>

NextRecovered == [recovery EXCEPT !.todo = @ \ {recovery.current}, !.current = None]

EndRebuild ==
  /\ At(Recovery, "rebuilt")
  /\ recovery' = NextRecovered
  /\ flow' = [flow EXCEPT ![Recovery] = Idle]
  /\ UNCHANGED <<resources, registry, queue, process, started, told, count>>

\* SessionRegistry.suspend takes no lock.
Suspend ==
  /\ At(Recovery, "suspend")
  /\ active' = [active EXCEPT ![recovery.current] = None]
  /\ recovery' = NextRecovered
  /\ flow' = [flow EXCEPT ![Recovery] = Idle]
  /\ UNCHANGED <<resources, file, persisted, saving, queue, process, started, told, count>>

EndRecovery ==
  /\ recovery.stage = "rebuild" /\ recovery.todo = {}
  /\ recovery' = [NoRecovery EXCEPT !.stage = IF agent = "up" THEN "done" ELSE "late"]
  /\ UNCHANGED <<resources, registry, queue, flow, process, started, told, count>>
-----------------------------------------------------------------------------
(***************************************************************************)
(* The process.                                                            *)
(***************************************************************************)
\* AgentClient.stop: the socket closes, commands are refused from now on, and
\* the sessions active now are shut down one after the other.
Stop ==
  /\ agent = "up"
  /\ agent' = "stopping"
  /\ leaving' = {s \in Sessions : active[s] # None}
  /\ told' = [s \in Sessions |-> [told[s] EXCEPT !.early = @ \/ Busy]]
  /\ UNCHANGED <<resources, registry, queue, flow, recovery, lost, started, count>>

ShuttingDown(s) == \E i \in DOMAIN queue[s] : queue[s][i] = "shutdown"

ShutDown(s) ==
  /\ agent = "stopping" /\ s \in leaving
  /\ \A t \in Sessions : ~ShuttingDown(t)
  /\ leaving' = leaving \ {s}
  /\ queue' = [queue EXCEPT ![s] = Append(@, "shutdown")]
  /\ UNCHANGED <<resources, registry, flow, recovery, agent, lost, started, told, count>>

EndShutdown ==
  /\ agent = "stopping" /\ leaving = {}
  /\ \A s \in Sessions : ~ShuttingDown(s)
  /\ agent' = "stopped"
  /\ UNCHANGED <<resources, registry, queue, flow, recovery, leaving, lost, started, told, count>>

\* Memory goes; a save under way has replaced the file or has not.
Die ==
  /\ file' \in {file} \cup (IF saving = NoSave THEN {} ELSE {persisted})
  /\ lost' = [s \in Sessions |-> lost[s] \cup Unrecorded(s)]
  /\ persisted' = [s \in Sessions |-> None]
  /\ active' = [s \in Sessions |-> None]
  /\ saving' = NoSave
  /\ queue' = [s \in Sessions |-> <<>>]
  /\ flow' = [f \in Flows |-> Idle]
  /\ recovery' = NoRecovery
  /\ agent' = "down"
  /\ leaving' = {}
  /\ UNCHANGED <<resources, started, told>>

\* A process that was told to stop lives on while its flows do.
Exit ==
  /\ agent = "stopped"
  /\ ~Busy /\ \A s \in Sessions : queue[s] = <<>>
  /\ Die
  /\ UNCHANGED count

\* Bound: a crash that no start follows shows nothing more.
Crash == agent # "down" /\ count.runs < MaxRuns /\ Die /\ UNCHANGED count

\* Docker cannot list or stop what it runs, and the projects need it: start
\* throws, and the process with it.
FailReconcile == recovery.stage = "reconcile" /\ Fault /\ Die

Operation(s) ==
  \/ BeginPrepare(s) \/ BeginClose(s) \/ BeginShutdown(s) \/ Release(s)
  \/ CreateWorktree(s) \/ FailWorktree(s) \/ Register(s)
  \/ RemoveWorktree(s) \/ FailRemoveWorktree(s) \/ Forget(s)

FlowStep(f) ==
  \/ StartPreview(f) \/ UpdateRebuilt(f) \/ OpenTunnel(f) \/ FailPreview(f)
  \/ CloseTunnel(f) \/ CloseTunnelInVain(f) \/ FailCloseTunnel(f)
  \/ StopPreview(f) \/ FailStopPreview(f)

RecoveryStep ==
  \/ Load \/ Reconcile \/ FailReconcile \/ Rebuild \/ EndRebuild \/ Suspend \/ EndRecovery
  \/ \E s \in Sessions : BeginRebuild(s) \/ FailValidate(s)

StoreStep == EndSave \/ FailSave

ShutdownStep == EndShutdown \/ Exit \/ \E s \in Sessions : ShutDown(s)

Next ==
  \/ Start \/ Stop \/ Crash
  \/ \E s \in Sessions : ReceivePrepare(s) \/ ReceiveClose(s) \/ Operation(s)
  \/ \E f \in Flows : FlowStep(f)
  \/ RecoveryStep \/ StoreStep \/ ShutdownStep

Spec == Init /\ [][Next]_vars

\* What awaits a disk, Docker, git or a timer that always fires goes on.
FairSpec ==
  /\ Spec
  /\ \A s \in Sessions : WF_vars(Operation(s))
  /\ \A f \in Flows : WF_vars(FlowStep(f))
  /\ WF_vars(RecoveryStep) /\ WF_vars(StoreStep) /\ WF_vars(ShutdownStep)
-----------------------------------------------------------------------------
TypeOK ==
  /\ worktree \in [Sessions -> {"none", "branch", "full"}]
  /\ previews \in [Sessions -> SUBSET (1..MaxStarts)]
  /\ tunnel \in [Sessions -> BOOLEAN]
  /\ {file, persisted, active} \subseteq [Sessions -> Workspace \cup {None}]
  /\ queue \in [Sessions -> Seq({"prepare", "close", "shutdown"})]
  /\ \A f \in Flows : flow[f].ws \in Workspace
  /\ recovery.todo \subseteq Sessions /\ recovery.current \in Sessions \cup {None}
  /\ (recovery.current = None) <=> At(Recovery, "idle")
  /\ agent \in {"down", "up", "stopping", "stopped"}

Quiet(s) == queue[s] = <<>> /\ recovery.current # s /\ saving = NoSave

\* What is active is what is persisted, whatever the order of operations, failed
\* saves, and suspensions that take no lock (SessionRegistry's roll-backs).
ActiveIsPersisted ==
  saving = NoSave => \A s \in Sessions : active[s] # None => active[s] = persisted[s]

\* Once loaded, memory and the state file agree between two operations: a
\* failed save leaves neither changed.
FileMatchesMemory ==
  saving = NoSave /\ recovery.stage \notin {"none", "load"} => file = persisted

\* A clean-up the API was told of leaves neither record, worktree nor preview of
\* the host, but for those an earlier process lost track of, if no command of
\* the session came while the agent recovered.
CleanedIsGone ==
  \A s \in Sessions : told[s].cleaned /\ ~told[s].early /\ Quiet(s) =>
    /\ file[s] = None
    /\ worktree[s] = "none" \/ 0 \in lost[s]
    /\ s \notin Containers => previews[s] \subseteq lost[s]

\* Every preview process of the host is named by the file or by an operation
\* under way, except those a process lost track of by dying between the start
\* and the save, if no command of the session came while the agent recovered.
PreviewsAreKnown ==
  \A s \in Sessions \ Containers : ~told[s].early => \A n \in previews[s] \ lost[s] :
    \/ file[s] # None /\ file[s].preview = n
    \/ \E f \in {s, Recovery} : SessionOf(f) = s /\ flow[f].ws.preview = n

\* Once loaded, a record goes only after its worktree.
RecordStep ==
  \A s \in Sessions :
    recovery.stage \notin {"none", "load"} /\ file[s] # None /\ file'[s] = None
      => worktree[s] = "none"

Leaves ==
  /\ agent = "stopped" /\ agent' = "down" /\ \A s \in Sessions : queue[s] = <<>>
  /\ count.faults = 0 /\ recovery.stage = "done"

\* An agent that is stopped without a fault leaves no preview and no tunnel
\* behind, but for the sessions told something while it recovered.
StopStep ==
  Leaves => \A s \in Sessions :
    ~told[s].early => previews[s] \subseteq lost[s] /\ ~tunnel[s]

\* A session's lock is always given back, so no close waits for ever.
LocksAreReleased == \A s \in Sessions : queue[s] # <<>> ~> queue[s] = <<>>

\* The recovery ends, one way or the other.
RecoveryEnds == Busy ~> ~Busy

\* Whatever fails, is repeated or is stopped halfway, the agent's memory, the registry
\* file, the worktrees and the previews agree about every session: an active one is
\* recorded, memory and file do not part, a cleaned one leaves nothing and no preview
\* runs that nobody knows of.
SessionsAreAccountedFor ==
  /\ TypeOK
  /\ ActiveIsPersisted
  /\ FileMatchesMemory
  /\ CleanedIsGone
  /\ PreviewsAreKnown

\* A recovery forgets no worktree it has not removed, and an orderly stop no preview.
NothingIsForgotten == [][RecordStep /\ StopStep]_vars

\* No session is locked for ever and no recovery goes on for ever.
LockedWorkEnds == LocksAreReleased /\ RecoveryEnds
=============================================================================
