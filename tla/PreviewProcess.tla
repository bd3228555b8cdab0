---------------------------- MODULE PreviewProcess ----------------------------
(***************************************************************************)
(* The process behind a preview: HostPreviewRuntimeAdapter and             *)
(* DockerSandboxAdapter behind PreviewRuntimeRouter, with the wait of       *)
(* HealthcheckService.  A port is found free, given up and used later; a    *)
(* process group is known by its number, which the system uses again; what  *)
(* a restarted agent knows of it is what the state file kept.              *)
(***************************************************************************)
EXTENDS Naturals

CONSTANTS
  Sessions,
  Docker,       \* the sessions whose preview runs in a container
  Pids, Ports,
  Other,        \* the owner of a process that is not a preview's
  None,
  MaxStarts,    \* bound: previews started per session
  MaxRestarts   \* bound: restarts of the agent

VARIABLES
  group,     \* per process number: the process group (or container) that has it
  port,      \* per session: the port its templates were resolved with
  ref,       \* per session: the SandboxRef, and what the adapter's map knows of it
  step,      \* per session: where its operation is
  starts,    \* per session: previews started so far, the runtime token
  harmed,    \* signals that reached a group of somebody else
  restarts

vars == <<group, port, ref, step, starts, harmed, restarts>>

Init ==
  /\ group = [p \in Pids |-> None]
  /\ port = [s \in Sessions |-> None]
  /\ ref = [s \in Sessions |-> None]
  /\ step = [s \in Sessions |-> "idle"]
  /\ starts = [s \in Sessions |-> 0]
  /\ harmed = {}
  /\ restarts = 0

Runs(p) == group[p] # None
\* The agent that started the process of group p is told how it ended: exitCode is set by
\* an exit alone, and stays null when a signal ends the process.
Noted(p, how) ==
  [t \in Sessions |->
     IF ref[t] # None /\ ref[t].pid = p /\ ref[t].managed /\ ref[t].ended = "no" /\ group[p].owner = t
       THEN [ref[t] EXCEPT !.ended = how] ELSE ref[t]]

Bound(n) == \E p \in Pids : Runs(p) /\ group[p].port = n
-----------------------------------------------------------------------------
(***************************************************************************)
(* Starting.                                                               *)
(***************************************************************************)
\* A listener on port 0 is opened and closed: the port is free, and stays so
\* only by chance.
AllocateHostPort(s) ==
  /\ step[s] = "idle" /\ ref[s] = None /\ starts[s] < MaxStarts
  /\ \E n \in Ports : ~Bound(n) /\ port' = [port EXCEPT ![s] = n]
  /\ step' = [step EXCEPT ![s] = "spawn"]
  /\ UNCHANGED <<group, ref, starts, harmed, restarts>>

\* start: the process runs, with a token in its environment, before it listens.
Spawn(s) ==
  /\ s \notin Docker
  /\ step[s] = "spawn"
  /\ starts' = [starts EXCEPT ![s] = @ + 1]
  /\ \E p \in Pids :
       /\ ~Runs(p)
       /\ group' = [group EXCEPT ![p] =
            [owner |-> s, token |-> starts[s] + 1, leader |-> TRUE, port |-> None, left |-> FALSE]]
       /\ ref' = [ref EXCEPT ![s] =
            [pid |-> p, token |-> starts[s] + 1, managed |-> TRUE, ended |-> "no"]]
  /\ step' = [step EXCEPT ![s] = "check"]
  /\ UNCHANGED <<port, harmed, restarts>>

\* docker run: the name is the session's own; if a container of an earlier start
\* has it still, the client exits and its reference is returned all the same.
RunContainer(s) ==
  LET taken == \E p \in Pids : Runs(p) /\ group[p].owner = s IN
  /\ s \in Docker
  /\ step[s] = "spawn"
  /\ starts' = [starts EXCEPT ![s] = @ + 1]
  /\ \E p \in Pids :
       /\ ~Runs(p)
       /\ group' = IF taken THEN group ELSE [group EXCEPT ![p] =
            [owner |-> s, token |-> starts[s] + 1, leader |-> TRUE, port |-> None, left |-> FALSE]]
       /\ ref' = [ref EXCEPT ![s] =
            [pid |-> p, token |-> starts[s] + 1, managed |-> TRUE, ended |-> IF taken THEN "exit" ELSE "no"]]
  /\ step' = [step EXCEPT ![s] = "check"]
  /\ UNCHANGED <<port, harmed, restarts>>

\* The process did not publish its number, or the configuration misses a part.
SpawnFails(s) ==
  /\ step[s] = "spawn"
  /\ step' = [step EXCEPT ![s] = "idle"]
  /\ UNCHANGED <<group, port, ref, starts, harmed, restarts>>

\* External: the preview's server listens.
Bind(p) ==
  /\ Runs(p) /\ group[p].owner \in Sessions /\ group[p].leader
  /\ group[p].port = None /\ ~Bound(port[group[p].owner])
  /\ group' = [group EXCEPT ![p].port = port[group[p].owner]]
  /\ UNCHANGED <<port, ref, step, starts, harmed, restarts>>

\* External: the command ends, for instance because its port is taken, or a signal ends
\* it; on the host, processes it started may go on, and the container of a docker
\* client too.
Ends(p) ==
  LET s == group[p].owner IN
  /\ Runs(p)
  /\ \/ group' = [group EXCEPT ![p] = None]
     \/ s \in Sessions \ Docker /\ group' = [group EXCEPT ![p].leader = FALSE]
     \/ s \in Docker /\ group' = group
  /\ \E how \in {"exit", "signal"} : ref' = Noted(p, how)
  /\ UNCHANGED <<port, step, starts, harmed, restarts>>

\* External: the number is given to a process group of somebody else.
Reuse(p) ==
  /\ ~Runs(p)
  /\ group' = [group EXCEPT ![p] = [owner |-> Other, token |-> 0, leader |-> TRUE, port |-> None, left |-> FALSE]]
  /\ UNCHANGED <<port, ref, step, starts, harmed, restarts>>
-----------------------------------------------------------------------------
(***************************************************************************)
(* Waiting for the health check.                                           *)
(***************************************************************************)
\* check: whoever listens on the port answers, unless the process has an exit code.
Request(s) ==
  /\ step[s] = "check" /\ ref[s].ended # "exit"
  /\ Bound(port[s])
  /\ step' = [step EXCEPT ![s] = "answered"]
  /\ UNCHANGED <<group, port, ref, starts, harmed, restarts>>

\* The exit code is looked at again once the answer is there.
Answer(s) ==
  /\ step[s] = "answered"
  /\ step' = [step EXCEPT ![s] = IF ref[s].ended = "exit" THEN "check" ELSE "ready"]
  /\ UNCHANGED <<group, port, ref, starts, harmed, restarts>>

\* waitUntilReady: no check was good before the deadline.
Deadline(s) ==
  /\ step[s] = "check"
  /\ step' = [step EXCEPT ![s] = "failed"]
  /\ UNCHANGED <<group, port, ref, starts, harmed, restarts>>
-----------------------------------------------------------------------------
(***************************************************************************)
(* Stopping.                                                               *)
(***************************************************************************)
\* ps shows the environment of the group's leader only.
IsProcessGroupOwned(s) ==
  LET p == ref[s].pid IN
  Runs(p) /\ group[p].leader /\ group[p].owner = s /\ group[p].token = ref[s].token

\* Mutant of MaySignal: the number is taken on trust.
MaySignalByNumber(s) == TRUE

\* A reference that was restored must prove that the group is still its own.
MaySignal(s) == ref[s].managed \/ IsProcessGroupOwned(s)

Hit(s, signal) ==
  LET p == ref[s].pid IN
  harmed' = IF Runs(p) /\ group[p].owner # s
              THEN harmed \cup {[signal |-> signal, ended |-> ref[s].ended]} ELSE harmed

\* Nothing is running under the number (ESRCH), or it is not ours to signal.
StopNothing(s) ==
  /\ s \notin Docker
  /\ step[s] \in {"ready", "failed"}
  /\ ~MaySignal(s) \/ ~Runs(ref[s].pid)
  /\ ref' = [ref EXCEPT ![s] = None]
  /\ step' = [step EXCEPT ![s] = "idle"]
  /\ UNCHANGED <<group, port, starts, harmed, restarts>>

\* ps could not be run: the preview is taken for somebody else's, and goes on.
PsFails(s) ==
  /\ step[s] \in {"ready", "failed"}
  /\ ~ref[s].managed /\ IsProcessGroupOwned(s)
  /\ s \notin Docker
  /\ group' = [group EXCEPT ![ref[s].pid].left = TRUE]
  /\ ref' = [ref EXCEPT ![s] = None]
  /\ step' = [step EXCEPT ![s] = "idle"]
  /\ UNCHANGED <<port, starts, harmed, restarts>>

\* SIGTERM, which the group may heed or not.
Terminate(s) ==
  /\ s \notin Docker
  /\ step[s] \in {"ready", "failed"}
  /\ MaySignal(s) /\ Runs(ref[s].pid)
  /\ Hit(s, "SIGTERM")
  /\ \/ group' = group /\ ref' = ref
     \/ group' = [group EXCEPT ![ref[s].pid] = None] /\ ref' = Noted(ref[s].pid, "signal")
  /\ step' = [step EXCEPT ![s] = "kill"]
  /\ UNCHANGED <<port, starts, restarts>>

\* Two seconds later SIGKILL goes to whoever has the number then.
Kill(s) ==
  /\ step[s] = "kill"
  /\ Hit(s, "SIGKILL")
  /\ group' = [group EXCEPT ![ref[s].pid] = None]
  /\ ref' = [(IF Runs(ref[s].pid) THEN Noted(ref[s].pid, "signal") ELSE ref) EXCEPT ![s] = None]
  /\ step' = [step EXCEPT ![s] = "idle"]
  /\ UNCHANGED <<port, starts, restarts>>

\* A container is stopped by its name, whichever process started it; Docker's
\* exit status is not looked at.
StopContainer(s) ==
  /\ s \in Docker
  /\ step[s] \in {"ready", "failed"}
  /\ \E stopped \in BOOLEAN :
       group' = [p \in Pids |->
         IF Runs(p) /\ group[p].owner = s
           THEN IF stopped THEN None ELSE [group[p] EXCEPT !.left = TRUE]
           ELSE group[p]]
  /\ ref' = [ref EXCEPT ![s] = None]
  /\ step' = [step EXCEPT ![s] = "idle"]
  /\ UNCHANGED <<port, starts, harmed, restarts>>

\* The adapter's map is gone; what waits to be stopped is what the file names.
Restart ==
  /\ restarts < MaxRestarts
  /\ restarts' = restarts + 1
  /\ ref' = [s \in Sessions |->
       IF ref[s] = None THEN None ELSE [ref[s] EXCEPT !.managed = FALSE, !.ended = "no"]]
  /\ step' = [s \in Sessions |-> IF ref[s] = None THEN "idle" ELSE "failed"]
  /\ UNCHANGED <<group, port, starts, harmed>>

Wait(s) == Answer(s) \/ Deadline(s)

Next ==
  \/ \E s \in Sessions :
       \/ AllocateHostPort(s) \/ Spawn(s) \/ RunContainer(s) \/ SpawnFails(s)
       \/ Request(s) \/ Wait(s)
       \/ StopNothing(s) \/ PsFails(s) \/ Terminate(s) \/ Kill(s) \/ StopContainer(s)
  \/ \E p \in Pids : Bind(p) \/ Ends(p) \/ Reuse(p)
  \/ Restart

\* The deadline of a wait passes.
Fairness == \A s \in Sessions : WF_vars(Wait(s))

Spec == Init /\ [][Next]_vars /\ Fairness
-----------------------------------------------------------------------------
TypeOK ==
  /\ \A p \in Pids : Runs(p) =>
       group[p].owner \in Sessions \cup {Other} /\ group[p].port \in Ports \cup {None}
  /\ \A s \in Sessions : step[s] \in {"check", "answered", "ready", "failed", "kill"} <=> ref[s] # None

\* A process that is not the preview's own gets a signal only if the preview's process ended
\* under this agent, or in the two seconds after SIGTERM: never because a number
\* was read from the state file (HostPreviewRuntimeAdapter.stop).
StrangersAreSpared == \A h \in harmed : h.signal = "SIGKILL" \/ h.ended # "no"

\* A preview is found ready only while a process of it runs or after a signal ended it,
\* although another preview that was given the same port may be what answered:
\* check looks before and after the request, at an exit code no signal sets.
ReadyStep ==
  \A s \in Sessions :
    step[s] # "ready" /\ step'[s] = "ready" =>
      ref[s].ended = "signal" \/ \E p \in Pids : Runs(p) /\ group[p].owner = s

\* What a stop leaves behind has lost its leader, which hides it from a
\* restarted agent, or was left by a docker or a ps that failed.
StoppedIsGone ==
  \A s \in Sessions, p \in Pids :
    ref[s] = None /\ Runs(p) /\ group[p].owner = s => ~group[p].leader \/ group[p].left

\* A wait for the health check ends.
WaitEnds ==
  \A s \in Sessions : step[s] \in {"check", "answered"} ~> step[s] \in {"ready", "failed"}
-----------------------------------------------------------------------------
(***************************************************************************)
(* What the proofs rest on.                                                *)
(***************************************************************************)
Groups == [owner : Sessions \cup {Other}, token : Nat, leader : BOOLEAN, port : Ports \cup {None}, left : BOOLEAN]
Refs == [pid : Pids, token : Nat, managed : BOOLEAN, ended : {"no", "exit", "signal"}]
Steps == {"idle", "spawn", "check", "answered", "ready", "failed", "kill"}

Domains ==
  /\ group \in [Pids -> Groups \cup {None}]
  /\ port \in [Sessions -> Ports \cup {None}]
  /\ ref \in [Sessions -> Refs \cup {None}]
  /\ step \in [Sessions -> Steps]
  /\ starts \in [Sessions -> Nat]

StepsHaveRefs ==
  \A s \in Sessions :
    /\ step[s] \in {"check", "answered", "ready", "failed", "kill"} <=> ref[s] # None
    /\ step[s] \in {"check", "answered"} => ref[s].managed
    /\ step[s] = "kill" => s \notin Docker

\* An agent that started a process and was not told of its end still has it.
ManagedRuns ==
  \A s \in Sessions :
    ref[s] # None /\ ref[s].managed /\ ref[s].ended = "no" => Runs(ref[s].pid) /\ group[ref[s].pid].owner = s

\* A leader is the process that its session's reference names, with its token; a container
\* is found by its name, as long as there is a reference.
LeadersAreNamed ==
  \A s \in Sessions, p \in Pids :
    Runs(p) /\ group[p].owner = s /\ group[p].leader /\ ~group[p].left =>
      /\ ref[s] # None
      /\ s \notin Docker => p = ref[s].pid /\ group[p].token = ref[s].token
=============================================================================
