--------------------------- MODULE SessionLifecycle ---------------------------
(***************************************************************************)
(* One session end to end: the API's request handlers, the command router  *)
(* and the agent's event handler on one side, the local agent's command    *)
(* handlers (AgentClient with SessionRunner and PromptRunner) on the       *)
(* other, and the socket between them.  The session row and the API's      *)
(* transactions are those of SessionRow, whose actions are used here.      *)
(*                                                                         *)
(* A flow is one command handler running on the agent: the preparation, a  *)
(* recovery, a prompt, a clean-up, a push.  A flow emits one lifecycle     *)
(* event at a time and awaits its acknowledgement, which comes with the    *)
(* API's commit; after five seconds without one it goes on as if the event *)
(* had been accepted, and the event may still be applied later.  Local     *)
(* work is one step that ends in the next emission.                        *)
(***************************************************************************)
EXTENDS SessionStateMachine, Sequences, Integers

CONSTANTS
  Prompts,     \* prompt requests of the session's members
  Closers,     \* close requests of the developer
  Reviews,     \* review requests
  NoFlow,      \* no flow (an idle harness)
  NoEvent,     \* nothing on the wire
  MaxDrafts,   \* bound: how many new contents the harness may give the worktree
  MaxRepairs,  \* MAX_VALIDATION_REPAIR_ATTEMPTS
  MaxTimeouts, \* bound: unacknowledged events
  MaxCrashes,  \* bound: crashes of the agent process
  MaxDrops,    \* bound: losses of the connection
  MaxFaults    \* bound: crashes and losses together

ASSUME BoundsAssumption ==
  /\ MaxDrafts \in Nat /\ MaxRepairs \in Nat /\ MaxTimeouts \in Nat
  /\ MaxCrashes \in Nat /\ MaxDrops \in Nat /\ MaxFaults \in Nat

Flows == {"prepare", "recovery"} \cup Prompts \cup Closers \cup Reviews

Requests == Prompts \cup Closers \cup Reviews

\* The API's handlers: one per request, and two per flow for its events, the
\* second for the event a flow sends while an unacknowledged one is under way.
Slots == {1, 2}

Handlers == Closers \cup Reviews \cup (Flows \X Slots)

ASSUME DistinctNames ==
  /\ Prompts \cap Closers = {} /\ Prompts \cap Reviews = {} /\ Closers \cap Reviews = {}
  /\ "prepare" \notin Requests /\ "recovery" \notin Requests /\ NoFlow \notin Prompts
  /\ \A q \in Closers \cup Reviews : q \notin Flows \X Slots
  /\ NoEvent \notin AgentEvents

VARIABLES
  row, latestRun, runs, reviewRequest, tx,  \* SessionRow
  net,        \* the event each event handler has received and not yet read the row for
  req,        \* how far the API's handler of each request is
  inbox,      \* commands on their way to the agent, in the order of the socket
  flow,       \* where each flow of the agent is, the fate of its last event, its slot
  lock,       \* SessionRunner's per-session queue of operations; the head runs
  workspace,  \* "none", "active", "stored" (known but not active) or "unloaded" (only on disk)
  content,    \* which draft the worktree holds
  drafts,     \* how many drafts there have been
  harness,    \* the prompt whose harness run is active
  turn,       \* per prompt: the content it started from, the content it checked, repairs
  branch,     \* the draft pushed to the remote branch, -1 when there is none
  pullRequest,\* the draft the pull request was opened with, -1 when there is none
  validated,  \* the drafts whose checks passed in a recorded validation run
  link,       \* "online", "offline" (process up, not registered) or "down"
  faults      \* how many timeouts, crashes and drops have happened

rowVars == <<row, latestRun, runs, reviewRequest, tx>>
apiVars == <<req, branch, pullRequest>>
wireVars == <<net, flow>>
workVars == <<workspace, content, drafts, harness, turn>>
faultVars == <<link, faults>>
vars == <<rowVars, apiVars, wireVars, workVars, faultVars, inbox, lock, validated>>

Rows == INSTANCE SessionRow WITH Handler <- Handlers

NotPushed == -1

Init ==
  /\ Rows!Init
  /\ net = [h \in Flows \X Slots |-> NoEvent]
  /\ req = [q \in Requests |-> "idle"]
  /\ inbox \in {<<"prepare">>, <<>>}   \* sent only if the agent was connected at creation
  /\ flow = [f \in Flows |-> [at |-> "idle", ack |-> "idle", slot |-> 1]]
  /\ lock = <<>>
  /\ workspace = "none"
  /\ content = 0
  /\ drafts = 0
  /\ harness = NoFlow
  /\ turn = [p \in Prompts |-> [base |-> 0, checked |-> 0, repairs |-> 0]]
  /\ branch = NotPushed
  /\ pullRequest = NotPushed
  /\ validated = {}
  /\ link = "online"
  /\ faults = [timeouts |-> 0, crashes |-> 0, drops |-> 0]
-----------------------------------------------------------------------------
(***************************************************************************)
(* The wire.                                                               *)
(***************************************************************************)
Progress(status) == Event("session.progress", status)
Failure == Event("error", "none")

At(f, loc, acks) == flow[f].at = loc /\ flow[f].ack \in acks

\* What a flow takes a missing acknowledgement for: emitEvent resolves, the
\* emitRequiredEvent of a recovery fails.
Unanswered(f) == IF f = "recovery" THEN "rejected" ELSE "ok"

\* Flow f goes on at loc without awaiting anything.
Goto(f, loc) ==
  /\ flow' = [flow EXCEPT ![f].at = loc, ![f].ack = "idle"]
  /\ UNCHANGED net

\* Flow f emits e and awaits its acknowledgement at loc.  An event emitted
\* while the socket is down stays in its buffer: no acknowledgement comes in
\* time, or the buffer is flushed before the agent registers and the event
\* is rejected.
Emit(f, loc, e) ==
  IF link = "online"
    THEN /\ net' = [net EXCEPT ![<<f, flow[f].slot>>] = e]
         /\ flow' = [flow EXCEPT ![f].at = loc, ![f].ack = "pending"]
    ELSE /\ UNCHANGED net
         /\ \E a \in {Unanswered(f), "rejected"} : flow' = [flow EXCEPT ![f].at = loc, ![f].ack = a]

Acknowledge(f, s, a) ==
  flow' = IF flow[f].ack = "pending" /\ flow[f].slot = s
            THEN [flow EXCEPT ![f].ack = a] ELSE flow

ReadEvent(f, s) ==
  /\ net[<<f, s>>] # NoEvent
  /\ Rows!ReadForEvent(<<f, s>>, net[<<f, s>>])
  /\ net' = [net EXCEPT ![<<f, s>>] = NoEvent]
  /\ UNCHANGED <<apiVars, flow, workVars, faultVars, inbox, lock, validated>>

ReadLatestRun(f, s) ==
  /\ Rows!ReadLatestRun(<<f, s>>)
  /\ UNCHANGED <<apiVars, wireVars, workVars, faultVars, inbox, lock, validated>>

CommitEvent(f, s) ==
  /\ Rows!CommitEvent(<<f, s>>)
  /\ Acknowledge(f, s, "ok")
  /\ validated' = IF tx[<<f, s>>].event = Event("checks.result", "passed")
                    THEN validated \cup {turn[f].checked} ELSE validated
  /\ UNCHANGED <<apiVars, net, workVars, faultVars, inbox, lock>>

RejectEvent(f, s) ==
  /\ Rows!RejectEvent(<<f, s>>)
  /\ Acknowledge(f, s, "rejected")
  /\ UNCHANGED <<apiVars, net, workVars, faultVars, inbox, lock, validated>>

\* With the connection gone, an event that has not reached its transaction is
\* refused for want of a registered agent, and the agent learns nothing.
LoseEvent(f, s) ==
  /\ link # "online"
  /\ net[<<f, s>>] # NoEvent
  /\ net' = [net EXCEPT ![<<f, s>>] = NoEvent]
  /\ Acknowledge(f, s, Unanswered(f))
  /\ UNCHANGED <<rowVars, apiVars, workVars, faultVars, inbox, lock, validated>>

\* The flow gives up waiting after 5 s; the API goes on.
Timeout(f) ==
  LET other == 3 - flow[f].slot IN
  /\ faults.timeouts < MaxTimeouts
  /\ flow[f].ack = "pending"
  /\ net[<<f, other>>] = NoEvent /\ tx[<<f, other>>].stage = "idle"
  /\ flow' = [flow EXCEPT ![f].ack = Unanswered(f), ![f].slot = other]
  /\ faults' = [faults EXCEPT !.timeouts = @ + 1]
  /\ UNCHANGED <<rowVars, apiVars, net, workVars, link, inbox, lock, validated>>
-----------------------------------------------------------------------------
(***************************************************************************)
(* The API's request handlers.  A command is routed only to a registered   *)
(* agent; session.close and git.pushBranch are awaited for 30 s.           *)
(***************************************************************************)
Send(q, state) ==
  /\ link = "online"
  /\ inbox' = Append(inbox, q)
  /\ req' = [req EXCEPT ![q] = state]

\* SessionPromptService.createPrompt reads the row, then stores attachments.
AcceptPrompt(p) ==
  /\ req[p] = "idle"
  /\ row.status \in Promptable
  /\ req' = [req EXCEPT ![p] = "begun"]
  /\ UNCHANGED <<rowVars, branch, pullRequest, wireVars, workVars, faultVars, inbox, lock, validated>>

RoutePrompt(p) ==
  /\ req[p] = "begun"
  /\ IF link = "online" THEN Send(p, "done")
     ELSE req' = [req EXCEPT ![p] = "done"] /\ UNCHANGED inbox
  /\ UNCHANGED <<rowVars, branch, pullRequest, wireVars, workVars, faultVars, lock, validated>>

BeginClose(c) ==
  /\ req[c] = "idle"
  /\ Rows!BeginClose(c)
  /\ req' = [req EXCEPT ![c] = "begun"]
  /\ UNCHANGED <<branch, pullRequest, wireVars, workVars, faultVars, inbox, lock, validated>>

\* A CREATED session is closed without a word to the agent.
NeedsCleanup(c) == tx[c].seen.status # "CREATED"

RouteClose(c) ==
  /\ req[c] = "begun"
  /\ NeedsCleanup(c)
  /\ Send(c, "sent")
  /\ UNCHANGED <<rowVars, branch, pullRequest, wireVars, workVars, faultVars, lock, validated>>

MayCommitClose(c) == (req[c] = "begun" /\ ~NeedsCleanup(c)) \/ req[c] = "accepted"

CommitClose(c) ==
  /\ MayCommitClose(c)
  /\ Rows!CommitClose(c)
  /\ req' = [req EXCEPT ![c] = IF NeedsCleanup(c) THEN "done" ELSE "untold"]
  /\ UNCHANGED <<branch, pullRequest, wireVars, workVars, faultVars, inbox, lock, validated>>

\* The agent is offline, refused, or has not answered within 30 s.
FailClose(c) ==
  /\ \/ req[c] = "begun" /\ NeedsCleanup(c) /\ link # "online"
     \/ req[c] \in {"sent", "silent", "rejected"}
  /\ Rows!AbortClose(c)
  /\ req' = [req EXCEPT ![c] = "failed"]
  /\ UNCHANGED <<branch, pullRequest, wireVars, workVars, faultVars, inbox, lock, validated>>

BeginReview(r) ==
  /\ req[r] = "idle"
  /\ Rows!BeginReview(r)
  /\ req' = [req EXCEPT ![r] = "begun"]
  /\ UNCHANGED <<branch, pullRequest, wireVars, workVars, faultVars, inbox, lock, validated>>

ApproveReview(r) ==
  /\ Rows!ApproveReview(r)
  /\ UNCHANGED <<apiVars, wireVars, workVars, faultVars, inbox, lock, validated>>

RefuseReview(r) ==
  /\ Rows!RefuseReview(r)
  /\ req' = [req EXCEPT ![r] = "failed"]
  /\ UNCHANGED <<branch, pullRequest, wireVars, workVars, faultVars, inbox, lock, validated>>

RoutePush(r) ==
  /\ req[r] = "begun" /\ tx[r].stage = "approved"
  /\ Send(r, "sent")
  /\ UNCHANGED <<rowVars, branch, pullRequest, wireVars, workVars, faultVars, lock, validated>>

\* SourceControlPort.createReviewRequest: the provider opens a pull request
\* for whatever the remote branch holds, and needs one.
OpenPullRequest(r) ==
  /\ req[r] = "accepted"
  /\ branch # NotPushed
  /\ pullRequest' = branch
  /\ req' = [req EXCEPT ![r] = "opened"]
  /\ UNCHANGED <<rowVars, branch, wireVars, workVars, faultVars, inbox, lock, validated>>

\* The agent is offline, refused, or silent for 30 s, or the provider fails.
FailReview(r) ==
  /\ \/ req[r] = "begun" /\ link # "online"
     \/ req[r] \in {"sent", "silent", "rejected", "accepted"}
  /\ Rows!AbortReview(r)
  /\ req' = [req EXCEPT ![r] = "failed"]
  /\ UNCHANGED <<branch, pullRequest, wireVars, workVars, faultVars, inbox, lock, validated>>

CommitReview(r) ==
  /\ req[r] = "opened"
  /\ Rows!CommitReview(r)
  /\ req' = [req EXCEPT ![r] = "done"]
  /\ UNCHANGED <<branch, pullRequest, wireVars, workVars, faultVars, inbox, lock, validated>>
-----------------------------------------------------------------------------
(***************************************************************************)
(* The agent's flows.                                                      *)
(***************************************************************************)
Receive(f) == link # "down" /\ inbox # <<>> /\ Head(inbox) = f /\ inbox' = Tail(inbox)

Holds(f) == lock # <<>> /\ Head(lock) = f

\* Answers the awaited command of request q, if the API still waits.
Answer(q, a) == req' = IF req[q] = "sent" THEN [req EXCEPT ![q] = a] ELSE req

ReceivePrepare ==
  /\ Receive("prepare")
  /\ Emit("prepare", "connecting", Progress("AGENT_CONNECTING"))
  /\ UNCHANGED <<rowVars, apiVars, workVars, faultVars, lock, validated>>

QueuePrepare ==
  /\ At("prepare", "connecting", {"ok"})
  /\ lock' = Append(lock, "prepare")
  /\ Goto("prepare", "queued")
  /\ UNCHANGED <<rowVars, apiVars, workVars, faultVars, inbox, validated>>

BeginPrepare ==
  /\ At("prepare", "queued", {"idle"}) /\ Holds("prepare")
  /\ workspace = "none"
  /\ Emit("prepare", "worktree", Progress("WORKTREE_CREATING"))
  /\ UNCHANGED <<rowVars, apiVars, workVars, faultVars, inbox, lock, validated>>

CreateWorktree ==
  /\ At("prepare", "worktree", {"ok"})
  /\ workspace' = "active"
  /\ Emit("prepare", "sandbox", Progress("DOCKER_STARTING"))
  /\ UNCHANGED <<rowVars, apiVars, content, drafts, harness, turn, faultVars, inbox, lock, validated>>

StartSandbox ==
  /\ At("prepare", "sandbox", {"ok"})
  /\ Emit("prepare", "preview", Progress("PREVIEW_STARTING"))
  /\ UNCHANGED <<rowVars, apiVars, workVars, faultVars, inbox, lock, validated>>

OpenPreview ==
  /\ At("prepare", "preview", {"ok"})
  /\ lock' = Tail(lock)
  /\ Emit("prepare", "ready", Event("session.ready", "none"))
  /\ UNCHANGED <<rowVars, apiVars, workVars, faultVars, inbox, validated>>

\* Mutant of FailPrepare: the lock is not released on the way out.
FailPrepareKeepsLock ==
  /\ \E loc \in {"worktree", "sandbox", "preview"} : At("prepare", loc, {"ok", "rejected"})
  /\ workspace' \in {workspace, "none"}
  /\ Emit("prepare", "failing", Failure)
  /\ UNCHANGED <<rowVars, apiVars, content, drafts, harness, turn, faultVars, inbox, lock, validated>>

\* A step fails or its event is rejected: what exists is cleaned up (the
\* workspace stays registered when the clean-up fails too), then reported.
FailPrepare ==
  /\ \E loc \in {"worktree", "sandbox", "preview"} : At("prepare", loc, {"ok", "rejected"})
  /\ workspace' \in {workspace, "none"}
  /\ lock' = Tail(lock)
  /\ Emit("prepare", "failing", Failure)
  /\ UNCHANGED <<rowVars, apiVars, content, drafts, harness, turn, faultVars, inbox, validated>>

ReportPrepare ==
  /\ \E loc \in {"connecting", "ready"} : At("prepare", loc, {"rejected"})
  /\ Emit("prepare", "failing", Failure)
  /\ UNCHANGED <<rowVars, apiVars, workVars, faultVars, inbox, lock, validated>>

EndPrepare ==
  /\ At("prepare", "ready", {"ok"}) \/ At("prepare", "failing", {"ok", "rejected"})
  /\ Goto("prepare", "done")
  /\ UNCHANGED <<rowVars, apiVars, workVars, faultVars, inbox, lock, validated>>

ReceivePrompt(p) ==
  /\ Receive(p)
  /\ IF workspace = "active"
       THEN Emit(p, "starting", Progress("AGENT_RUNNING"))
       ELSE Emit(p, "finishing", Failure)
  /\ UNCHANGED <<rowVars, apiVars, workVars, faultVars, lock, validated>>

\* The harness refuses a second run for the session; runHarness then cancels
\* the session's run, which is the other prompt's.
RunHarness(p) ==
  /\ At(p, "starting", {"ok"})
  /\ workspace # "none"
  /\ IF harness = NoFlow
       THEN /\ harness' = p
            /\ turn' = IF turn[p].repairs = 0 THEN [turn EXCEPT ![p].base = content] ELSE turn
            /\ Goto(p, "running")
       ELSE /\ harness' = NoFlow
            /\ Emit(p, "finishing", Failure)
            /\ UNCHANGED turn
  /\ UNCHANGED <<rowVars, apiVars, workspace, content, drafts, faultVars, inbox, lock, validated>>

\* What the run leaves in the worktree: what it found, something new, or (a
\* repair) what the turn started from.
HarnessWrites(p) ==
  \/ UNCHANGED <<content, drafts>>
  \/ drafts < MaxDrafts /\ drafts' = drafts + 1 /\ content' = drafts + 1
  \/ content' = turn[p].base /\ turn[p].repairs > 0 /\ UNCHANGED drafts

HarnessSucceeds(p) ==
  /\ At(p, "running", {"idle"}) /\ harness = p
  /\ workspace # "none"
  /\ HarnessWrites(p)
  /\ harness' = NoFlow
  /\ CASE content' = turn[p].base -> Emit(p, "finishing", Event("agent.done", "unchanged"))
       [] content' # turn[p].base /\ turn[p].repairs > 0 /\ content' = turn[p].checked ->
            Emit(p, "unrepaired", Event("agent.done", "changed"))
       [] OTHER -> Emit(p, "changed", Event("agent.done", "changed"))
  /\ UNCHANGED <<rowVars, apiVars, workspace, turn, faultVars, inbox, lock, validated>>

\* Mutant of HarnessFails: the exit code is logged and nothing is published.
HarnessFailsSilently(p) ==
  /\ At(p, "running", {"idle"})
  /\ IF harness = p THEN harness' = NoFlow /\ HarnessWrites(p)
                    ELSE UNCHANGED <<content, drafts, harness>>
  /\ Goto(p, "done")
  /\ UNCHANGED <<rowVars, apiVars, workspace, turn, faultVars, inbox, lock, validated>>

HarnessFails(p) ==
  /\ At(p, "running", {"idle"})
  /\ IF harness = p THEN harness' = NoFlow /\ HarnessWrites(p)
                    ELSE UNCHANGED <<content, drafts, harness>>
  /\ Emit(p, "finishing", Event("agent.done", "failed"))
  /\ UNCHANGED <<rowVars, apiVars, workspace, turn, faultVars, inbox, lock, validated>>

\* Checks that fail in build, tests or lint send the harness back to work, at
\* most MaxRepairs times; otherwise their result is published.
RunChecks(p) ==
  /\ At(p, "changed", {"ok"})
  /\ workspace # "none"
  /\ \/ /\ turn[p].repairs < MaxRepairs
        /\ turn' = [turn EXCEPT ![p].repairs = @ + 1, ![p].checked = content]
        /\ Emit(p, "starting", Progress("AGENT_RUNNING"))
     \/ /\ turn' = [turn EXCEPT ![p].checked = content]
        /\ \E outcome \in {"passed", "failed"} : Emit(p, "finishing", Event("checks.result", outcome))
  /\ UNCHANGED <<rowVars, apiVars, workspace, content, drafts, harness, faultVars, inbox, lock, validated>>

\* A repair that changed nothing ends the turn with the failure it was sent for.
GiveUpRepair(p) ==
  /\ At(p, "unrepaired", {"ok"})
  /\ Emit(p, "finishing", Event("checks.result", "failed"))
  /\ UNCHANGED <<rowVars, apiVars, workVars, faultVars, inbox, lock, validated>>

\* Anything else that throws during the turn (a worktree that is gone, a
\* download, a diff, the harness's process) is reported as an error event.
BreakPrompt(p) ==
  /\ \/ \E loc \in {"starting", "changed", "unrepaired"} : At(p, loc, {"ok"})
     \/ At(p, "running", {"idle"})
  /\ harness' = IF harness = p THEN NoFlow ELSE harness
  /\ Emit(p, "finishing", Failure)
  /\ UNCHANGED <<rowVars, apiVars, workspace, content, drafts, turn, faultVars, inbox, lock, validated>>

\* A rejected event ends the turn without a word: of the flow itself, or (with
\* the connection gone) of the output of the running harness.
DropPrompt(p) ==
  /\ \/ \E loc \in {"starting", "changed", "unrepaired"} : At(p, loc, {"rejected"})
     \/ At(p, "running", {"idle"}) /\ link = "offline"
  /\ harness' = IF harness = p THEN NoFlow ELSE harness
  /\ Goto(p, "done")
  /\ UNCHANGED <<rowVars, apiVars, workspace, content, drafts, turn, faultVars, inbox, lock, validated>>

EndPrompt(p) ==
  /\ At(p, "finishing", {"ok", "rejected"})
  /\ Goto(p, "done")
  /\ UNCHANGED <<rowVars, apiVars, workVars, faultVars, inbox, lock, validated>>

\* The continuation of an acknowledged event runs before the next command is
\* received: a preparation takes its place in the queue first.
Enqueue(q) ==
  /\ Receive(q)
  /\ ~At("prepare", "connecting", {"ok"})
  /\ lock' = Append(lock, q)
  /\ Goto(q, "queued")
  /\ UNCHANGED <<rowVars, apiVars, workVars, faultVars, validated>>

\* What an awaited command's handler answers once its last event is settled.
Finish(q, loc, acks, answer) ==
  /\ At(q, loc, acks)
  /\ Answer(q, answer)
  /\ Goto(q, "done")
  /\ UNCHANGED <<rowVars, branch, pullRequest, workVars, faultVars, inbox, lock, validated>>

\* A workspace the registry does not know has nothing to clean.
CleanUp(c) ==
  /\ At(c, "queued", {"idle"}) /\ Holds(c)
  /\ workspace' = IF workspace = "unloaded" THEN "unloaded" ELSE "none"
  /\ lock' = Tail(lock)
  /\ Emit(c, "closed", Event("session.closed", "none"))
  /\ UNCHANGED <<rowVars, apiVars, content, drafts, harness, turn, faultVars, inbox, validated>>

\* A tunnel, a sandbox or the worktree resists: the workspace stays registered.
FailCleanUp(c) ==
  /\ At(c, "queued", {"idle"}) /\ Holds(c)
  /\ workspace \in {"active", "stored"}
  /\ lock' = Tail(lock)
  /\ Emit(c, "failing", Failure)
  /\ UNCHANGED <<rowVars, apiVars, workVars, faultVars, inbox, validated>>

RefuseClosed(c) ==
  /\ At(c, "closed", {"rejected"})
  /\ Emit(c, "failing", Failure)
  /\ UNCHANGED <<rowVars, apiVars, workVars, faultVars, inbox, lock, validated>>

EndClose(c) ==
  \/ Finish(c, "closed", {"ok"}, "accepted")
  \/ Finish(c, "failing", {"ok", "rejected"}, "rejected")

\* Commits and pushes whatever the worktree holds.  The event only records it.
PushBranch(r) ==
  /\ At(r, "queued", {"idle"}) /\ Holds(r)
  /\ workspace = "active"
  /\ branch' = content
  /\ lock' = Tail(lock)
  /\ Answer(r, "accepted")
  /\ Goto(r, "pushed")
  /\ UNCHANGED <<rowVars, pullRequest, workVars, faultVars, inbox, validated>>

FailPush(r) ==
  /\ At(r, "queued", {"idle"}) /\ Holds(r)
  /\ lock' = Tail(lock)
  /\ Emit(r, "failing", Failure)
  /\ UNCHANGED <<rowVars, apiVars, workVars, faultVars, inbox, validated>>

\* handleGitPushBranch reports the failure as an event and then answers the
\* command as handled.
EndPush(r) ==
  \/ Finish(r, "failing", {"ok"}, "accepted")
  \/ Finish(r, "failing", {"rejected"}, "rejected")
-----------------------------------------------------------------------------
(***************************************************************************)
(* Failures, restarts and the recovery of the persisted workspace.         *)
(***************************************************************************)
Silence == [q \in Requests |-> IF req[q] = "sent" THEN "silent" ELSE req[q]]

\* The process ends: its handlers, queue and harness with it.  The registry
\* file and the worktree stay.
Stop ==
  /\ link' = "down"
  /\ flow' = [f \in Flows |-> IF flow[f].at = "idle" THEN flow[f]
                               ELSE [flow[f] EXCEPT !.at = "done", !.ack = "idle"]]
  /\ inbox' = <<>>
  /\ lock' = <<>>
  /\ harness' = NoFlow
  /\ workspace' = IF workspace = "none" THEN "none" ELSE "unloaded"
  /\ req' = Silence
  /\ UNCHANGED <<rowVars, branch, pullRequest, net, content, drafts, turn, validated>>

Crash ==
  /\ link # "down"
  /\ faults.crashes < MaxCrashes /\ faults.crashes + faults.drops < MaxFaults
  /\ Stop
  /\ faults' = [faults EXCEPT !.crashes = @ + 1]

\* The new process registers and then restores its sessions; commands come in
\* from the registration on.  A process takes longer to come back than the API
\* to settle the events of the connection that died with the last one.
Restart ==
  /\ link = "down"
  /\ \A h \in Flows \X Slots : net[h] = NoEvent /\ tx[h].stage = "idle"
  /\ link' = "online"
  /\ Goto("recovery", "loading")
  /\ UNCHANGED <<rowVars, apiVars, workVars, faults, inbox, lock, validated>>

LoadRegistry ==
  /\ At("recovery", "loading", {"idle"})
  /\ workspace' = IF workspace = "unloaded" THEN "active" ELSE workspace
  /\ Goto("recovery", IF workspace = "unloaded" THEN "restoring" ELSE "done")
  /\ UNCHANGED <<rowVars, apiVars, content, drafts, harness, turn, faultVars, inbox, lock, validated>>

RebuildPreview ==
  /\ At("recovery", "restoring", {"idle"})
  /\ workspace = "active"
  /\ Emit("recovery", "recovering", Event("session.recovered", "none"))
  /\ UNCHANGED <<rowVars, apiVars, workVars, faultVars, inbox, lock, validated>>

\* Mutant of FailRecovery: the failure is kept to the agent's log.
FailRecoverySilently ==
  /\ At("recovery", "restoring", {"idle"})
  /\ workspace' = IF workspace = "active" THEN "stored" ELSE workspace
  /\ Goto("recovery", "done")
  /\ UNCHANGED <<rowVars, apiVars, content, drafts, harness, turn, faultVars, inbox, lock, validated>>

\* Also when the session is closed under the recovery, which holds no lock.
FailRecovery ==
  /\ At("recovery", "restoring", {"idle"})
  /\ workspace' = IF workspace = "active" THEN "stored" ELSE workspace
  /\ Emit("recovery", "failing", Failure)
  /\ UNCHANGED <<rowVars, apiVars, content, drafts, harness, turn, faultVars, inbox, lock, validated>>

EndRecovery ==
  /\ At("recovery", "recovering", {"ok"}) \/ At("recovery", "failing", {"ok", "rejected"})
  /\ Goto("recovery", "done")
  /\ UNCHANGED <<rowVars, apiVars, workVars, faultVars, inbox, lock, validated>>

\* session.recovered is required: without its acknowledgement start() fails.
AbandonRecovery ==
  /\ At("recovery", "recovering", {"rejected"})
  /\ Stop
  /\ UNCHANGED faults

\* The connection is lost: commands in transit and answers with it.
Drop ==
  /\ link = "online"
  /\ faults.drops < MaxDrops /\ faults.crashes + faults.drops < MaxFaults
  /\ link' = "offline"
  /\ inbox' = <<>>
  /\ req' = Silence
  /\ faults' = [faults EXCEPT !.drops = @ + 1]
  /\ UNCHANGED <<rowVars, branch, pullRequest, wireVars, workVars, lock, validated>>

Reconnect ==
  /\ link = "offline"
  /\ link' = "online"
  /\ UNCHANGED <<rowVars, apiVars, wireVars, workVars, faults, inbox, lock, validated>>
-----------------------------------------------------------------------------
EventStep(f, s) ==
  \/ ReadEvent(f, s)
  \/ ReadLatestRun(f, s)
  \/ CommitEvent(f, s)
  \/ RejectEvent(f, s)
  \/ LoseEvent(f, s)

PrepareStep ==
  \/ ReceivePrepare
  \/ QueuePrepare
  \/ BeginPrepare
  \/ CreateWorktree
  \/ StartSandbox
  \/ OpenPreview
  \/ FailPrepare
  \/ ReportPrepare
  \/ EndPrepare

PromptStep(p) ==
  \/ RoutePrompt(p)
  \/ ReceivePrompt(p)
  \/ RunHarness(p)
  \/ HarnessSucceeds(p)
  \/ HarnessFails(p)
  \/ RunChecks(p)
  \/ GiveUpRepair(p)
  \/ BreakPrompt(p)
  \/ DropPrompt(p)
  \/ EndPrompt(p)

CloseStep(c) ==
  \/ RouteClose(c)
  \/ CommitClose(c)
  \/ FailClose(c)
  \/ Enqueue(c)
  \/ CleanUp(c)
  \/ FailCleanUp(c)
  \/ RefuseClosed(c)
  \/ EndClose(c)

ReviewStep(r) ==
  \/ ApproveReview(r)
  \/ RefuseReview(r)
  \/ RoutePush(r)
  \/ OpenPullRequest(r)
  \/ FailReview(r)
  \/ CommitReview(r)
  \/ Enqueue(r)
  \/ PushBranch(r)
  \/ FailPush(r)
  \/ EndPush(r)

RecoveryStep ==
  \/ LoadRegistry
  \/ RebuildPreview
  \/ FailRecovery
  \/ EndRecovery
  \/ AbandonRecovery

Request ==
  \/ \E p \in Prompts : AcceptPrompt(p)
  \/ \E c \in Closers : BeginClose(c)
  \/ \E r \in Reviews : BeginReview(r)

Fault == Crash \/ Restart \/ Drop \/ Reconnect \/ \E f \in Flows : Timeout(f)

Next ==
  \/ Request
  \/ \E f \in Flows, s \in Slots : EventStep(f, s)
  \/ PrepareStep
  \/ \E p \in Prompts : PromptStep(p)
  \/ \E c \in Closers : CloseStep(c)
  \/ \E r \in Reviews : ReviewStep(r)
  \/ RecoveryStep
  \/ Fault

Spec == Init /\ [][Next]_vars

\* Handlers that have begun go on, in the API and in the agent; a harness run
\* ends; an agent that stopped is started again.  Nobody has to make a request,
\* and nothing has to fail.
Fairness ==
  /\ WF_vars(Restart)
  /\ \A f \in Flows, s \in Slots : WF_vars(EventStep(f, s))
  /\ WF_vars(PrepareStep) /\ WF_vars(RecoveryStep)
  /\ \A p \in Prompts : WF_vars(PromptStep(p))
  /\ \A c \in Closers : WF_vars(CloseStep(c))
  /\ \A r \in Reviews : WF_vars(ReviewStep(r))

FairSpec == Spec /\ Fairness

\* Only what takes the session's lock goes on, with the events it emits: nothing is asked of
\* prompts, of a recovery or of whoever restarts the agent.
LockFairness ==
  /\ \A f \in {"prepare"} \cup Closers \cup Reviews, s \in Slots : WF_vars(EventStep(f, s))
  /\ WF_vars(PrepareStep)
  /\ \A c \in Closers : WF_vars(CloseStep(c))
  /\ \A r \in Reviews : WF_vars(ReviewStep(r))

LockSpec == Spec /\ LockFairness
-----------------------------------------------------------------------------
Locations == {"idle", "queued", "done", "failing"}
               \cup {"connecting", "worktree", "sandbox", "preview", "ready"}
               \cup {"starting", "running", "changed", "unrepaired", "finishing"}
               \cup {"closed", "pushed", "loading", "restoring", "recovering"}

WireTypeOK ==
  /\ net \in [Flows \X Slots -> AgentEvents \cup {NoEvent}]
  /\ flow \in [Flows -> [at : Locations, ack : {"idle", "pending", "ok", "rejected"}, slot : Slots]]

WorkTypeOK ==
  /\ workspace \in {"none", "active", "stored", "unloaded"}
  /\ drafts \in 0..MaxDrafts /\ content \in 0..drafts
  /\ harness \in Prompts \cup {NoFlow}
  /\ turn \in [Prompts -> [base : 0..MaxDrafts, checked : 0..MaxDrafts, repairs : 0..MaxRepairs]]

ApiTypeOK ==
  /\ req \in [Requests -> {"idle", "begun", "sent", "silent", "accepted", "rejected",
                           "opened", "done", "untold", "failed"}]
  /\ branch \in -1..MaxDrafts /\ pullRequest \in -1..MaxDrafts
  /\ validated \subseteq 0..MaxDrafts

QueueTypeOK ==
  /\ inbox \in Seq(Requests \cup {"prepare"})
  /\ lock \in Seq(Closers \cup Reviews \cup {"prepare"})

FaultTypeOK ==
  /\ link \in {"online", "offline", "down"}
  /\ faults \in [timeouts : 0..MaxTimeouts, crashes : 0..MaxCrashes, drops : 0..MaxDrops]

\* Type invariant; the rows' own is SessionRow's.
TypeOK == Rows!TypeOK /\ WireTypeOK /\ WorkTypeOK /\ ApiTypeOK /\ QueueTypeOK /\ FaultTypeOK

\* A close the agent was asked to clean up for, and that succeeded, leaves no
\* workspace behind: not the one a preparation was still building, nor one
\* that a clean-up could not remove (SessionCloseService.closeSession).  Of an
\* agent that has not crashed: one that has yet to load its registry, or is
\* recovering, finds nothing to clean and says so.
CleanClose ==
  faults.crashes = 0 => \A c \in Closers : req[c] = "done" => workspace = "none"

\* The pull request opened for a session shows a draft whose checks passed in
\* a recorded validation run: between the policy's decision and the push, and
\* between the push and the pull request, nothing else gets on the branch
\* (CreateReviewRequestUseCase.create).
PullRequestIsValidated == pullRequest # NotPushed => pullRequest \in validated

\* A session that awaits its product manager's validation, with no prompt at
\* work, has a worktree whose checks passed (SessionEventsService.apply, where
\* an unchanged turn goes back to the status of the latest validation run).
AwaitingIsValidated ==
  row.status = "AWAITING_PM_VALIDATION" /\ (\A p \in Prompts : flow[p].at \in {"idle", "done"})
    => content \in validated

\* A pull request is opened only after the push that its own review request
\* ordered succeeded (AgentClient.handleGitPushBranch).
PushedBeforeReview == \A r \in Reviews : req[r] \in {"opened", "done"} => flow[r].at = "pushed"

\* While nobody has asked for anything, no connection has been lost and no
\* acknowledgement given up (an event may then be applied after what the agent has
\* undone), and no recovery is going on, a session shown as READY has an active workspace:
\* no row says ready for a preparation that was undone, and after a crash the
\* recovery's outcome and the preparation's last events leave the row and the
\* workspace in agreement.
ReadyHasWorkspace ==
  /\ row.status = "READY"
  /\ link = "online" /\ faults.drops = 0 /\ faults.timeouts = 0
  /\ flow["recovery"].at \in {"idle", "done"}
  /\ \A q \in Requests : req[q] = "idle"
  => workspace = "active"

\* What a session's row says of its workspace is so: a successful close left none, READY
\* has an active one, and every variable keeps to its type.
WorkspaceIsAsShown == TypeOK /\ CleanClose /\ ReadyHasWorkspace

\* A closed session is never open again, whatever its agent still sends: nothing but a
\* failure leads out of CLOSED (SessionStateMachine.applyAgentEvent).
ClosedStaysClosed == [][row.status = "CLOSED" => row'.status \in {"CLOSED", "FAILED"}]_vars

\* The rows as SessionRow sees them.  The lifecycle changes them with SessionRow's own
\* actions: this carries its theorems over, and is no claim about the code.
RowsSpec == Rows!Spec

\* A session shown as running gets out of it: whatever two prompts, a close,
\* a review or a crash of the agent do to each other, some event says so, unless an event
\* was given up or the connection lost: it is not sent again.
RunningEnds ==
  row.status \in Operating ~> row.status \notin Operating \/ faults.timeouts + faults.drops > 0

\* A clean-up or a push that waits for the session's lock gets it: every
\* holder, failing or not, releases it (SessionRunner.withSessionLock).
QueueAdvances == \A q \in Closers \cup Reviews : flow[q].at = "queued" ~> flow[q].at # "queued"
=============================================================================
