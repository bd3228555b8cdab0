# PairDock in TLA+

PairDock lets a product manager work with a coding agent that runs on a
developer's machine.  An **API** (`apps/api`, NestJS over PostgreSQL) keeps the
sessions; a **local agent** (`packages/local-agent`, started from a terminal or
by the **desktop application**, `apps/agent-desktop`) keeps the worktrees, runs
the previews and the coding agent; a **web application** (`apps/web`) shows both
to people.  The local agent keeps one Socket.IO connection open to the API:
commands go one way over it (`session.prepare`, `agent.prompt`,
`git.pushBranch`, `session.close`, ...), lifecycle events the other way.

Nothing in this design locks anything across that connection.  The API reads a
session, waits for a database, an agent or GitHub, and writes what it decided;
the agent works, announces what it did, and takes an announcement that nobody
acknowledges for accepted.  What the modules here ask is what stays true of a
session, its worktree, its pull request and the registry of agents when those
steps interleave, when the agent crashes, and when the connection drops.

## Inventory

| Component | State | Operations | Interacts with | What is hard, and what makes it correct |
|---|---|---|---|---|
| Session state machine, session events (`sessions/session-state-machine.ts`, `session-events.service.ts`) | `sessions` row: status, closedAt, lastError, previewUrl; `validation_runs` rows | apply a lifecycle event: read row, (read latest run), decide, write | gateway calls it once per accepted event | The row is not locked between the read and the write.  A closed session keeps its date; a review needs a passed run; a running session gets out of running |
| Session close (`session-close.service.ts`) | the same row | read, send `session.close` and wait up to 30 s, write CLOSED | command router, local agent | The write is unconditional.  A session that says CLOSED left nothing on the agent |
| Session starts, tool readiness (`session-start-policy.ts`, `sessions.service.ts`, `tool-readiness.service.ts`) | sessions, their members, readiness rows | check, check, create, prepare | agents' published projects | Five awaits between the first check and the preparation.  Only what the project vouches for starts |
| Prompts, attachments, comparisons (`session-prompt.service.ts`, `attachments/`) | messages, attachment rows, stored files | validate, store, commit, compensate | storage, database, agent | Files outside of the transaction; two limits.  All or nothing, within the limits |
| Review requests, webhooks (`create-review-request.use-case.ts`, `github-webhooks/`, GitHub adapter) | `review_requests` row, remote branch, pull request, screenshots | policy, push (awaited), provider call, store; update unless older | agent, GitHub | Decided on what was read before two long waits; deliveries out of order.  What is opened was validated, its status is the last one's |
| Agent gateway, connected-agents registry (`agent-gateway/`) | `agentIdBySocketId`, `socketIdByAgentId`, `snapshotByAgentId`, `agent_registrations` rows | connect, register, disconnect, authorise an event, route a command | every command and event | Awaits between look-up and use; sockets close meanwhile.  The maps agree, a key has one holder, commands reach the agent they are for |
| Agent credentials, onboarding (`agent-authentication.service.ts`, `agent-onboarding/`) | static configuration, enrolment rows, pairings, a limiter | authenticate, assertActive, start, approve, claim, revoke | gateway | Revocation against connections in progress; a pairing is consumed once |
| Projects, members, sign-in (`projects/`, `invitations/`, `users/`, `auth/`) | rows, cookies | create, share, edit; redirect, callback, installations | GitHub, browser | Rows found and then written; several tabs.  Nobody loses a project, an account or an installation |
| UI gateway and the session's page (`ui-gateway/`, `session-synchronization.ts`) | rooms; query caches | join, notify; read, re-read | API | Reads racing notices.  A page at rest is current |
| Local agent, command handlers (`websocket/agent-client.ts`) | socket, status, number of active commands | one handler per command, emit and await acknowledgements, register, publish recoveries | session runner, prompt runner | Handlers run concurrently; an unacknowledged event counts as accepted after 5 s; failures are events and answers |
| Session runner and registry (`session/`, `git/worktree.service.ts`) | workspaces, active and persisted; a queue per session; worktrees | prepare, close, push, restore, shut down | sandbox, tunnel, git | Partial preparations and clean-ups, recovery without the lock.  Memory, file, worktree and preview agree |
| Prompt turn (`session/prompt-runner.ts`, `harness/`, `checks/`, `git/diff.service.ts`) | the running harness of a session, the worktree's contents, processes | run, check, repair (bounded), publish | command handlers, Codex | A refused second run cancels the first; streams end after processes.  What was checked is what is announced |
| Previews (`docker/`, `preview/`, `tunnel/`) | containers, processes, ports, tunnels, proxies, volumes, companions | start, wait, stop, open, close, prewarm, hold a page | session runner, Docker, cloudflared | External processes that fail half-way, numbers that are used again.  Nothing is left, no stranger is hit, every wait ends |
| Settings and readiness (`config/`, `readiness/`) | file, manifest, catalog as read at the start | load, probe, report | machine, API | Two files and their defaults.  What is reported ready can run |
| Desktop manager and application (`local-agent/src/desktop/`, `apps/agent-desktop`) | profile, pairing, runtime, status; the window's snapshot | serialised operations; poll, act | pairing API, agent client, Codex | Callbacks of clients already replaced; a crash between claim and save; reads that go on for minutes |
| Web application (`apps/web`) | query caches, forms, the picker's bridge | synchronise, choose, compose, import, pick | API, preview window | Re-reads racing answers and the user |

`PROJECT.json` repeats this list with the status of each part, and lists under
`hazards` the places in the code where tests hardly reach.

## Modules

| Module | Models | Kind |
|---|---|---|
| `SessionStateMachine` | transitions, recovery, resumption of a status | pure operators |
| `SessionRow` | the session's rows under the API's concurrent handlers | state machine over any number of handlers |
| `SessionLifecycle` | one session end to end: API, wire, local agent, remote branch | state machine that uses the actions of `SessionRow` (an `INSTANCE`) |
| `LocalSessions` | the agent's sessions resource by resource | state machine with crashes and failures at every step |
| `AgentGateway` | registry, registration, authorisation, routing, revocation | state machine |
| `AgentPairing` | pairings, approvals, claims and registrations at the API | state machine; the protocol the desktop is a client of |
| `DesktopAgent` | the desktop manager: queue, profile, polling, runtime | state machine that takes the actions of `AgentPairing` (it extends it) and implements it |
| `ProjectBinding` | when a published project is a project's | pure operators, used by the next two |
| `SessionStart`, `ProjectSetup` | starting sessions; creating, sharing and editing projects | state machines of concurrent requests |
| `SignIn`, `PreviewComparisons`, `PullRequestStatus` | the API's other racing writers | state machines |
| `BrowserSession`, `Conversation`, `PreviewSelection`, `ReviewComposer` | the page of a session | state machines; `Conversation` is two pure functions over what was read |
| `DeveloperProjects`, `ProjectForm` | the developer's pages | state machines |
| `PromptTurn`, `WorktreeChanges`, `HostChecks` | a turn: its processes, its files, its checks | state machines |
| `PreviewProcess`, `PreviewTunnel`, `PreviewProxy`, `PreviewCompanion`, `DependencyCache` | a preview and what is around it | state machines |
| `AgentSettings` | settings and readiness | state machine |
| `DesktopApplication`, `DesktopWindow`, `CodexCommands` | the desktop application | state machines |
| `SessionRow_proofs`, `SessionLifecycle_proofs`, `LocalSessions_proofs`, `AgentGateway_proofs`, `DesktopAgent_proofs` (and `AgentPairing`) | | theorems |
| `MCParts_proofs`, `MCWebParts_proofs`, `MCAgentParts_proofs` | | theorems about the parts of `MCParts`: of the API, of the pages, of a developer's computer |
| `MCParts`, `MCPartsLiveness`, `MCLocalSessions`, `MCSessionLifecycle`, `MCAgentGateway`, `MCDesktopAgent` | instances for TLC | |

### SessionRow

`row` is the part of the `sessions` row that decisions look at, `latestRun` and
`runs` the `validation_runs` rows, `reviewRequest` whether a review request is
stored.  `tx[h]` is what handler `h` of the API is doing and the snapshot it
works from.  Each handler is a read step and a commit step: PostgreSQL's default
isolation (READ COMMITTED, no row lock in these three services) lets any other
handler in between.  `SessionEventsService.apply` is `ReadForEvent`,
`ReadLatestRun` (a turn that changed nothing), then `CommitEvent` or
`RejectEvent`; `closeSession` is `BeginClose` and `CommitClose` or `AbortClose`;
the review use case is `BeginReview`, `ApproveReview` or `RefuseReview`, and
`CommitReview` or `AbortReview`.

### SessionLifecycle

A *flow* is one command handler running on the agent, and has a place in the
code (`at`), the fate of the event it last emitted (`ack`) and the API handler
that event went to (`slot`).  Local work is a step that ends in the next
emission.  `Emit` puts the event on the wire; the acknowledgement comes with
`CommitEvent` or `RejectEvent`; `Timeout` is the five seconds after which
`emitEvent` resolves although the event may still be applied.  A rejected event
is an exception in the flow, with the handling the code has at that place.

`lock` is the promise chain of `withSessionLock`, its head running.
`workspace` is `active`, `stored` (in the registry file, not active), `unloaded`
(in the file of a process that has just started) or `none`.  `content` is which
draft the worktree holds: what the harness wrote is all the properties compare.
`turn[p]` has the draft a prompt started from (`initialDiff`), the one it checked
and its repairs.  `branch` and `pullRequest` are the drafts pushed and opened.
The provider of pull requests and git's remote are outside of the repository and
are modelled by what the code needs of them: a pull request shows whatever the
branch held when it was opened.

`req[q]` is how far the API's handler of a request is; `sent` means it waits for
an acknowledgement of the command, for at most 30 s.

Three places are simpler than the code, and no property tells the difference: the
announcement of a pushed branch (`git.branchPushed`) is not acknowledged, since it
changes no row; a preparation does not fail while it waits for the lock, where it does
nothing yet; and `SessionStart`, `PreviewComparisons` have one failure for a command that
cannot be routed and for the checks, or the transaction, before it.

### AgentGateway

The three maps of `ConnectedAgentsRegistry` (`agentOf`, `socketOf`, and `known`
with `served` for the snapshots) are changed by whole handlers up to their next
`await`.  For a paired agent `assertActive` awaits the database: `checking` is
that wait and `active` the microtask between its answer and the registration.
A statically configured agent is never looked up, and its check and registration
are one step.  A session event is read (`ReadSnapshot`), then its project is
loaded, then it is decided (`DecideEvent`).  A command looks the socket up
(`Route`) and is emitted after the check (`Emit`).  Left out: agents without a
credential, which exist in `NODE_ENV=test` only, and routing by agent id, which
no caller uses.

### AgentPairing and DesktopAgent

`AgentPairing` has the `agent_pairings` rows and the owners of the
`agent_registrations` rows.  Each claim request makes its own agent id, prefix
and credential, so the claim itself stands for the three.  A claim is the look-up
of the service (`CheckClaim`), the read of the transaction (`ReadPairing`) and its
update, insertion and commit (`ConsumePairing`): under READ COMMITTED two
transactions may both have read an unclaimed row, and the condition of the
update decides.  An approval is `Inspect` and `Approve`.  What the code computes
from the clock is computed in the step that reads the row, as in the code, so
a claim checked just before the expiry may commit just after it.  The limiter is
a step that refuses (`FailClaim`), like a failing database.

`DesktopAgent` is `DesktopAgentManager` with its profile file.  `operation` is the
head of the promise chain of `serialize` and what it awaits: the API
(`beginning`, `claiming`), the disk (`saving`) or the runtime (`starting`,
`stopping`).  Operations that await nothing that matters are one step.  `waiting`
is `this.pairing`; `lapsed` says its expiry by the computer's clock, which need
not agree with the API's.  `generation` abstracts `runtimeGeneration`, which is
only compared for equality: it is the client whose reports are current.
`Restart` loses everything but the file, at any moment.  What the properties tell
apart of the profile is the agent, its owner and which agent's prefix the
repository's key carries; tools, login and readiness leave all of it alone.

### LocalSessions

The session runner without the API: `file` is what the state file says, `persisted`
and `active` what `SessionRegistry` has in memory, `saving` the registry operation
that awaits the store.  A failed save is rolled back in memory to what the operation
began with, as in the code, not to what the file says.  `worktree`, `previews` and
`tunnel` are what exists on the computer, whoever knows of it: they survive `Crash`.
`queue[s]` is the chain of promises of a session, `flow` how far the operation at its
head has come, and the recovery is a flow of its own that takes no lock.  A preview
is numbered as started, so that one that nobody knows of can be told from its
successor.  The properties leave out, by `told[s].early`, sessions a command reached
while the recovery was still under way: the code accepts commands from the
registration on, and such a close succeeds on a workspace that the recovery then
rebuilds.  `docs/architecture/pairdock-mvp/architecture.md:45` has the agent validate a recovered
session "before exposing [it] to prompts", and `:47` a successful clean-up remove its
record; with such a command neither is so.
Containers of previews that no record names are removed by the orphan reconciler at
the next start, those of the host are not.  `lost` counts what nobody can know of any
more, which the properties leave out: what no record named when the process died; what
the file stopped naming because a command handled before it was read made a save, which
replaces the whole file; and a preview or a worktree whose removal failed while no
record named it.

### Starts, projects and sign-in

`SessionStart` is `SessionStartPolicy`, `createSession` and the listing that offers
a shared project, with an agent that may be replaced by another of the same project
key at every await.  `ProjectSetup` has two developers with one installation: each
request reads, awaits GitHub and writes; the rows' unique indexes decide, and the
request that loses takes the path the code has for it.  In `SignIn` the tabs of one
browser share two state cookies, which the last tab to start overwrites, and an account
with its identities, which is read and merged.

### Attachments, pull requests

`PreviewComparisons` goes through validation with its two decoders, storage file by
file, the transaction and the compensation; a storage may have stored what it
reported as failed, and a commit's answer may be lost.  `PullRequestStatus` has the
pull requests of one branch on GitHub's side and the rows of the API; a delivery is a
record of the pull request at a second, with the repository's name and the App's
installation at that time (`origin`), and may be handled any number of times.  A row is
found by what its project has recorded (`Ours`).  After the repository was renamed, or
the App removed and installed again, deliveries are handled and change no row
(`review-requests.repository.ts:57-66`), and what the row shows stays as it was:
`StatusIsCurrent` speaks of a project whose records are still so.

### The web application

`BrowserSession` abstracts every record of a session to the set of changes it was
read with.  `Conversation` takes two reads of the append-only entries, at any two
moments, and makes the rows.  `PreviewSelection` is both ends of the messages between
page and preview, with the documents that load in between.  `ReviewComposer`,
`ProjectForm` and `DeveloperProjects` are the handlers of three views with the queries
and mutations under way: a request is read by the API at one moment and answered at
another, and React Query keeps what was answered last.

### A turn

`PromptTurn` has two turns of one session, which take no lock: the process, its
streams (`process`, `queue`, `end`), the session's one temporary directory and the
screenshots.  Removing these may fail, as when a download that goes on writes into the
directory: at the start of a turn it ends the turn, at its end it is only logged
(`prompt-runner.ts:187-193`), and the files stay (`shots = "left"`) until a later removal
succeeds.

`WorktreeChanges` has the files as numbers and what is concluded from hashes of them; a
push stages and commits at any moment.  git writes unusual names in quotes in the status
that `DiffService` parses (`git/diff.service.ts:89`, `:115`), so that the hash of such a
file is always the one of a missing file, and a turn that edits it a second time is
reported to have changed nothing.  The run `quoted_names` shows it.  `UnchangedStep`,
`CheckedStep` and the theorems are of worktrees that may have such files, and speak of the others.

`HostChecks` follows the shell, its children, their pipes and their signals; a child may
leave the group.

### Previews

`PreviewProcess` gives process groups numbers that the system uses again and ports
that others may take.  Three answers of the code are wrong at times, and the properties
say so.  When `ps` cannot be run, a live preview counts as somebody else's, and a stop
leaves it running (`PsFails`); a container whose stop failed goes on too.  Such groups
are `left`, which `StoppedIsGone` excepts.  A process that a signal ended has no exit
code, and the code looks at nothing else (`host-preview-runtime.adapter.ts:157`, `:170`),
so such a preview may become ready when something else answers at its address:
`ReadyStep` excepts it.  `PreviewTunnel` has the container, the docker client that runs
it, and the proxy before it; `PreviewProxy` one connection with one page after the
other.  A preview that is lost while its page is held back is
answered with 502, and nothing of the page is sent.

`DependencyCache` is two runtimes over the same volumes.  The removal of a mountpoint may
fail, without a word, and the directory stays (`"left"`); a failed listing of the volumes
rejects the whole prewarm (`SweepFails`), and with it the start of the runtime.  A
volume that another runtime refreshes, or failed to refresh half-way, is
mounted all the same, and `MountedVolumesFit` accepts it.  The docker
commands have no time limit (`docker-dependency-prewarmer.ts:440-446`), so nothing
is said of a prewarm's end; a crash in the middle of one is not modelled.

`PreviewCompanion` is a preview that is itself a PairDock backend with an agent of its own.

### Settings and the desktop application

`AgentSettings` enumerates what the configuration file and the manifest may say of
what matters to a start, and changes file, manifest and machine at any time.
`DesktopApplication` has the manager's operations in their order with the folder that
changes under them.  `normalizeAgentConfig` refuses more than the manifest's schema does
(`agent-config.ts:383-392`, `:536-539`, `:559-567`, `:601-630`): a blank preparation, and an
address with credentials, which also stands for a port of the container left to the
template.  A saved project is therefore refused once its file says so, and
`SavedProjectsCanBeBuilt` is that nothing else comes between the form and the file; `DesktopWindow` the reads of the window, of which one that was
replaced still publishes; `CodexCommands` a launcher and the native program it starts.

## Runs

A property of these runs is a conjunction of named parts, one for each component, so
that a reader finds what is asked of a component in one place; each part is a
definition of the component's module, with its own comment.

| Run | Checks | Question |
|---|---|---|
| `parts` | the properties of the next table, `GatewayIsSound`, `AcceptsFromConnectedAgent`, `WhatWasToldStands` | What does each of the components keep, over all interleavings of its own? |
| `parts_liveness` | `PreviewsArrive`, `WorkEnds` | Does everything that waits end: health checks, tunnels, held pages, closing proxies, companions, handshakes; turns, commands, readiness checks, Codex, a quit that finds no agent, actions of the window? |
| `local_sessions` | `SessionsAreAccountedFor`, `NothingIsForgotten`, `LockedWorkEnds` | A session prepared, closed, stopped and recovered twice, with a fault at any step |
| `progress` | `RunningEnds`, `PullRequestIsValidated` | Two prompts that cancel each other's harness, a repair, and a crash: does the session always get out of running?  One prompt and a review request, with an unacknowledged event and a dropped connection: is what is opened what was validated? |
| `recovery` | `WorkspaceIsAsShown`, `QueueAdvances` | Two crashes, or a crash and a lost connection, around a preparation, a prompt and a close: does READY have an active workspace while nothing was asked of it, did a close that succeeded before any crash leave none, and does the queue for the lock move? |
| `desktop` | `IdentityIsTheApprovers`, `ConfigurationIsSound`, `PairingsEnd` | Two pairings, two claims and two developers, lost answers, failed saves, restarts, two runtimes that fail and report late: who ends up with which credential, and does polling end? |

| Property of `parts` | Of | Parts |
|---|---|---|
| `GatewayIsSound` | `AgentGateway` | `RegistryConsistent`, `ExclusiveKeys`, `StaticAgentsAreLive`, `CommandsReachTheirAgent` |
| `RowsSurviveInterleaving` | `SessionRow` | `ClosedIsStamped`, `ReviewNeedsPassedRun` |
| `StartsMatchThePolicy` | `SessionStart` | `OffersAreHonoured`, `MembersAreTheProjects`, `UnpreparedWasOffline`, `PmStartsAreVouched` |
| `ProjectWritesSurvive` | `ProjectSetup` | `ConnectionsAreTheOwners`, `SharesLast`, `ChoicesSurviveEdits` |
| `SignInsLoseNobody` | `SignIn` | `LastTabIsLetIn`, `ReturnsWhereItStarted`, `OnlyRacesFail` |
| `UploadsAreAllOrNothing` | `PreviewComparisons` | `CapturesAreWithinLimits`, `DecodersComeBack`, `AttachmentsAreWhole` |
| `PageMissesNothing` | `BrowserSession` | `QuietPagesAreCurrent`, `AcknowledgedStays` |
| `PullRequestsAreFollowed` | `PullRequestStatus` | `StatusIsCurrent`, `PublishedScreenshotsStay` |
| `ChoicesStayConsistent` | `ProjectForm` | `SubmissionIsOneOffer`, `ChoicesAreOnTheList` |
| `ComposerKeepsTheUsersWork` | `ReviewComposer` | `CapturesGoWhereMeant`, `SubmissionsAreAlone` |
| `SecretsStayLocal` | `WorktreeChanges` | `SecretsStayLocal` |
| `ConversationIsWhole` | `Conversation` | `NothingIsLost`, `RowsAreWhole` |
| `SettingsAgreeWithTheMachine` | `AgentSettings` | `ReportsAreTrue`, `AddressesAreReachable`, `PreparationsAreContained`, `ModelsHaveTheirClient` |
| `ProcessesAreThePreviews` | `PreviewProcess` | `StrangersAreSpared`, `StoppedIsGone` |
| `TunnelsAreAccountedFor` | `PreviewTunnel` | `TunnelsHaveTheirProxy`, `NothingIsLeftRunning` |
| `PagesPassWhole` | `PreviewProxy` | `HeadersAreWrittenOnce`, `PagesArriveWhole` |
| `VolumesFitTheirSessions` | `DependencyCache` | `MountedVolumesFit`, `MountedVolumesAreOwned`, `RepositoryIsLeftClean` |
| `TurnsAreKeptApart` | `PromptTurn` | `RunsAreAlone`, `RunsAreReadWhole`, `ScreenshotsAreRemoved` |
| `SelectionFollowsThePage` | `PreviewSelection` | `ModesAgree`, `SelectionsAreOfThePage` |
| `CompanionsFollowTheirPreview` | `PreviewCompanion` | `InnerEndsWithOuter`, `NoCompanionWithoutPreview` |
| `NewestResultIsShown` | `DeveloperProjects` | `ResultsStay`, `CreatedIsNotOfferedAgain` |
| `CommandsAreContained` | `CodexCommands` | `NothingOutlivesItsCommand`, `CatalogIsWhole` |
| `SavedProjectsStayReady` | `DesktopApplication` | `SavedProjectsCanBeBuilt`, `DockerWarningIsTrue`, `ReadinessIsOfTheProject` |
| `ChecksReportWhatRan` | `HostChecks` | `TimedOutGroupIsGone`, `OutputIsWhole`, `PassesAreOfTheLastRun` |
| `WindowFollowsTheManager` | `DesktopWindow` | `ActionsAreShown`, `FailuresAreOfTheLastCheck` |
| `WhatWasToldStands` | seven of them | the steps: a closed row does not resume work, installations and edits are kept, unchanged turns changed nothing and checks are of the files (but for quoted names), a ready preview runs or was ended by a signal, the window never goes back |

These end with a violation, each a disagreement between the code and what the
repository says of it (`findings` in `PROJECT.json` quotes the lines):

| Run | Violated | What happens |
|---|---|---|
| `closed_reopens` | `ClosedStaysClosed` | The developer closes; an event that was read before is committed afterwards, with the status it leads to and no closing date.  A failure may leave CLOSED, as the document has it (`* -> FAILED`); nothing else may |
| `review_races_prompt` | `PullRequestIsValidated` | The policy approves; a second prompt, accepted because the row still says AWAITING_PM_VALIDATION, changes the worktree; the push commits it |
| `push_swallowed` | `PushedBeforeReview` | A push fails, the error becomes an event, the command is answered as handled, and a pull request is opened for what an earlier review pushed |
| `unvalidated_resumes` | `AwaitingIsValidated` | A turn passes; a second changes files and breaks; a third changes nothing and resumes AWAITING_PM_VALIDATION, by the run of the first |
| `quoted_names` | `UnchangedIsFound` | Two turns change the same file, whose name git quotes; the second is reported to have changed nothing, and the outcome of the first's validation is kept |
| `zombie_registration` | `RegisteredAgentsAreLive` | A paired agent's socket closes while its credential is checked; the registration that follows is never removed, and the agent cannot register again |

`PullRequestIsValidated` is therefore a property of sessions whose members send
one prompt at a time around a review: `progress` has one prompt there,
and checks it against lost events and lost connections.  `CleanClose`
excludes agents that have crashed: commands are handled from the registration
on, so a close that arrives before `restore()` has loaded the registry finds
nothing, reports `cleaned`, and the restore then revives the workspace of a
CLOSED session.  An agent that reconnects before its old socket is seen closed is
refused by `register` and does not try again on that connection.

### Bounds

The state is finite but for counters, each with a bound in a guard:
`MaxDrafts` (contents the harness may produce; two are enough for "checked one,
pushed another"), `MaxRepairs` (2 in the code; one shows the repair loop going
round and ending), `MaxTimeouts`, `MaxCrashes`, `MaxDrops` (one of each meets
every place of every flow; `recovery` has two faults, crashes or a lost connection,
by `MaxFaults`, so that one during the recovery from the other is covered).  `Slots` is the number of events of one flow the API can
be applying at a time: one under way and, after a timeout, the next.
`progress` takes two cases in one, by `ReviewOrRace`: two prompts, repairs and a crash, or
a prompt, a review request and lost events; what it leaves out of both is their mixture.
Two handlers are enough for a lost update in `SessionRow`, and the theorems hold
for any number.  Two sockets are enough for an old and a new connection, or for
two agents at a time.

`parts` and `parts_liveness` check components that share no state.  A behaviour is of
one `part`, chosen by its initial state; the variables `v1` to `v13` are that part's,
and the others leave them alone, so the state spaces add up.  Where an instance takes
less than the module allows, the constraint or definition says so: `RowBound` (two
handlers take the events that differ in what they do to a row), `ChangesBound` (of two
files, either the sensitive one is touched or the other takes a third content; the one
with a quoted name changes while the sensitive one does not and nothing is pushed), the
window opens during a pairing.  Two tabs, uploads, requests, captures, sessions or
prompts race; one repetition (`MaxRepairs`, `MaxLosses`, `MaxRestarts`, `MaxReports`,
...) is enough to come back to every place once.  `parts_liveness` is smaller, with one toggle, one load, one command to check, no manifest and no messages: what
must end ends in the phases themselves, and safety is what needed the variety.
`local_sessions` has one session previewed on the host, two starts of the agent, a
close and a fault at any step.

Two pairings with a claim each are a computer that is paired again, and two
claims of one pairing a retry of a claim that is still under way.

### Assumptions

* An agent process takes longer to come back than the API to settle the events
  of the connection that died (`Restart`).
* The continuation of an acknowledged event runs before the next packet is
  handled (`Enqueue`): acknowledgements and commands share a socket.
* The database does not fail between a handler's steps, except where
  `MarkConnected` says so.
* A graceful stop of the agent, `agent.cancel` and readiness checks are left out
  of `SessionLifecycle`; `LocalSessions`, `PromptTurn` and `AgentSettings` have them.
* A harness's or a Codex command's own processes end with it (`PromptTurn`); a check's
  child that left the group and holds its pipes is modelled, and excepted by name from
  `ValidationEnds`.
* A sign-in, a start or an edit that fails in the database has written nothing.

### Fairness

`FairSpec` asks that handlers which have begun go on, in the API and the agent,
that a harness run ends, and that an agent that stopped is started again.
Node's event loop justifies the first, Codex's own exit (or `agent.cancel`) the
second, and the third is the user's: without it nothing ends a session shown as
running.  Nobody is obliged to send a request, and no fault has to happen;
`RunningEnds` does not hold with lost events (an event the API never hears of is
not sent again), and says so.
`QueueAdvances` needs less, `LockSpec`: only that what waits for the session's lock
or has it goes on, with its events.

`LocalSessions` asks that flows and saves under way go on: they await git, Docker and
the file system, each of which answers or fails.  The fairness of the parts is at each
module's `Fairness`, by the same two rules: code that awaits something goes on once it
is answered, and what has a time limit in the code comes to it.  Never asked are an
answer of the network, an exit of a process that need not exit, a click.  Where an
answer may never come, the timer's step is what is fair (`PreviewProcess` the deadline
of the wait, `PreviewProxy` the timer of a held page, `DeveloperProjects` that of the
readiness request, `CodexCommands` and `HostChecks` the kill after the grace period).
`DesktopApplication` does not assume that a login ends, which a quit aborts, nor a start,
whose prewarm has no limit, nor the stop of a running agent (`Unlimited`): `QuitEnds` is of a quit
that finds no agent running and no start before it.  `DependencyCache` assumes nothing.
`PreviewSelection` assumes that a window gets the messages sent to it.

For `PairingsEnd`, requests are abandoned after 15 seconds, a save ends, the
computer's clock runs and the expired pairing is polled for once more.  The last
is the renderer's two-second refresh of its snapshot, which the queue serves in
turn; it runs while the window is shown.  Nothing is asked of the API, which may
never answer.

## Proofs

`SessionRow_proofs` proves, for every set of handlers and of events, `TypeOK`,
`ClosedIsStamped`, `ReviewNeedsPassedRun` (through `ApprovalsAreJustified`: every
handler past the policy has seen a passed run, and runs are never deleted) and
`ClosedNeverResumesWork`.  `ClosedIsStamped` includes the snapshots because a
handler writes back the date it read: the row alone is not inductive.  The only
assumption is that the events are events of the protocol.

`AgentGateway_proofs` proves `Spec => []Inv` for any agents, sockets, keys and
commands, from three assumptions of the module: paired agents are agents, a key
is covered by one credential, and `None` is neither.  `Inv` is the type
invariant, `RegistryConsistent`, `ExclusiveKeys`, and what makes them inductive:
`IdentityKept` (a registered socket is registered under the identity of its
handshake, and what it waits to announce is covered by its credential),
`StaticKept` (a static agent's registration never waits, so no disconnection can
come between) and `CommandsKept` (the socket a command found speaks for the
key's agent, whatever the registry says by now).  `StaticAgentsAreLive`,
`CommandsReachTheirAgent`, together `GatewayIsSound`, and `AcceptsFromConnectedAgent`
follow.

`DesktopAgent_proofs` proves, of the protocol `AgentPairing` alone, `OneAgentPerPairing`
and `AgentsBelongToApprovers` from the invariant `PairingInv`: what a claim in progress has read is still true
when it commits (an owner is never replaced, so `ClaimsAreSound`), paired claims
have different pairings (`PairedOnce`: the update's condition), and a claimed
pairing has one (`ClaimedByOne`: update and insertion commit together).
It then shows that each step of the desktop is a step of
`PairingNext` or none, so `Spec => PairingSpec` and the protocol's invariant
holds of the desktop; then, with `ProfilesArePaired` (what is saved or being saved
is a paired claim's, and paired claims do not change) and `OperationsExclude`
(which operations exclude a runtime, and that without one no report is current),
it proves every safety invariant of the `desktop` run: `IdentityIsTheApprovers` and
`ConfigurationIsSound`.

`SessionLifecycle` changes the rows with `SessionRow`'s actions, one handler per request
and two per flow of the agent, so the lemma `Implementation` (`Spec => RowsSpec`) says nothing
of the code: it carries what `SessionRow_proofs` proves over to the rows of the lifecycle,
and `Typing` rests on it.  The only assumption beyond the bounds is `DistinctNames`: prompts, closes,
reviews, the two flows of the agent and `None` are different things.  Three invariants carry
the rest:

* `PrepareGoesFirst`, for `CleanClose` (`ClosesAreClean`).  A clean-up that has succeeded
  could be followed by a preparation that makes a workspace.  It is not, because until the
  first event of the preparation is settled nothing else can have reached the agent (the
  row is CREATED, or CLOSED by a request that had nobody to tell: `Untouched`), and when it
  is settled the preparation is the first in line for the session's lock, so that every
  clean-up comes after it (`FirstInLine`, `CleanedAfter`).  It holds of an agent that has not crashed.
* `RowFollowsWorkspace`, for `ReadyHasWorkspace` (`ReadyIsActive`).  While nobody has
  asked for anything, the events of one flow at a time write the row, of the preparation until a
  process has died and of the recovery afterwards, each with one event in flight
  (`Alone`, `OneInFlight`, `OneAfterTheOther`); `Followed` says for each place of that flow
  what the row and the event in flight may say of the workspace.  The attempt showed that
  the property is of sessions none of whose acknowledgements was given up: after a timeout the
  preparation goes on, and fails, while its first events may still be applied, so the
  property says so (`faults.timeouts = 0`).

* `PushesAreValidated`, for `PullRequestIsValidated` (`PullRequestsAreValidated`).  A push
  takes the draft the worktree holds, not the one the policy looked at.  They are the same
  because a review is approved only when the latest run of the row passed, the event that
  says so is emitted once the checks are over (`PassedIsOfContent`: while it is
  in flight, the worktree holds what that turn checked), and from then on nobody is left who writes: the
  turn was the only prompt's, and a prompt has one turn (`PromptsComeOnce`).

`ShowsTheWorkspace` puts the first two together: `WorkspaceIsAsShown`, which the run `recovery`
checks, for any prompts, closes, reviews and bounds.  `PullRequestsAreValidated` is for any
closes, reviews and bounds and one prompt at most: with two the property is false, and
the run `review_races_prompt` shows it.

`LocalSessions_proofs` proves `SessionsAreAccountedFor` (`SessionsAccounted`) and
`NothingIsForgotten` (`NothingForgotten`) for any sessions, on the host or in containers, and
any number of starts, closes and faults.  The assumptions are the module's: the names
differ and the bounds are numbers.  Two invariants carry them:

* `SessionInv`.  `Domains` has the types, `ProcessesRun` that without a process nothing is under
  way, `QueuesFit` that the head of a session's queue is the operation that holds its lock and
  that its one preparation comes first, `SavesFit` that a save under way has a flow waiting for
  it, `RecordsAgree` that memory and file differ by that save only.  The heart is
  `OperationsAreSound`: of a session that heard nothing while the agent recovered, one
  operation is under way, the lock's or the recovery's, and `Sound` says for each place of
  it what there is of the session and which record names it; while a save is under way it
  says so of both places the save may lead to.  `PreviewsAreKnown` alone is not inductive:
  that a preview is named says nothing of what will name it once the operation has ended.
* `StopInv`, with `SessionInv`.  While nothing failed, what an operation at a place holds is what
  its workspace names (`Tidy`, from `Covered`), and after the agent was told to stop, a session that is
  not shut down is held by an operation that will leave nothing (`Fading`): it removes what
  there is, or it is a preparation that has recorded nothing and will not be heard.
  That a record goes only after its worktree (`RecordStep`) needs `SessionInv` alone: what
  takes a record away is an `unregister`, and it comes after the removal.

The attempt showed that the first property, as it stood, was false of two sessions: a
command for one, handled before the state file is read, makes a save that drops the
other's record from the file while its preview runs.  It was false after a fault as
well: what can be neither recorded nor removed stays.  `lost` has both since.

`MCParts_proofs`, `MCWebParts_proofs` and `MCAgentParts_proofs` prove properties of the
run `parts` as they stand there.  A behaviour of `PartsSpec` is of one part for ever (`PartStays`), so a property
of one part follows from an inductive invariant of that part's module; its strengthening
is in the module, under "What the proofs rest on", and TLC checked each before it was proved.

| Property | Theorem | What its invariant adds | Hypotheses |
|---|---|---|---|
| `RowsSurviveInterleaving` | `RowsSurvive` | the theorems of `SessionRow_proofs` | |
| `SecretsStayLocal` | `SecretsStay` | between the look at the index and the commit, the index is the one that was looked at | the sensitive files are files |
| `StartsMatchThePolicy` | `StartsMatch` | whom a start has read belongs to its session; whoever met no connected agent was noted; a readiness good for a PM was vouched for | the PM is not the owner |
| `ProjectWritesSurvive` | `WritesSurvive` | from when a request is connected it has its developer's connection, and makes one project at most | `None` is nobody |
| `PageMissesNothing` | `PageIsCurrent` | in a joined page an announced change is shown, is being read, or its read has failed | the messages are a query |
| `SettingsAgreeWithTheMachine` | `SettingsAgree` | a report is of the settings the agent runs with | |
| `ComposerKeepsTheUsersWork` | `WorkIsKept` | a list is never older than the one before it, and what is picked or imported is there | `"new"` is no comparison |
| `UploadsAreAllOrNothing` | `UploadsAreWhole` | per stage of an upload, which of its files and rows there are | finitely many uploads; captures are not prompts |
| `SignInsLoseNobody` | `NobodyIsLost` | a tab on its way has a token of its own, still in its cookie if it is the last; what a tab that nobody overtook has read of the account is still so | |
| `PullRequestsAreFollowed` | `PullRequestsAreCurrent` | while name and installation are the project's, one of the last deliveries of a pull request shows it as it is, and a row shows the latest of those handled since it was written | |
| `NewestResultIsShown` | `NewestResultStays` | no answer on its way is older than what was told, unless it is of an update; a project just created is checked only where it is listed | `None` is no list |
| `ChoicesStayConsistent` | `ChoicesAreConsistent` | the choices keep their shape; that a choice is of one offer follows from how each list is made of the others | lists are finite, and an agent's models have different ids |
| `SelectionFollowsThePage` | `SelectionFollows` | nonces grow along both queues; the last mode on its way to the preview is the page's, and once it is there the two differ only by an answer on its way back | |
| `TunnelsAreAccountedFor` | `TunnelsAccounted` | until the agent restarts, a container nobody told to stop is the last run's and has its client | |
| `PagesPassWhole` | `PagesPass` | what the response has been given is where the page has come to | |
| `VolumesFitTheirSessions` | `VolumesFit` | a volume a runtime names was filled by it and taken away by nobody | versions are numbers |
| `ProcessesAreThePreviews` | `SignalsAreOwn` | a leader that no failed stop left is the process its session's reference names, with its token | strangers are no session |
| `CompanionsFollowTheirPreview` | `CompanionsFollow` | a runtime is being started in one place, and none is left once its session is forgotten | |
| `TurnsAreKeptApart` | `TurnsApart` | everything pushed is in the queue or was taken; a closed run's last event is its end; a directory has a turn that will try to remove it, or is one whose removal failed | |
| `CommandsAreContained` | `CommandsContained` | output is read to its end, which kills the group; no cursor is asked for twice | a cursor is not `"first"` |
| `ChecksReportWhatRan` | `ChecksReport` | one command runs at a time, and what may become of one that was started | there is a list of checks |
| `SavedProjectsStayReady` | `SavedProjectsAreReady` | the need for Docker is of the folder as it was when it was computed | |
| `WindowFollowsTheManager` | `WindowFollows` | answers arrive in the order of the manager's states, one per call, and the read that settles an action tells of nothing older than its effect | readers are not the window's other calls |
| `WhatWasToldStands` | `ToldStands` | the invariants of its parts; a fingerprint tells the files it was taken of as long as the branch is not committed to | those of its parts |

Where the table says no more, the hypotheses are that `None` is none of the values it
stands beside; each is true of the instance that is checked.

Two attempts changed what is stated.  `ModelsHaveTheirClient` was not true after more
edits than the run had: a project without a path, of an agent whose own Codex is newer
than the one on the `PATH`, keeps the older command, because
`applyCodexCommandToProjects` is for the projects that have one; the property is of those,
and the run `parts` covers them.  In `ReviewComposer` the list of comparisons with the
picked one in front is `Fronted`, a function the provers can reason about.

Only model-checked:

* `ConversationIsWhole`: `Conversation` is folds over sequences, and what a fold computes
  needs induction over data, which is out of this prover's reach.
* Liveness (`PreviewsArrive`, `WorkEnds`, `LockedWorkEnds`,
  `RunningEnds`, `QueueAdvances`, `PairingsEnd`): the prover has neither `ENABLED` nor fairness.

## Not modelled

Parsing, validation of shapes, wording and logging everywhere.  Access rules, except
where one decides a race.  Docker, cloudflared, Codex, git's remote and GitHub
themselves: they are steps that succeed, fail, or do something the adapters must cope
with.  Listings that only read, beyond what the forms make of them.  The rows of agent
events that nothing reads back.  Menus, focus, layout and markup of the views; the
update of the desktop application; the prototype, the demo data and the packaging
script.  The counters of the pairing limiter (a step refuses); `disconnectedAt` of a
registration, which nothing reads.

Where the code does what no document forbids, no property
is stated: a command handled before the agent has read its state file makes a save that
overwrites the records of the other sessions; a selection that arrives between the submission of a prompt and the next
rendering is cleared unsent; a subscription that is refused is answered to nobody; a
capture of the state after a change is refused once the preview's origin has changed
and its comparison stays half; a submission that finishes closes a dialog opened
since; the answer of an update may carry an older readiness (`mixed`); a readiness
probe that timed out leaves its process running; a command that timed out and exits
with 0 when it is terminated counts as passed; an agent whose claim was committed but
whose answer was lost stays listed, without a device, until it is revoked.

## Plan

`LocalSessions` implements the `workspace` of `SessionLifecycle`: the refinement
mapping from worktree, preview, tunnel and record to active, stored and none.
