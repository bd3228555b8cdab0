------------------------------- MODULE MCParts -------------------------------
(***************************************************************************)
(* Parts of the API, of the web application and of the agent that share no *)
(* state with one another: a behaviour is of one part, chosen at the       *)
(* start, so that the state spaces add up instead of multiplying.  The     *)
(* gateway has its variables; every other part takes v1, v2, ... for its   *)
(* own, in the order it declares them, and leaves the rest alone.  The     *)
(* sockets, handlers, tabs, requests and captures of different parts bear  *)
(* the same names, so that one symmetry serves them all.                   *)
(***************************************************************************)
EXTENDS MCAgentGateway

CONSTANTS
  Handler, Starts, Owner, Pm, Stranger, Repos, Repo, Models, Developers, Creations, Shares, CreatedModel,
  Tabs, Pages, MaxStates, Captures, Prompts, Images, MaxComparisons, MaxCaptures, MaxDecoders, MaxFaults,
  Queries, Messages, Reports, Others, MaxNotices, MaxMounts, Requests, MaxSeconds, MaxChanges, MaxLosses,
  Setups, Handoffs, Comparisons, MaxPosts, Paths, Quoted, Sensitive, MaxContent, MaxRepairs, Texts,
  MaxEntries, MaxTime, MaxEdits, Sessions, Docker, Pids, Ports, Other, MaxStarts, MaxRestarts, MaxOpens,
  MaxBytes, MaxChunks, MaxRequests, CacheRuntimes, LockVersions, MaxMessages, Elements, Limit, MaxHandshakes,
  MaxConnects, MaxToggles, MaxLoads, Unread, MaxReports, Cursors, MaxPages, FolderManifests, Labels,
  MaxChildren, LinkedRepositories, Readers, Older, Newer

VARIABLES
  part,  \* the part this behaviour is of
  v1, v2, v3, v4, v5, v6, v7, v8, v9, v10, v11, v12, v13

all == <<part, vars, v1, v2, v3, v4, v5, v6, v7, v8, v9, v10, v11, v12, v13>>

Rows ==
  INSTANCE SessionRow WITH
    row <- v1, latestRun <- v2, runs <- v3, reviewRequest <- v4, tx <- v5
Start ==
  INSTANCE SessionStart WITH
    published <- v1, default <- v2, allows <- v3, shared <- v4, readiness <- v5, asked <- v6, vouched <- v7,
    start <- v8, session <- v9, prepared <- v10, away <- v11, earlier <- v12
Setup ==
  INSTANCE ProjectSetup WITH
    snapshot <- v1, connection <- v2, creation <- v3, project <- v4, sharing <- v5, accounts <- v6,
    members <- v7, editing <- v8, chosen <- v9
Entry ==
  INSTANCE SignIn WITH
    tab <- v1, remembered <- v2, cookie <- v3, issued <- v4, latest <- v5, lapsed <- v6, installed <- v7,
    account <- v8, identities <- v9, raced <- v10
Evidence ==
  INSTANCE PreviewComparisons WITH
    promptable <- v1, captures <- v2, upload <- v3, decoders <- v4, objects <- v5, rows <- v6, mishaps <- v7,
    failures <- v8
Page ==
  INSTANCE BrowserSession WITH
    record <- v1, due <- v2, announced <- v3, mounted <- v4, mounts <- v5, socket <- v6, notices <- v7,
    read <- v8, cached <- v9, failed <- v10, prompt <- v11
Pulls ==
  INSTANCE PullRequestStatus WITH
    reviewable <- v1, request <- v2, shown <- v3, second <- v4, pulls <- v5, origin <- v6, deliveries <- v7,
    reviews <- v8, unanswered <- v9, changes <- v10, losses <- v11
Form ==
  INSTANCE ProjectForm WITH
    setup <- v1, handoff <- v2, chosenEdits <- v3, refreshed <- v4, submission <- v5
Composer ==
  INSTANCE ReviewComposer WITH
    stored <- v1, listed <- v2, listing <- v3, activity <- v4, picked <- v5, chooser <- v6, importing <- v7,
    attaching <- v8, dialog <- v9, posts <- v10, observed <- v11, posted <- v12, overtaken <- v13
Changes ==
  INSTANCE WorktreeChanges WITH
    content <- v1, committed <- v2, staged <- v3, pushing <- v4, turnAt <- v5, fixes <- v6, initial <- v7,
    beforeFix <- v8, validated <- v9, reported <- v10, shownDiff <- v11, disturbed <- v12
Thread ==
  INSTANCE Conversation WITH
    entries <- v1, messagesRead <- v2, eventsRead <- v3
Settings ==
  INSTANCE AgentSettings WITH
    file <- v1, manifest <- v2, machine <- v3, catalog <- v4, running <- v5, report <- v6, fresh <- v7,
    edits <- v8
Process ==
  INSTANCE PreviewProcess WITH
    group <- v1, port <- v2, ref <- v3, step <- v4, starts <- v5, harmed <- v6, restarts <- v7
Tunnel ==
  INSTANCE PreviewTunnel WITH
    box <- v1, client <- v2, run <- v3, phase <- v4, attempt <- v5, printed <- v6, proxy <- v7, known <- v8,
    threw <- v9, opens <- v10, crashes <- v11
Proxy ==
  INSTANCE PreviewProxy WITH
    server <- v1, connection <- v2, response <- v3, sent <- v4, chunks <- v5, delivered <- v6, heads <- v7,
    script <- v8, timer <- v9, requests <- v10
Dependencies ==
  INSTANCE DependencyCache WITH
    repo <- v1, volume <- v2, fill <- v3, prewarm <- v4, key <- v5, cache <- v6, mountpoint <- v7,
    directory <- v8, edited <- v9, overtaken <- v10
Turn ==
  INSTANCE PromptTurn WITH
    Prompts <- TwoSockets, stage <- v1, repairs <- v2, active <- v3, process <- v4, killed <- v5,
    message <- v6, queue <- v7, pushed <- v8, taken <- v9, end <- v10, temporary <- v11, shots <- v12,
    late <- v13
Selection ==
  INSTANCE PreviewSelection WITH
    document <- v1, loading <- v2, picker <- v3, attached <- v4, bridge <- v5, attempts <- v6,
    retryTimer <- v7, toPreview <- v8, toPage <- v9, selections <- v10, sending <- v11, foreign <- v12,
    toggles <- v13
Companion ==
  INSTANCE PreviewCompanion WITH
    MaxFaults <- 3, outer <- v1, purpose <- v2, pending <- v3, runtime <- v4, joining <- v5, admitted <- v6,
    inner <- v7, tokens <- v8, faults <- v9, missed <- v10
Projects ==
  INSTANCE DeveloperProjects WITH
    Existing <- Older, Second <- Newer, MaxEdits <- 1, Handled <- {Older}, exists <- v1, readiness <- v2,
    metadata <- v3, shownList <- v4, listRead <- v5, check <- v6, update <- v7, creation <- v8,
    dismissed <- v9, told <- v10, mixed <- v11
Codex ==
  INSTANCE CodexCommands WITH
    codex <- v1, reading <- v2, ending <- v3, outcome <- v4, requestId <- v5, pageCursors <- v6,
    answers <- v7, read <- v8
Application ==
  INSTANCE DesktopApplication WITH
    application <- v1, queued <- v2, folder <- v3, backend <- v4, toolsSeen <- v5, form <- v6, saved <- v7,
    dockerRequired <- v8, checked <- v9, agentRuntime <- v10, current <- v11
Checks ==
  INSTANCE HostChecks WITH
    configured <- v1, results <- v2, at <- v3, runs <- v4, retrying <- v5
Window ==
  INSTANCE DesktopWindow WITH
    MaxChanges <- 1, manager <- v1, reads <- v2, query <- v3, replies <- v4, shown <- v5, action <- v6,
    failures <- v7, lastCheck <- v8, done <- v9

\* What the setup of a developer's projects may offer: repositories, and agents' projects.
MCSetups ==
  LET g1 == [fullName |-> "g1", branches |-> {"b1", "b2"}, default |-> "b1"]
      g2 == [fullName |-> "g2", branches |-> {"b2"}, default |-> "b1"]
      m1 == [id |-> "m1", efforts |-> {"e1", "e2"}, default |-> "e1"]
      m2 == [id |-> "m2", efforts |-> {}, default |-> None]
      p1 == [agent |-> "a1", key |-> "k1", repo |-> "g1", models |-> {"m1"}, branch |-> None, agentModels |-> {m1, m2}]
      p2 == [agent |-> "a1", key |-> "k2", repo |-> "g1", models |-> {}, branch |-> "b2", agentModels |-> {m1, m2}]
      p3 == [agent |-> "a2", key |-> "k1", repo |-> "g2", models |-> {}, branch |-> None, agentModels |-> {m2}]
      p4 == [agent |-> "a2", key |-> "k1", repo |-> "g1", models |-> {}, branch |-> None, agentModels |-> {m2}]
  IN  {[repositories |-> r, projects |-> p] : r \in {{g1}, {g1, g2}}, p \in {{p1, p2}, {p1, p2, p3}, {p1, p4}, {p3}}}

\* Bound: two of the three commands.
MCLabels == <<"build", "tests">>

\* Bound: the window opens during a pairing.
PartsInit ==
  /\ Init
  /\ \/ /\ part = "gateway"
        /\ v1 = None /\ v2 = None /\ v3 = None /\ v4 = None /\ v5 = None /\ v6 = None /\ v7 = None
        /\ v8 = None /\ v9 = None /\ v10 = None /\ v11 = None /\ v12 = None /\ v13 = None
     \/ /\ part = "rows"
        /\ Rows!Init /\ v6 = None /\ v7 = None /\ v8 = None /\ v9 = None /\ v10 = None /\ v11 = None
        /\ v12 = None /\ v13 = None
     \/ part = "start" /\ Start!Init /\ v13 = None
     \/ part = "setup" /\ Setup!Init /\ v10 = None /\ v11 = None /\ v12 = None /\ v13 = None
     \/ part = "signIn" /\ Entry!Init /\ v11 = None /\ v12 = None /\ v13 = None
     \/ /\ part = "comparisons"
        /\ Evidence!Init /\ v9 = None /\ v10 = None /\ v11 = None /\ v12 = None /\ v13 = None
     \/ part = "page" /\ Page!Init /\ v12 = None /\ v13 = None
     \/ part = "pullRequests" /\ Pulls!Init /\ v12 = None /\ v13 = None
     \/ /\ part = "form"
        /\ Form!Init /\ v6 = None /\ v7 = None /\ v8 = None /\ v9 = None /\ v10 = None /\ v11 = None
        /\ v12 = None /\ v13 = None
     \/ part = "composer" /\ Composer!Init
     \/ part = "changes" /\ Changes!Init /\ v13 = None
     \/ /\ part = "thread"
        /\ Thread!Init /\ v4 = None /\ v5 = None /\ v6 = None /\ v7 = None /\ v8 = None /\ v9 = None
        /\ v10 = None /\ v11 = None /\ v12 = None /\ v13 = None
     \/ /\ part = "settings"
        /\ Settings!Init /\ v9 = None /\ v10 = None /\ v11 = None /\ v12 = None /\ v13 = None
     \/ part = "process" /\ Process!Init /\ v8 = None /\ v9 = None /\ v10 = None /\ v11 = None /\ v12 = None /\ v13 = None
     \/ part = "tunnel" /\ Tunnel!Init /\ v12 = None /\ v13 = None
     \/ part = "proxy" /\ Proxy!Init /\ v11 = None /\ v12 = None /\ v13 = None
     \/ part = "dependencies" /\ Dependencies!Init /\ v11 = None /\ v12 = None /\ v13 = None
     \/ part = "turn" /\ Turn!Init
     \/ part = "selection" /\ Selection!Init
     \/ part = "companion" /\ Companion!Init /\ v11 = None /\ v12 = None /\ v13 = None
     \/ part = "projects" /\ Projects!Init /\ v12 = None /\ v13 = None
     \/ part = "codex" /\ Codex!Init /\ v9 = None /\ v10 = None /\ v11 = None /\ v12 = None /\ v13 = None
     \/ part = "application" /\ Application!Init /\ v12 = None /\ v13 = None
     \/ /\ part = "checks"
        /\ Checks!Init /\ v6 = None /\ v7 = None /\ v8 = None /\ v9 = None /\ v10 = None /\ v11 = None
        /\ v12 = None /\ v13 = None
     \/ part = "window" /\ Window!Init /\ v1.needs = {"poll"} /\ v10 = None /\ v11 = None /\ v12 = None /\ v13 = None

PartsNext ==
  \/ part = "gateway" /\ Next /\ UNCHANGED <<part, v1, v2, v3, v4, v5, v6, v7, v8, v9, v10, v11, v12, v13>>
  \/ part = "rows" /\ Rows!Next /\ UNCHANGED <<part, vars, v6, v7, v8, v9, v10, v11, v12, v13>>
  \/ part = "start" /\ Start!Next /\ UNCHANGED <<part, vars, v13>>
  \/ part = "setup" /\ Setup!Next /\ UNCHANGED <<part, vars, v10, v11, v12, v13>>
  \/ part = "signIn" /\ Entry!Next /\ UNCHANGED <<part, vars, v11, v12, v13>>
  \/ part = "comparisons" /\ Evidence!Next /\ UNCHANGED <<part, vars, v9, v10, v11, v12, v13>>
  \/ part = "page" /\ Page!Next /\ UNCHANGED <<part, vars, v12, v13>>
  \/ part = "pullRequests" /\ Pulls!Next /\ UNCHANGED <<part, vars, v12, v13>>
  \/ part = "form" /\ Form!Next /\ UNCHANGED <<part, vars, v6, v7, v8, v9, v10, v11, v12, v13>>
  \/ part = "composer" /\ Composer!Next /\ UNCHANGED <<part, vars>>
  \/ part = "changes" /\ Changes!Next /\ UNCHANGED <<part, vars, v13>>
  \/ part = "thread" /\ Thread!Next /\ UNCHANGED <<part, vars, v4, v5, v6, v7, v8, v9, v10, v11, v12, v13>>
  \/ part = "settings" /\ Settings!Next /\ UNCHANGED <<part, vars, v9, v10, v11, v12, v13>>
  \/ part = "process" /\ Process!Next /\ UNCHANGED <<part, vars, v8, v9, v10, v11, v12, v13>>
  \/ part = "tunnel" /\ Tunnel!Next /\ UNCHANGED <<part, vars, v12, v13>>
  \/ part = "proxy" /\ Proxy!Next /\ UNCHANGED <<part, vars, v11, v12, v13>>
  \/ part = "dependencies" /\ Dependencies!Next /\ UNCHANGED <<part, vars, v11, v12, v13>>
  \/ part = "turn" /\ Turn!Next /\ UNCHANGED <<part, vars>>
  \/ part = "selection" /\ Selection!Next /\ UNCHANGED <<part, vars>>
  \/ part = "companion" /\ Companion!Next /\ UNCHANGED <<part, vars, v11, v12, v13>>
  \/ part = "projects" /\ Projects!Next /\ UNCHANGED <<part, vars, v12, v13>>
  \/ part = "codex" /\ Codex!Next /\ UNCHANGED <<part, vars, v9, v10, v11, v12, v13>>
  \/ part = "application" /\ Application!Next /\ UNCHANGED <<part, vars, v12, v13>>
  \/ part = "checks" /\ Checks!Next /\ UNCHANGED <<part, vars, v6, v7, v8, v9, v10, v11, v12, v13>>
  \/ part = "window" /\ Window!Next /\ UNCHANGED <<part, vars, v10, v11, v12, v13>>

PartsSpec == PartsInit /\ [][PartsNext]_all

\* Bound: the events that the handlers of the session's row are given.
RowEvents ==
  {Rows!Event("session.progress", s) : s \in {"PREVIEW_STARTING", "AGENT_RUNNING", "AWAITING_PM_VALIDATION"}}
    \cup Rows!DoneEvents \cup Rows!ChecksEvents
    \cup {Rows!Event("session.closed", "none"), Rows!Event("error", "none")}
RowBound == part = "rows" => \A h \in Handler : v5[h].event \in RowEvents

\* Bound: the secret file exists or the plain one takes its third content; the quoted one
\* changes without the secret one, and while nothing is pushed.
ChangesBound ==
  part = "changes" =>
    /\ \/ \A f \in Sensitive : v1[f] = 0 /\ v3[f] = 0 /\ v7.of[f] = 0
       \/ \A f \in Paths : MaxContent \notin {v1[f], v2[f], v3[f], v7.of[f]}
    /\ \E f \in Quoted : v1[f] # 0 \/ v2[f] # 0 \/ v3[f] # 0 \/ v7.of[f] # 0 =>
         /\ v4 = "no" /\ v2 = Changes!Clean /\ v3 = Changes!Clean
         /\ v1["secret"] = 0 /\ v7.of["secret"] = 0
-----------------------------------------------------------------------------
\* A session shown as CLOSED has a closing date, in the row and in every
\* snapshot a handler may still write back: interleaved writers never leave
\* the status of one and the date of the other.
\* A review request exists only for a session of which some validation run
\* passed, however the handlers interleave and whatever statuses the events
\* announce: the policy re-reads the run and does not trust the status.
RowsSurviveInterleaving ==
  part = "rows" =>
    /\ Rows!ClosedIsStamped
    /\ Rows!ReviewNeedsPassedRun

\* The dashboard offers a session of a shared project exactly when a request that met
\* no change on its way would pass the policy: the listing and the policy, written
\* apart, agree (ProjectsService.listSharedProjects, SessionStartPolicy).  The selection
\* of the default model, which only the request looks at, may still refuse it.
\* The people of a session are its project's: its owner, whoever started it, no product
\* manager the project was not shared with, and of a developer's session each that
\* it was shared with when the request came, whatever was shared or started since.
\* A session left without a session.prepare is one during whose request the agent
\* was away: who starts a session beside a connected agent gets it prepared.
\* A product manager's session was vouched for: an agent that published this project,
\* for its owner and with its repository, has reported that it was ready; a report
\* from another machine with the same key never opens the project.
StartsMatchThePolicy ==
  part = "start" =>
    /\ Start!OffersAreHonoured
    /\ Start!MembersAreTheProjects
    /\ Start!UnpreparedWasOffline
    /\ Start!PmStartsAreVouched

\* A project reaches GitHub through a connection of its own developer, also when
\* colleagues with the same installation create their projects at the same time.
\* A sharing that was answered has made the person a member, for good, whichever other
\* projects were shared with the same person at once; and that person has one account.
\* An edit of the name, which reads the project before it writes, never undoes
\* a choice of the default model that was saved in between.
ProjectWritesSurvive ==
  part = "setup" =>
    /\ Setup!ConnectionsAreTheOwners
    /\ Setup!SharesLast
    /\ Setup!ChoicesSurviveEdits

\* Of the tabs that sign in at once the last one to start is let through: a state is
\* turned away only when it has lapsed or a later one was issued for its cookie
\* (the callbacks of the other tabs leave the cookie alone).
\* A developer comes back to the page the sign-in was started from, whatever an
\* abandoned attempt left in the tab and through the installation of the App.
\* Signing in fails in the database only when another sign-in or an invitation wrote
\* the account in the meantime: an invited person is never locked out.
SignInsLoseNobody ==
  part = "signIn" =>
    /\ Entry!LastTabIsLetIn
    /\ Entry!ReturnsWhereItStarted
    /\ Entry!OnlyRacesFail

\* However many captures are uploaded at once, a session has no more comparisons and
\* captures than the limits (the count is taken again under the row lock), and every
\* after capture is of the page and the dimensions of its before.
\* An upload that is over holds no decoder: the two there are never run out for good.
\* Files and rows stand or fall with what refers to them: all of those of an upload that
\* was answered are there, and none of one that was refused, except for a failure the
\* clean-up itself met.
UploadsAreAllOrNothing ==
  part = "comparisons" =>
    /\ Evidence!CapturesAreWithinLimits
    /\ Evidence!DecodersComeBack
    /\ Evidence!AttachmentsAreWhole

\* A page at rest, joined, with no notice or read under way and no error, shows every event
\* the API has announced, also those from before it joined or while its socket
\* was down, and from before the first read, which may have been answered earlier.
\* A prompt whose sending was acknowledged stays in the conversation: no answer that was
\* read before it, in whatever order it comes, takes it away.
PageMissesNothing ==
  part = "page" =>
    /\ Page!QuietPagesAreCurrent
    /\ Page!AcknowledgedStays

\* A row whose pull request's last delivery has been handled since it was written
\* shows what the pull request is, in whatever order the deliveries came and however
\* often, unless two states share that second, the repository has another name or the
\* App was removed, after which no delivery finds the row any more.
\* The screenshots a pull request's description links to stay stored, also when the
\* transaction after it fails: only those of one the API never heard of are gone.
PullRequestsAreFollowed ==
  part = "pullRequests" =>
    /\ Pulls!StatusIsCurrent
    /\ Pulls!PublishedScreenshotsStay

\* What is submitted is one local project of one agent, with a model and an effort of
\* that agent and a branch of that repository, also when the setup was read again
\* between the choices: no two of the values are of different offers.
\* As long as the setup is the one the choices were made from, every choice is still in
\* its list: no order of choices leaves behind one the developer could not make again.
ChoicesStayConsistent ==
  part = "form" =>
    /\ Form!SubmissionIsOneOffer
    /\ Form!ChoicesAreOnTheList

\* The capture of a comparison that was picked goes to that comparison, whatever lists
\* arrived while its file was chosen: a list older than the comparison never hides it.
\* A submission is not made twice at a time, unless captures that became ready in between
\* made the page forget the first.
ComposerKeepsTheUsersWork ==
  part = "composer" =>
    /\ Composer!CapturesGoWhereMeant
    /\ Composer!SubmissionsAreAlone

\* What a sensitive file holds is in no commit and in no diff that leaves the computer,
\* however a push is interrupted and whatever the harness writes during one.
SecretsStayLocal == part = "changes" => Changes!SecretsStayLocal

\* Every message and every answer that was read is shown once, in its place in time; only
\* a progress that the next item repeats as the final message is left out.
\* A row speaks with one voice, two rows that follow one another do not say what one could,
\* and a step of the work stands alone only while it is the last thing the harness did.
ConversationIsWhole ==
  part = "thread" =>
    /\ Thread!NothingIsLost
    /\ Thread!RowsAreWhole

\* While the machine is as a favourable report found it, a preview of the project can
\* start with what the agent runs: Docker is there for whichever of its parts needs it.
\* An agent of a remote backend never gives a preview an address that only its own
\* computer reaches, wherever that address was written and whichever file won.
\* What prepares a preview never runs outside a container, whichever of the two files
\* and whichever of its defaults chose the runtime.
\* The models published from the cache are run by a Codex at least as new as the cache,
\* as long as Codex is what it was at the start and the project has a path and no command of
\* its own.
SettingsAgreeWithTheMachine ==
  part = "settings" =>
    /\ Settings!ReportsAreTrue
    /\ Settings!AddressesAreReachable
    /\ Settings!PreparationsAreContained
    /\ Settings!ModelsHaveTheirClient

\* A process that is not the preview's own gets a signal only if the preview's process ended
\* under this agent, or in the two seconds after SIGTERM: never because a number
\* was read from the state file (HostPreviewRuntimeAdapter.stop).
\* What a stop leaves behind has lost its leader, which hides it from a
\* restarted agent, or was left by a docker or a ps that failed.
\* The variables keep to their types.
ProcessesAreThePreviews ==
  part = "process" =>
    /\ Process!TypeOK
    /\ Process!StrangersAreSpared
    /\ Process!StoppedIsGone

\* While a tunnel is published, the proxy its container forwards to listens: a
\* proxy is closed with its own tunnel only, and the proxies are closed of those
\* that were not opened (InstrumentedPreviewTunnelAdapter).
\* An opening that failed and a close leave no tunnel that nobody told to stop,
\* although an attempt is ended by SIGTERM alone, the second attempt may find the
\* name taken and docker's outcome is ignored; a restart, which forgets the
\* clients, and a close that could not run docker do leave one.
\* The variables keep to their types.
TunnelsAreAccountedFor ==
  part = "tunnel" =>
    /\ Tunnel!TypeOK
    /\ Tunnel!TunnelsHaveTheirProxy
    /\ Tunnel!NothingIsLeftRunning

\* A page's headers are written once: writing them again, as a timer that outlives its
\* page would, throws in a callback and ends the agent (proxyRes).
\* No chunk of a page is lost, doubled or overtaken when it is let go in the middle,
\* and what a browser is told is the end of the page is the end (flushOriginal).
PagesPassWhole ==
  part = "proxy" =>
    /\ Proxy!HeadersAreWrittenOnce
    /\ Proxy!PagesArriveWhole

\* A session's container is given a volume that a prepare command has filled, from the
\* session's own lockfiles, or one that another runtime refreshes or failed to refresh:
\* unless the lockfiles changed during the prewarm, or a runtime of the same owner
\* with other lockfiles has swept it since.
\* A container writes to the volume it is given, unless it was swept: a volume that
\* Docker made and nobody gave to the agent's user is never named.
\* The repository is left without the directories a prewarm made in it, also if it
\* failed or two prewarms met, unless their removal itself failed.
\* The variables keep to their types.
VolumesFitTheirSessions ==
  part = "dependencies" =>
    /\ Dependencies!TypeOK
    /\ Dependencies!MountedVolumesFit
    /\ Dependencies!MountedVolumesAreOwned
    /\ Dependencies!RepositoryIsLeftClean

\* A session never has two harness processes, and one that runs has its temporary
\* directory: the end of a run, also of one that was cancelled a while ago, takes
\* away its own directory and no other's (CodexHarnessAdapter.runPrompt).
\* A turn goes on only after every event of its run was published, in order, and the
\* last of them was done (AgentHarnessEventQueue).
\* When no turn is under way no screenshot of the session is on the disk, although turns
\* overlap, fail halfway and leave downloads behind, unless rm failed and none has
\* succeeded since (PromptAttachmentDownloader).
TurnsAreKeptApart ==
  part = "turn" =>
    /\ Turn!RunsAreAlone
    /\ Turn!RunsAreReadWhole
    /\ Turn!ScreenshotsAreRemoved

\* Once no message is on its way and no document is loading, the page and the preview
\* agree on whether a click picks an element: also after both ended the mode at
\* once, after repeated handshakes and after a new document.
\* An element of a document that the preview has left and replaced by another that has loaded
\* is never added to the prompt, however late its message comes.
SelectionFollowsThePage ==
  part = "selection" =>
    /\ Selection!ModesAgree
    /\ Selection!SelectionsAreOfThePage

\* The companion's sessions end with the session: once it is gone they are, unless it
\* was cleaned up while no companion ran to do it, or its stop failed.
\* A preview that is down has no companion: none goes on without its backend.
CompanionsFollowTheirPreview ==
  part = "companion" =>
    /\ Companion!InnerEndsWithOuter
    /\ Companion!NoCompanionWithoutPreview

\* A readiness result the developer waited for stays on the page until a newer one: a
\* list read earlier never takes it back.  Only the answer of an update that was under
\* way at that moment may, or of the creation, until the list is read again.
\* The folder handed over is not offered for creation once its project is created,
\* though a list read before the creation may come after it.
NewestResultIsShown ==
  part = "projects" =>
    /\ Projects!ResultsStay
    /\ Projects!CreatedIsNotOfferedAgain

\* Nothing of a command is left on the developer's computer once its promise is settled,
\* whichever of its two programs went first.
\* A catalog that was accepted was read to its last page, and no page of it twice.
CommandsAreContained ==
  part = "codex" =>
    /\ Codex!NothingOutlivesItsCommand
    /\ Codex!CatalogIsWhole

\* Whatever becomes of pairdock.yml, the form's runtime and the file's commands fit together:
\* a saved project whose folder is there can be built, unless the file holds a value that is
\* refused by itself, and a host project does not care what the preparation says.
\* While the folder is as it was when the window's need for Docker was last computed, a
\* start that can be built asks for Docker exactly when the window does.
\* The readiness on display is of the draft that is saved and of the backend it is paired with.
SavedProjectsStayReady ==
  part = "application" =>
    /\ Application!SavedProjectsCanBeBuilt
    /\ Application!DockerWarningIsTrue
    /\ Application!ReadinessIsOfTheProject

\* Once the timer of a command is done with it, nobody of its group is alive, also when the
\* shell heeded the first signal, the command was answered and the next one runs already.
\* The output of a command that was answered is whole: nobody is left who could add to it,
\* and a failed extraction that was reported late is not overlooked.
\* What passes the validation ran every command, and the last run of each of them is what
\* its status tells of.
ChecksReportWhatRan ==
  part = "checks" =>
    /\ Checks!TimedOutGroupIsGone
    /\ Checks!OutputIsWhole
    /\ Checks!PassesAreOfTheLastRun

\* An action that is over is one whose effect the window shows, unless it could not read it.
\* The project's check is shown as failed if and only if its last one failed.
WindowFollowsTheManager ==
  part = "window" =>
    /\ Window!ActionsAreShown
    /\ Window!FailuresAreOfTheLastCheck

\* A handler that has read a CLOSED row never puts the session back to work:
\* the row stays CLOSED, or becomes FAILED or AWAITING_PM_VALIDATION (late
\* failures and late check results are the only events that reopen it).
\* An installation an identity records is forgotten only by a sign-in that read the
\* identity before another wrote it.
\* What a participant wrote stays in the dialog until it closes: captures that become
\* ready under it replace neither its text nor its files.
\* A turn that is reported as one that changed no file has changed none that git status
\* names plainly, unless its files were committed meanwhile: as far as these go, the outcome
\* of the validation before it still stands.
\* The checks that a turn reports are of the files that git status names plainly as its last
\* repair left them, unless they were committed meanwhile.
\* A preview is found ready only while a process of it runs or after a signal ended it,
\* although another preview that was given the same port may be what answered:
\* check looks before and after the request, at an exit code no signal sets.
\* What the window shows never goes back to an older state of the manager, although reads
\* that were replaced still publish, and a read goes on for minutes.
WhatWasToldStands ==
  [][/\ part = "rows" => Rows!ClosedStep
     /\ part = "signIn" => Entry!InstallationStep
     /\ part = "composer" => Composer!EditStep
     /\ part = "changes" => Changes!UnchangedStep
     /\ part = "changes" => Changes!CheckedStep
     /\ part = "process" => Process!ReadyStep
     /\ part = "window" => Window!ShownStep]_all
=============================================================================
