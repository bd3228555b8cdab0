------------------------ MODULE SessionLifecycle_proofs ------------------------
(***************************************************************************)
(* Proofs about SessionLifecycle: it implements SessionRow, whatever       *)
(* requests, timeouts, crashes and losses of the connection there are; its *)
(* variables keep to their types; what the row says of the workspace is    *)
(* so; and with one prompt, the pull request shows what passed the checks. *)
(***************************************************************************)
EXTENDS SessionLifecycle, TLAPS

RowsProved == INSTANCE SessionRow_proofs WITH Handler <- Handlers

\* SessionRow's words are the lifecycle's: both take them from SessionStateMachine.
LEMMA SameWords ==
  /\ Rows!AgentEvents = AgentEvents
  /\ Rows!SessionStatus = SessionStatus
  /\ \A a, b : Rows!Event(a, b) = Event(a, b)
<1>1. \A a, b : Rows!Event(a, b) = Event(a, b)
  BY DEF Event, Rows!Event
<1>2. Rows!SessionStatus = SessionStatus
  BY DEF SessionStatus, Rows!SessionStatus, Preparing, Rows!Preparing, Operating, Rows!Operating,
         Promptable, Rows!Promptable
<1>3. Rows!AgentEvents = AgentEvents
  BY <1>1, <1>2
  DEF AgentEvents, Rows!AgentEvents, ProgressEvents, Rows!ProgressEvents, DoneEvents, Rows!DoneEvents,
      ChecksEvents, Rows!ChecksEvents, PlainEvents, Rows!PlainEvents
<1> QED
  BY <1>1, <1>2, <1>3

\* The events the agent's flows emit.
LEMMA Emitted ==
  /\ Progress("AGENT_CONNECTING") \in AgentEvents /\ Progress("WORKTREE_CREATING") \in AgentEvents
  /\ Progress("DOCKER_STARTING") \in AgentEvents /\ Progress("PREVIEW_STARTING") \in AgentEvents
  /\ Progress("AGENT_RUNNING") \in AgentEvents /\ Failure \in AgentEvents
  /\ \A a \in {"changed", "unchanged", "failed"} : Event("agent.done", a) \in AgentEvents
  /\ \A a \in {"passed", "failed"} : Event("checks.result", a) \in AgentEvents
  /\ \A t \in {"session.ready", "session.recovered", "session.closed"} : Event(t, "none") \in AgentEvents
BY DEF Progress, Failure, AgentEvents, ProgressEvents, DoneEvents, ChecksEvents, PlainEvents,
       SessionStatus, Preparing, Operating, Promptable
-----------------------------------------------------------------------------
\* Emitting, going on and acknowledging keep the wire's types.
LEMMA EmitType ==
  ASSUME WireTypeOK, NEW f \in Flows, NEW loc \in Locations, NEW e \in AgentEvents, Emit(f, loc, e)
  PROVE  WireTypeOK'
<1>1. <<f, flow[f].slot>> \in Flows \X Slots
  BY DEF WireTypeOK
<1>2. net' \in [Flows \X Slots -> AgentEvents \cup {NoEvent}]
  BY <1>1 DEF WireTypeOK, Emit
<1>3. ASSUME NEW a \in {"pending", "ok", "rejected"}
      PROVE  [flow EXCEPT ![f].at = loc, ![f].ack = a]
               \in [Flows -> [at : Locations, ack : {"idle", "pending", "ok", "rejected"}, slot : Slots]]
  BY DEF WireTypeOK
<1>4. PICK a \in {"pending", "ok", "rejected"} : flow' = [flow EXCEPT ![f].at = loc, ![f].ack = a]
  BY DEF Emit, Unanswered
<1> QED
  BY <1>2, <1>3, <1>4 DEF WireTypeOK

LEMMA GotoType ==
  ASSUME WireTypeOK, NEW f \in Flows, NEW loc \in Locations, Goto(f, loc)
  PROVE  WireTypeOK'
BY DEF WireTypeOK, Goto

LEMMA AcknowledgeType ==
  ASSUME WireTypeOK, NEW f \in Flows, NEW s \in Slots, NEW a \in {"ok", "rejected"},
         Acknowledge(f, s, a), net' = net \/ net' = [net EXCEPT ![<<f, s>>] = NoEvent]
  PROVE  WireTypeOK'
BY DEF WireTypeOK, Acknowledge

\* Every step keeps the wire's types.
LEMMA WireStep ==
  ASSUME WireTypeOK, [Next]_vars
  PROVE  WireTypeOK'
<1> USE DEF Locations
<1>0. /\ "prepare" \in Flows /\ "recovery" \in Flows
      /\ Prompts \subseteq Flows /\ Closers \subseteq Flows /\ Reviews \subseteq Flows
  BY DEF Flows
<1>1. ASSUME UNCHANGED wireVars
      PROVE  WireTypeOK'
  BY <1>1 DEF WireTypeOK, wireVars
<1>2. CASE Request
  BY <1>1, <1>2 DEF Request, AcceptPrompt, BeginClose, BeginReview
<1>3. ASSUME NEW f \in Flows, NEW s \in Slots, EventStep(f, s)
      PROVE  WireTypeOK'
  <2>1. CASE ReadEvent(f, s)
    BY <2>1 DEF ReadEvent, WireTypeOK
  <2>2. CASE CommitEvent(f, s) \/ RejectEvent(f, s) \/ LoseEvent(f, s)
    <3>1. PICK a \in {"ok", "rejected"} : Acknowledge(f, s, a)
      BY <2>2 DEF CommitEvent, RejectEvent, LoseEvent, Unanswered
    <3> QED
      BY <2>2, <3>1, AcknowledgeType DEF CommitEvent, RejectEvent, LoseEvent
  <2>3. CASE ReadLatestRun(f, s)
    BY <1>1, <2>3 DEF ReadLatestRun
  <2> QED
    BY <1>3, <2>1, <2>2, <2>3 DEF EventStep
<1>4. CASE PrepareStep
  BY <1>0, <1>4, Emitted, EmitType, GotoType
  DEF PrepareStep, ReceivePrepare, QueuePrepare, BeginPrepare, CreateWorktree, StartSandbox,
      OpenPreview, FailPrepare, ReportPrepare, EndPrepare
<1>5. ASSUME NEW p \in Prompts, PromptStep(p)
      PROVE  WireTypeOK'
  <2>1. p \in Flows
    BY <1>0
  <2>2. CASE RoutePrompt(p)
    BY <1>1, <2>2 DEF RoutePrompt
  <2>3. CASE ReceivePrompt(p) \/ RunHarness(p) \/ RunChecks(p) \/ GiveUpRepair(p)
    BY <2>1, <2>3, Emitted, EmitType, GotoType DEF ReceivePrompt, RunHarness, RunChecks, GiveUpRepair
  <2>4. CASE HarnessSucceeds(p)
    BY <2>1, <2>4, Emitted, EmitType DEF HarnessSucceeds
  <2>5. CASE HarnessFails(p) \/ BreakPrompt(p) \/ DropPrompt(p) \/ EndPrompt(p)
    BY <2>1, <2>5, Emitted, EmitType, GotoType DEF HarnessFails, BreakPrompt, DropPrompt, EndPrompt
  <2> QED
    BY <1>5, <2>2, <2>3, <2>4, <2>5 DEF PromptStep
<1>6. ASSUME NEW c \in Closers, CloseStep(c)
      PROVE  WireTypeOK'
  <2>1. c \in Flows
    BY <1>0
  <2>2. CASE RouteClose(c) \/ CommitClose(c) \/ FailClose(c)
    BY <1>1, <2>2 DEF RouteClose, CommitClose, FailClose
  <2>3. CASE Enqueue(c) \/ CleanUp(c) \/ FailCleanUp(c) \/ RefuseClosed(c) \/ EndClose(c)
    BY <2>1, <2>3, Emitted, EmitType, GotoType DEF Enqueue, CleanUp, FailCleanUp, RefuseClosed, EndClose, Finish
  <2> QED
    BY <1>6, <2>2, <2>3 DEF CloseStep
<1>7. ASSUME NEW r \in Reviews, ReviewStep(r)
      PROVE  WireTypeOK'
  <2>1. r \in Flows
    BY <1>0
  <2>2. CASE ApproveReview(r) \/ RefuseReview(r) \/ RoutePush(r) \/ OpenPullRequest(r) \/ FailReview(r)
               \/ CommitReview(r)
    BY <1>1, <2>2 DEF ApproveReview, RefuseReview, RoutePush, OpenPullRequest, FailReview, CommitReview
  <2>3. CASE Enqueue(r) \/ PushBranch(r) \/ FailPush(r) \/ EndPush(r)
    BY <2>1, <2>3, Emitted, EmitType, GotoType DEF Enqueue, PushBranch, FailPush, EndPush, Finish
  <2> QED
    BY <1>7, <2>2, <2>3 DEF ReviewStep
<1>8. CASE RecoveryStep \/ Restart
  <2>1. CASE AbandonRecovery
    BY <2>1 DEF AbandonRecovery, Stop, WireTypeOK
  <2>2. CASE LoadRegistry \/ RebuildPreview \/ FailRecovery \/ EndRecovery \/ Restart
    BY <1>0, <2>2, Emitted, EmitType, GotoType
    DEF LoadRegistry, RebuildPreview, FailRecovery, EndRecovery, Restart
  <2> QED
    BY <1>8, <2>1, <2>2 DEF RecoveryStep
<1>9. CASE Crash
  BY <1>9 DEF Crash, Stop, WireTypeOK
<1>10. CASE Drop \/ Reconnect
  BY <1>1, <1>10 DEF Drop, Reconnect
<1>11. ASSUME NEW f \in Flows, Timeout(f)
       PROVE  WireTypeOK'
  BY <1>11 DEF Timeout, Unanswered, WireTypeOK, Slots
<1>12. CASE UNCHANGED vars
  BY <1>1, <1>12 DEF vars
<1> QED
  BY <1>2, <1>3, <1>4, <1>5, <1>6, <1>7, <1>8, <1>9, <1>10, <1>11, <1>12 DEF Next, Fault
-----------------------------------------------------------------------------
\* A step of the lifecycle is a step of SessionRow with one handler per request
\* and per event, or leaves the rows alone.
LEMMA RowsStep ==
  ASSUME WireTypeOK, [Next]_vars
  PROVE  [Rows!Next]_(Rows!vars)
<1> USE DEF Handlers
<1>1. ASSUME UNCHANGED rowVars
      PROVE  UNCHANGED Rows!vars
  BY <1>1 DEF rowVars, Rows!vars
<1>2. CASE Request
  <2>1. CASE \E p \in Prompts : AcceptPrompt(p)
    BY <1>1, <2>1 DEF AcceptPrompt
  <2>2. CASE \E c \in Closers : BeginClose(c)
    BY <2>2 DEF BeginClose, Rows!Next, Rows!CloseStep
  <2>3. CASE \E r \in Reviews : BeginReview(r)
    BY <2>3 DEF BeginReview, Rows!Next, Rows!ReviewStep
  <2> QED
    BY <1>2, <2>1, <2>2, <2>3 DEF Request
<1>3. ASSUME NEW f \in Flows, NEW s \in Slots, EventStep(f, s)
      PROVE  [Rows!Next]_(Rows!vars)
  <2>1. <<f, s>> \in Handlers
    OBVIOUS
  <2>2. CASE ReadEvent(f, s)
    <3>1. net[<<f, s>>] \in AgentEvents
      BY <2>2 DEF ReadEvent, WireTypeOK
    <3> QED
      BY <2>1, <2>2, <3>1, SameWords DEF ReadEvent, Rows!Next, Rows!EventStep
  <2>3. CASE ReadLatestRun(f, s) \/ CommitEvent(f, s) \/ RejectEvent(f, s)
    BY <2>1, <2>3 DEF ReadLatestRun, CommitEvent, RejectEvent, Rows!Next, Rows!EventStep
  <2>4. CASE LoseEvent(f, s)
    BY <1>1, <2>4 DEF LoseEvent
  <2> QED
    BY <1>3, <2>2, <2>3, <2>4 DEF EventStep
<1>4. CASE PrepareStep
  BY <1>1, <1>4
  DEF PrepareStep, ReceivePrepare, QueuePrepare, BeginPrepare, CreateWorktree, StartSandbox,
      OpenPreview, FailPrepare, ReportPrepare, EndPrepare
<1>5. CASE \E p \in Prompts : PromptStep(p)
  BY <1>1, <1>5
  DEF PromptStep, RoutePrompt, ReceivePrompt, RunHarness, HarnessSucceeds, HarnessFails, RunChecks,
      GiveUpRepair, BreakPrompt, DropPrompt, EndPrompt
<1>6. ASSUME NEW c \in Closers, CloseStep(c)
      PROVE  [Rows!Next]_(Rows!vars)
  <2>1. CASE CommitClose(c) \/ FailClose(c)
    BY <2>1 DEF CommitClose, FailClose, Rows!Next, Rows!CloseStep
  <2>2. CASE RouteClose(c) \/ Enqueue(c) \/ CleanUp(c) \/ FailCleanUp(c) \/ RefuseClosed(c) \/ EndClose(c)
    BY <1>1, <2>2 DEF RouteClose, Enqueue, CleanUp, FailCleanUp, RefuseClosed, EndClose, Finish
  <2> QED
    BY <1>6, <2>1, <2>2 DEF CloseStep
<1>7. ASSUME NEW r \in Reviews, ReviewStep(r)
      PROVE  [Rows!Next]_(Rows!vars)
  <2>1. CASE ApproveReview(r) \/ RefuseReview(r) \/ FailReview(r) \/ CommitReview(r)
    BY <2>1 DEF ApproveReview, RefuseReview, FailReview, CommitReview, Rows!Next, Rows!ReviewStep
  <2>2. CASE RoutePush(r) \/ OpenPullRequest(r) \/ Enqueue(r) \/ PushBranch(r) \/ FailPush(r) \/ EndPush(r)
    BY <1>1, <2>2 DEF RoutePush, OpenPullRequest, Enqueue, PushBranch, FailPush, EndPush, Finish
  <2> QED
    BY <1>7, <2>1, <2>2 DEF ReviewStep
<1>8. CASE RecoveryStep \/ Fault
  BY <1>1, <1>8
  DEF RecoveryStep, LoadRegistry, RebuildPreview, FailRecovery, EndRecovery, AbandonRecovery,
      Fault, Crash, Restart, Drop, Reconnect, Timeout, Stop
<1>9. CASE UNCHANGED vars
  BY <1>1, <1>9 DEF vars
<1> QED
  BY <1>2, <1>3, <1>4, <1>5, <1>6, <1>7, <1>8, <1>9 DEF Next

\* The wire keeps its types: every event in it is one the API's handlers know.
LEMMA WireTyping == Spec => []WireTypeOK
<1>1. Init => WireTypeOK
  BY DEF Init, WireTypeOK, Locations, Slots
<1>2. WireTypeOK /\ [Next]_vars => WireTypeOK'
  BY WireStep
<1> QED
  BY <1>1, <1>2, PTL DEF Spec

\* The rows of the lifecycle are changed with SessionRow's actions, one handler per
\* request and two per flow of the agent: what is proved of SessionRow carries over.
LEMMA Implementation == Spec => RowsSpec
<1>1. Init => Rows!Init
  BY DEF Init
<1>2. WireTypeOK /\ [Next]_vars => [Rows!Next]_(Rows!vars)
  BY RowsStep
<1> QED
  BY <1>1, <1>2, WireTyping, PTL DEF Spec, RowsSpec, Rows!Spec
-----------------------------------------------------------------------------
\* What SessionRow_proofs proves is proved of the rows the lifecycle keeps: the
\* two are the same module with the same handlers.
LEMMA SameRows ==
  /\ Rows!Init <=> RowsProved!Init
  /\ Rows!Next <=> RowsProved!Next
  /\ Rows!TypeOK <=> RowsProved!TypeOK
<1>1. \A a, b : Rows!Event(a, b) = RowsProved!Event(a, b)
  BY DEF Rows!Event, RowsProved!Event
<1>2. /\ Rows!Preparing = RowsProved!Preparing
      /\ Rows!Operating = RowsProved!Operating
      /\ Rows!Promptable = RowsProved!Promptable
  BY DEF Rows!Preparing, RowsProved!Preparing, Rows!Operating, RowsProved!Operating,
         Rows!Promptable, RowsProved!Promptable
<1>3. Rows!SessionStatus = RowsProved!SessionStatus /\ Rows!RunOutcome = RowsProved!RunOutcome
  BY <1>2 DEF Rows!SessionStatus, RowsProved!SessionStatus, Rows!RunOutcome, RowsProved!RunOutcome
<1>4. Rows!AgentEvents = RowsProved!AgentEvents
  BY <1>1, <1>3
  DEF Rows!AgentEvents, RowsProved!AgentEvents, Rows!ProgressEvents, RowsProved!ProgressEvents,
      Rows!DoneEvents, RowsProved!DoneEvents, Rows!ChecksEvents, RowsProved!ChecksEvents,
      Rows!PlainEvents, RowsProved!PlainEvents
<1>5. Rows!NoTx = RowsProved!NoTx /\ Rows!Created = RowsProved!Created
  BY <1>1 DEF Rows!NoTx, RowsProved!NoTx, Rows!Created, RowsProved!Created
<1>6. \A s, e : Rows!Accepts(s, e) <=> RowsProved!Accepts(s, e)
  BY DEF Rows!Accepts, RowsProved!Accepts, Rows!CanTransition, RowsProved!CanTransition,
         Rows!Transitions, RowsProved!Transitions
<1>7. \A s, e, l : Rows!NextStatus(s, e, l) = RowsProved!NextStatus(s, e, l)
  BY <1>2 DEF Rows!NextStatus, RowsProved!NextStatus, Rows!ResumeStatus, RowsProved!ResumeStatus,
              Rows!RecoveredStatus, RowsProved!RecoveredStatus
<1>8. \A h : Rows!EventStep(h) <=> RowsProved!EventStep(h)
  <2> TAKE h
  <2>1. \A e : Rows!ReadForEvent(h, e) <=> RowsProved!ReadForEvent(h, e)
    BY <1>1 DEF Rows!ReadForEvent, RowsProved!ReadForEvent
  <2>2. Rows!ReadLatestRun(h) <=> RowsProved!ReadLatestRun(h)
    BY DEF Rows!ReadLatestRun, RowsProved!ReadLatestRun
  <2>3. \A t : Rows!AppliedRow(t) = RowsProved!AppliedRow(t)
    BY <1>7 DEF Rows!AppliedRow, RowsProved!AppliedRow
  <2>4. Rows!CommitEvent(h) <=> RowsProved!CommitEvent(h)
    BY <1>5, <1>6, <2>3 DEF Rows!CommitEvent, RowsProved!CommitEvent
  <2>5. Rows!RejectEvent(h) <=> RowsProved!RejectEvent(h)
    BY <1>5, <1>6 DEF Rows!RejectEvent, RowsProved!RejectEvent
  <2> QED
    BY <1>4, <2>1, <2>2, <2>4, <2>5 DEF Rows!EventStep, RowsProved!EventStep
<1>9. \A h : Rows!CloseStep(h) <=> RowsProved!CloseStep(h)
  BY <1>5 DEF Rows!CloseStep, RowsProved!CloseStep, Rows!BeginClose, RowsProved!BeginClose,
              Rows!CommitClose, RowsProved!CommitClose, Rows!AbortClose, RowsProved!AbortClose
<1>10. \A h : Rows!ReviewStep(h) <=> RowsProved!ReviewStep(h)
  BY <1>5 DEF Rows!ReviewStep, RowsProved!ReviewStep, Rows!BeginReview, RowsProved!BeginReview,
              Rows!ApproveReview, RowsProved!ApproveReview, Rows!RefuseReview, RowsProved!RefuseReview,
              Rows!AbortReview, RowsProved!AbortReview, Rows!CommitReview, RowsProved!CommitReview,
              Rows!MayReview, RowsProved!MayReview
<1>11. Rows!TypeOK <=> RowsProved!TypeOK
  BY <1>3, <1>4
  DEF Rows!TypeOK, RowsProved!TypeOK, Rows!Row, RowsProved!Row, Rows!Transaction, RowsProved!Transaction,
      Rows!Stage, RowsProved!Stage
<1>12. Rows!Init <=> RowsProved!Init
  BY <1>5 DEF Rows!Init, RowsProved!Init
<1>13. Rows!Next <=> RowsProved!Next
  BY <1>8, <1>9, <1>10 DEF Rows!Next, RowsProved!Next
<1> QED
  BY <1>11, <1>12, <1>13

\* The rows of the lifecycle keep their types.
LEMMA RowsTyping == Spec => []Rows!TypeOK
<1>1. RowsProved!Spec => []RowsProved!TypeOK
  BY RowsProved!Typing
<1>2. Rows!Init => RowsProved!Init
  BY SameRows
<1>3. [Rows!Next]_(Rows!vars) => [RowsProved!Next]_(RowsProved!vars)
  BY SameRows DEF Rows!vars, RowsProved!vars
<1>4. RowsProved!TypeOK => Rows!TypeOK
  BY SameRows
<1> QED
  BY <1>1, <1>2, <1>3, <1>4, Implementation, PTL DEF RowsSpec, Rows!Spec, RowsProved!Spec
-----------------------------------------------------------------------------
\* What the typing of the worktree's contents rests on: a turn has only seen
\* drafts that were written.
TurnsAreOfDrafts == \A p \in Prompts : turn[p].base \in 0..drafts /\ turn[p].checked \in 0..drafts

\* What a harness run leaves in the worktree is a draft.
LEMMA WriteType ==
  ASSUME WorkTypeOK, TurnsAreOfDrafts, NEW p \in Prompts, HarnessWrites(p)
  PROVE  /\ drafts' \in 0..MaxDrafts /\ content' \in 0..drafts'
         /\ drafts <= drafts'
BY BoundsAssumption DEF WorkTypeOK, TurnsAreOfDrafts, HarnessWrites

\* Every step keeps the types of the worktree, of the harness and of its turns.
LEMMA WorkStep ==
  ASSUME WorkTypeOK, TurnsAreOfDrafts, [Next]_vars
  PROVE  WorkTypeOK' /\ TurnsAreOfDrafts'
<1> USE BoundsAssumption
<1>1. ASSUME UNCHANGED <<content, drafts, turn>>, harness' \in {harness, NoFlow},
             workspace' \in {"none", "active", "stored", "unloaded"}
      PROVE  WorkTypeOK' /\ TurnsAreOfDrafts'
  BY <1>1 DEF WorkTypeOK, TurnsAreOfDrafts
<1>2. ASSUME UNCHANGED workVars
      PROVE  WorkTypeOK' /\ TurnsAreOfDrafts'
  BY <1>2 DEF WorkTypeOK, TurnsAreOfDrafts, workVars
<1>3. CASE Request
  BY <1>2, <1>3 DEF Request, AcceptPrompt, BeginClose, BeginReview
<1>4. CASE \E f \in Flows, s \in Slots : EventStep(f, s)
  BY <1>2, <1>4 DEF EventStep, ReadEvent, ReadLatestRun, CommitEvent, RejectEvent, LoseEvent
<1>5. CASE PrepareStep
  <2>1. CASE CreateWorktree \/ FailPrepare
    BY <1>1, <2>1 DEF CreateWorktree, FailPrepare, WorkTypeOK
  <2> QED
    BY <1>2, <1>5, <2>1
    DEF PrepareStep, ReceivePrepare, QueuePrepare, BeginPrepare, StartSandbox, OpenPreview,
        ReportPrepare, EndPrepare
<1>6. ASSUME NEW p \in Prompts, PromptStep(p)
      PROVE  WorkTypeOK' /\ TurnsAreOfDrafts'
  <2>1. CASE RunHarness(p)
    BY <2>1 DEF RunHarness, WorkTypeOK, TurnsAreOfDrafts
  <2>2. CASE HarnessSucceeds(p) \/ HarnessFails(p)
    <3>1. /\ drafts' \in 0..MaxDrafts /\ content' \in 0..drafts' /\ drafts <= drafts'
          /\ harness' \in {harness, NoFlow} /\ UNCHANGED <<workspace, turn>>
      BY <2>2, WriteType DEF HarnessSucceeds, HarnessFails, WorkTypeOK
    <3> QED
      BY <3>1 DEF WorkTypeOK, TurnsAreOfDrafts
  <2>3. CASE RunChecks(p)
    <3>1. /\ UNCHANGED <<workspace, content, drafts, harness>>
          /\ \/ /\ turn[p].repairs < MaxRepairs
                /\ turn' = [turn EXCEPT ![p].repairs = @ + 1, ![p].checked = content]
             \/ turn' = [turn EXCEPT ![p].checked = content]
      BY <2>3 DEF RunChecks
    <3>2. content \in 0..MaxDrafts
      BY DEF WorkTypeOK
    <3>3. turn' \in [Prompts -> [base : 0..MaxDrafts, checked : 0..MaxDrafts, repairs : 0..MaxRepairs]]
      BY <3>1, <3>2 DEF WorkTypeOK
    <3>4. TurnsAreOfDrafts'
      BY <3>1 DEF WorkTypeOK, TurnsAreOfDrafts
    <3> QED
      BY <3>1, <3>3, <3>4 DEF WorkTypeOK
  <2>4. CASE BreakPrompt(p) \/ DropPrompt(p)
    BY <1>1, <2>4 DEF BreakPrompt, DropPrompt, WorkTypeOK
  <2> QED
    BY <1>2, <1>6, <2>1, <2>2, <2>3, <2>4
    DEF PromptStep, RoutePrompt, ReceivePrompt, GiveUpRepair, EndPrompt
<1>7. CASE \E c \in Closers : CloseStep(c)
  <2>1. CASE \E c \in Closers : CleanUp(c)
    BY <1>1, <2>1 DEF CleanUp
  <2> QED
    BY <1>2, <1>7, <2>1
    DEF CloseStep, RouteClose, CommitClose, FailClose, Enqueue, FailCleanUp, RefuseClosed, EndClose, Finish
<1>8. CASE \E r \in Reviews : ReviewStep(r)
  BY <1>2, <1>8
  DEF ReviewStep, ApproveReview, RefuseReview, RoutePush, OpenPullRequest, FailReview, CommitReview,
      Enqueue, PushBranch, FailPush, EndPush, Finish
<1>9. CASE Crash \/ AbandonRecovery \/ LoadRegistry \/ FailRecovery
  BY <1>1, <1>9 DEF Crash, AbandonRecovery, LoadRegistry, FailRecovery, Stop, WorkTypeOK
<1>10. CASE RebuildPreview \/ EndRecovery \/ Restart \/ Drop \/ Reconnect \/ \E f \in Flows : Timeout(f)
  BY <1>2, <1>10 DEF RebuildPreview, EndRecovery, Restart, Drop, Reconnect, Timeout
<1>11. CASE UNCHANGED vars
  BY <1>2, <1>11 DEF vars
<1> QED
  BY <1>3, <1>4, <1>5, <1>6, <1>7, <1>8, <1>9, <1>10, <1>11 DEF Next, RecoveryStep, Fault
-----------------------------------------------------------------------------
\* Only prompts run checks: a result of checks that is under way is of a prompt.
ChecksPassed == Event("checks.result", "passed")
ChecksAreOfPrompts ==
  \A f \in Flows, s \in Slots :
    net[<<f, s>>] = ChecksPassed \/ tx[<<f, s>>].event = ChecksPassed => f \in Prompts

\* No other event is taken for a result of checks.
LEMMA OtherEvents ==
  /\ Failure # ChecksPassed
  /\ \A status : Progress(status) # ChecksPassed
  /\ \A t \in {"agent.done", "session.ready", "session.recovered", "session.closed", "error"} : \A a :
       Event(t, a) # ChecksPassed
BY DEF ChecksPassed, Failure, Progress, Event

\* Emitting anything else, or going on, brings no result of checks.
LEMMA QuietWire ==
  ASSUME WireTypeOK, ChecksAreOfPrompts, NEW f \in Flows, NEW loc, UNCHANGED rowVars,
         \/ Goto(f, loc) \/ UNCHANGED net
         \/ \E e \in AgentEvents : Emit(f, loc, e) /\ (e # ChecksPassed \/ f \in Prompts)
  PROVE  ChecksAreOfPrompts'
<1>1. <<f, flow[f].slot>> \in Flows \X Slots
  BY DEF WireTypeOK
<1> QED
  BY <1>1 DEF WireTypeOK, ChecksAreOfPrompts, Emit, Goto, rowVars

\* Every step leaves the results of checks to the prompts.
LEMMA ChecksStep ==
  ASSUME WireTypeOK, Rows!TypeOK, ChecksAreOfPrompts, [Next]_vars
  PROVE  ChecksAreOfPrompts'
<1>0. /\ "prepare" \in Flows /\ "recovery" \in Flows
      /\ Prompts \subseteq Flows /\ Closers \subseteq Flows /\ Reviews \subseteq Flows
  BY DEF Flows
<1>1. ASSUME UNCHANGED <<rowVars, net>>
      PROVE  ChecksAreOfPrompts'
  BY <1>0, <1>1 DEF ChecksAreOfPrompts, rowVars
<1>2. /\ tx \in [Handlers -> Rows!Transaction]
      /\ Rows!NoTx.event # ChecksPassed
  BY OtherEvents DEF Rows!TypeOK, Rows!NoTx, Rows!Event, Event
\* The handlers of requests are not those of events.
<1>3. ASSUME NEW q \in Closers \cup Reviews, NEW t, tx' = [tx EXCEPT ![q] = t], UNCHANGED net
      PROVE  ChecksAreOfPrompts'
  BY <1>2, <1>3, DistinctNames DEF ChecksAreOfPrompts, Handlers
<1>4. CASE Request
  <2>1. CASE \E p \in Prompts : AcceptPrompt(p)
    BY <1>1, <2>1 DEF AcceptPrompt, wireVars
  <2>2. CASE \E c \in Closers : BeginClose(c)
    BY <1>3, <2>2 DEF BeginClose, wireVars, Rows!BeginClose
  <2>3. CASE \E r \in Reviews : BeginReview(r)
    BY <1>3, <2>3 DEF BeginReview, wireVars, Rows!BeginReview
  <2> QED
    BY <1>4, <2>1, <2>2, <2>3 DEF Request
<1>5. ASSUME NEW f \in Flows, NEW s \in Slots, EventStep(f, s)
      PROVE  ChecksAreOfPrompts'
  <2>1. <<f, s>> \in Handlers
    BY DEF Handlers
  <2>2. NoEvent # ChecksPassed
    BY Emitted, DistinctNames DEF ChecksPassed
  <2>3. ASSUME \A h \in Flows \X Slots :
                 /\ net'[h] \in {net[h], NoEvent}
                 /\ tx'[h].event \in {tx[h].event, net[h], Rows!NoTx.event}
        PROVE  ChecksAreOfPrompts'
    BY <1>2, <2>2, <2>3 DEF ChecksAreOfPrompts
  <2>4. CASE ReadEvent(f, s)
    BY <1>2, <2>1, <2>3, <2>4 DEF ReadEvent, Rows!ReadForEvent, WireTypeOK, Handlers
  <2>5. CASE ReadLatestRun(f, s)
    BY <1>2, <2>1, <2>3, <2>5 DEF ReadLatestRun, wireVars, Rows!ReadLatestRun, Handlers
  <2>6. CASE CommitEvent(f, s)
    BY <1>2, <2>1, <2>3, <2>6 DEF CommitEvent, Rows!CommitEvent, Handlers
  <2>7. CASE RejectEvent(f, s)
    BY <1>2, <2>1, <2>3, <2>7 DEF RejectEvent, Rows!RejectEvent, Handlers
  <2>8. CASE LoseEvent(f, s)
    BY <2>3, <2>8 DEF LoseEvent, rowVars, WireTypeOK
  <2> QED
    BY <1>5, <2>4, <2>5, <2>6, <2>7, <2>8 DEF EventStep
<1>6. CASE PrepareStep
  BY <1>0, <1>6, Emitted, OtherEvents, QuietWire
  DEF PrepareStep, ReceivePrepare, QueuePrepare, BeginPrepare, CreateWorktree, StartSandbox,
      OpenPreview, FailPrepare, ReportPrepare, EndPrepare
<1>7. ASSUME NEW p \in Prompts, PromptStep(p)
      PROVE  ChecksAreOfPrompts'
  <2>1. p \in Flows
    BY <1>0
  <2>2. CASE RoutePrompt(p)
    BY <1>1, <2>2 DEF RoutePrompt, wireVars
  <2> QED
    BY <1>7, <2>1, <2>2, Emitted, QuietWire
    DEF PromptStep, ReceivePrompt, RunHarness, HarnessSucceeds, HarnessFails, RunChecks,
        GiveUpRepair, BreakPrompt, DropPrompt, EndPrompt
<1>8. ASSUME NEW c \in Closers, CloseStep(c)
      PROVE  ChecksAreOfPrompts'
  <2>1. c \in Flows
    BY <1>0
  <2>2. CASE RouteClose(c)
    BY <1>1, <2>2 DEF RouteClose, wireVars
  <2>3. CASE CommitClose(c) \/ FailClose(c)
    BY <1>3, <2>3 DEF CommitClose, FailClose, wireVars, Rows!CommitClose, Rows!AbortClose
  <2>4. CASE Enqueue(c) \/ CleanUp(c) \/ FailCleanUp(c) \/ RefuseClosed(c) \/ EndClose(c)
    BY <2>1, <2>4, Emitted, OtherEvents, QuietWire DEF Enqueue, CleanUp, FailCleanUp, RefuseClosed, EndClose, Finish
  <2> QED
    BY <1>8, <2>2, <2>3, <2>4 DEF CloseStep
<1>9. ASSUME NEW r \in Reviews, ReviewStep(r)
      PROVE  ChecksAreOfPrompts'
  <2>1. r \in Flows
    BY <1>0
  <2>2. CASE RoutePush(r) \/ OpenPullRequest(r)
    BY <1>1, <2>2 DEF RoutePush, OpenPullRequest, wireVars
  <2>3. CASE RefuseReview(r) \/ FailReview(r) \/ CommitReview(r)
    BY <1>3, <2>3 DEF RefuseReview, FailReview, CommitReview, wireVars, Rows!RefuseReview, Rows!AbortReview,
                      Rows!CommitReview
  <2>4. CASE ApproveReview(r)
    BY <1>2, <2>4, DistinctNames DEF ApproveReview, wireVars, Rows!ApproveReview, ChecksAreOfPrompts, Handlers
  <2>5. CASE Enqueue(r) \/ PushBranch(r) \/ FailPush(r) \/ EndPush(r)
    BY <2>1, <2>5, Emitted, OtherEvents, QuietWire DEF Enqueue, PushBranch, FailPush, EndPush, Finish
  <2> QED
    BY <1>9, <2>2, <2>3, <2>4, <2>5 DEF ReviewStep
<1>10. CASE RecoveryStep \/ Restart
  <2>1. CASE AbandonRecovery
    BY <1>1, <2>1 DEF AbandonRecovery, Stop
  <2> QED
    BY <1>0, <1>10, <2>1, Emitted, OtherEvents, QuietWire
    DEF RecoveryStep, LoadRegistry, RebuildPreview, FailRecovery, EndRecovery, Restart
<1>11. CASE Crash \/ Drop \/ Reconnect \/ \E f \in Flows : Timeout(f)
  BY <1>1, <1>11 DEF Crash, Drop, Reconnect, Timeout, Stop, wireVars
<1>12. CASE UNCHANGED vars
  BY <1>1, <1>12 DEF vars, wireVars
<1> QED
  BY <1>4, <1>5, <1>6, <1>7, <1>8, <1>9, <1>10, <1>11, <1>12 DEF Next, Fault
-----------------------------------------------------------------------------
\* Every step keeps the types of the requests and of what they published.
LEMMA ApiStep ==
  ASSUME ApiTypeOK, WorkTypeOK, TurnsAreOfDrafts, ChecksAreOfPrompts, [Next]_vars
  PROVE  ApiTypeOK'
<1> USE BoundsAssumption DEF Requests
<1>1. ASSUME UNCHANGED <<branch, pullRequest, validated>>,
             req' \in [Requests -> {"idle", "begun", "sent", "silent", "accepted", "rejected",
                                    "opened", "done", "untold", "failed"}]
      PROVE  ApiTypeOK'
  BY <1>1 DEF ApiTypeOK
<1>2. ASSUME UNCHANGED <<apiVars, validated>>
      PROVE  ApiTypeOK'
  BY <1>2 DEF ApiTypeOK, apiVars
<1>3. CASE Request
  BY <1>1, <1>3 DEF Request, AcceptPrompt, BeginClose, BeginReview, ApiTypeOK
<1>4. ASSUME NEW f \in Flows, NEW s \in Slots, EventStep(f, s)
      PROVE  ApiTypeOK'
  <2>1. CASE CommitEvent(f, s)
    <3>1. tx[<<f, s>>].event = ChecksPassed => turn[f].checked \in 0..MaxDrafts
      BY DEF ChecksAreOfPrompts, WorkTypeOK
    <3> QED
      BY <2>1, <3>1 DEF CommitEvent, ChecksPassed, ApiTypeOK, apiVars
  <2> QED
    BY <1>2, <1>4, <2>1 DEF EventStep, ReadEvent, ReadLatestRun, RejectEvent, LoseEvent
<1>5. CASE PrepareStep
  BY <1>2, <1>5
  DEF PrepareStep, ReceivePrepare, QueuePrepare, BeginPrepare, CreateWorktree, StartSandbox,
      OpenPreview, FailPrepare, ReportPrepare, EndPrepare
<1>6. CASE \E p \in Prompts : PromptStep(p)
  <2>1. CASE \E p \in Prompts : RoutePrompt(p)
    BY <1>1, <2>1 DEF RoutePrompt, Send, ApiTypeOK
  <2> QED
    BY <1>2, <1>6, <2>1
    DEF PromptStep, ReceivePrompt, RunHarness, HarnessSucceeds, HarnessFails, RunChecks,
        GiveUpRepair, BreakPrompt, DropPrompt, EndPrompt
<1>7. CASE \E c \in Closers : CloseStep(c)
  <2>1. CASE \E c \in Closers : RouteClose(c) \/ CommitClose(c) \/ FailClose(c) \/ EndClose(c)
    BY <1>1, <2>1 DEF RouteClose, CommitClose, FailClose, EndClose, Finish, Send, Answer, ApiTypeOK
  <2> QED
    BY <1>2, <1>7, <2>1 DEF CloseStep, Enqueue, CleanUp, FailCleanUp, RefuseClosed
<1>8. CASE \E r \in Reviews : ReviewStep(r)
  <2>1. CASE \E r \in Reviews : RefuseReview(r) \/ RoutePush(r) \/ FailReview(r) \/ CommitReview(r) \/ EndPush(r)
    BY <1>1, <2>1 DEF RefuseReview, RoutePush, FailReview, CommitReview, EndPush, Finish, Send, Answer, ApiTypeOK
  <2>2. CASE \E r \in Reviews : OpenPullRequest(r)
    BY <2>2 DEF OpenPullRequest, ApiTypeOK
  <2>3. CASE \E r \in Reviews : PushBranch(r)
    BY <2>3 DEF PushBranch, Answer, ApiTypeOK, WorkTypeOK
  <2> QED
    BY <1>2, <1>8, <2>1, <2>2, <2>3 DEF ReviewStep, ApproveReview, Enqueue, FailPush
<1>9. CASE Crash \/ AbandonRecovery \/ Drop
  BY <1>1, <1>9 DEF Crash, AbandonRecovery, Drop, Stop, Silence, ApiTypeOK
<1>10. CASE LoadRegistry \/ RebuildPreview \/ FailRecovery \/ EndRecovery \/ Restart \/ Reconnect
              \/ \E f \in Flows : Timeout(f)
  BY <1>2, <1>10 DEF LoadRegistry, RebuildPreview, FailRecovery, EndRecovery, Restart, Reconnect, Timeout, apiVars
<1>11. CASE UNCHANGED vars
  BY <1>2, <1>11 DEF vars
<1> QED
  BY <1>3, <1>4, <1>5, <1>6, <1>7, <1>8, <1>9, <1>10, <1>11 DEF Next, RecoveryStep, Fault
-----------------------------------------------------------------------------
\* What the typing of the queue rests on: a preparation at work holds the lock.
PrepareHolds == flow["prepare"].at \in {"worktree", "sandbox", "preview"} => Holds("prepare")

\* A flow that is not the preparation leaves its place alone.
LEMMA OtherFlows ==
  ASSUME WireTypeOK, NEW f \in Flows, NEW g \in Flows, f # g, NEW loc, NEW e,
         Emit(f, loc, e) \/ Goto(f, loc)
  PROVE  flow'[g] = flow[g]
BY DEF WireTypeOK, Emit, Goto

\* Events and timeouts settle an acknowledgement and leave every flow where it is.
LEMMA EventsMoveNobody ==
  ASSUME WireTypeOK, NEW f \in Flows,
         (\E s \in Slots : EventStep(f, s)) \/ Timeout(f)
  PROVE  \A g \in Flows : flow'[g].at = flow[g].at
<1>1. ASSUME NEW s, NEW a, Acknowledge(f, s, a)
      PROVE  \A g \in Flows : flow'[g].at = flow[g].at
  BY <1>1 DEF WireTypeOK, Acknowledge
<1>2. CASE Timeout(f)
  BY <1>2 DEF WireTypeOK, Timeout
<1>3. CASE \E s \in Slots : EventStep(f, s)
  BY <1>1, <1>3 DEF EventStep, ReadEvent, ReadLatestRun, CommitEvent, RejectEvent, LoseEvent, wireVars
<1> QED
  BY <1>2, <1>3

\* Every step keeps the types of the connection and of the counts of what failed.
LEMMA FaultStep ==
  ASSUME FaultTypeOK, [Next]_vars
  PROVE  FaultTypeOK'
<1> USE BoundsAssumption
<1>1. ASSUME UNCHANGED faultVars
      PROVE  FaultTypeOK'
  BY <1>1 DEF FaultTypeOK, faultVars
<1>2. CASE Request \/ PrepareStep \/ \E f \in Flows, s \in Slots : EventStep(f, s)
  BY <1>1, <1>2
  DEF Request, AcceptPrompt, BeginClose, BeginReview,
      EventStep, ReadEvent, ReadLatestRun, CommitEvent, RejectEvent, LoseEvent,
      PrepareStep, ReceivePrepare, QueuePrepare, BeginPrepare, CreateWorktree, StartSandbox,
      OpenPreview, FailPrepare, ReportPrepare, EndPrepare
<1>3. CASE \E p \in Prompts : PromptStep(p)
  BY <1>1, <1>3
  DEF PromptStep, RoutePrompt, ReceivePrompt, RunHarness, HarnessSucceeds, HarnessFails, RunChecks,
      GiveUpRepair, BreakPrompt, DropPrompt, EndPrompt
<1>4. CASE \E c \in Closers : CloseStep(c)
  BY <1>1, <1>4
  DEF CloseStep, RouteClose, CommitClose, FailClose, Enqueue, CleanUp, FailCleanUp, RefuseClosed, EndClose, Finish
<1>5. CASE \E r \in Reviews : ReviewStep(r)
  BY <1>1, <1>5
  DEF ReviewStep, ApproveReview, RefuseReview, RoutePush, OpenPullRequest, FailReview, CommitReview,
      Enqueue, PushBranch, FailPush, EndPush, Finish
<1>6. CASE LoadRegistry \/ RebuildPreview \/ FailRecovery \/ EndRecovery
  BY <1>1, <1>6 DEF LoadRegistry, RebuildPreview, FailRecovery, EndRecovery
<1>7. CASE AbandonRecovery \/ Restart \/ Reconnect
  BY <1>7 DEF AbandonRecovery, Restart, Reconnect, Stop, FaultTypeOK
<1>8. CASE Crash
  <2>1. link' = "down" /\ faults.crashes < MaxCrashes /\ faults' = [faults EXCEPT !.crashes = @ + 1]
    BY <1>8 DEF Crash, Stop
  <2> QED
    BY <2>1 DEF FaultTypeOK
<1>9. CASE Drop
  BY <1>9 DEF Drop, FaultTypeOK
<1>10. CASE \E f \in Flows : Timeout(f)
  BY <1>10 DEF Timeout, FaultTypeOK
<1>11. CASE UNCHANGED vars
  BY <1>1, <1>11 DEF vars
<1> QED
  BY <1>2, <1>3, <1>4, <1>5, <1>6, <1>7, <1>8, <1>9, <1>10, <1>11 DEF Next, RecoveryStep, Fault

\* The agent's queues: what takes from the lock held it, and what joins it leaves
\* its head alone.
LEMMA QueueStep ==
  ASSUME WireTypeOK, QueueTypeOK, PrepareHolds, [Next]_vars
  PROVE  QueueTypeOK' /\ PrepareHolds'
<1> USE BoundsAssumption, DistinctNames DEF Requests
<1>0. /\ "prepare" \in Flows /\ "recovery" \in Flows
      /\ Prompts \subseteq Flows /\ Closers \subseteq Flows /\ Reviews \subseteq Flows
  BY DEF Flows
<1>1. ASSUME inbox' \in Seq(Requests \cup {"prepare"}),
             lock' \in Seq(Closers \cup Reviews \cup {"prepare"})
      PROVE  QueueTypeOK'
  BY <1>1 DEF QueueTypeOK
<1>2. ASSUME UNCHANGED <<inbox, lock>>
      PROVE  QueueTypeOK'
  BY <1>2 DEF QueueTypeOK
<1>3. ASSUME UNCHANGED lock, flow'["prepare"].at = flow["prepare"].at
      PROVE  PrepareHolds'
  BY <1>3 DEF PrepareHolds, Holds
<1>4. ASSUME UNCHANGED <<inbox, lock, flow>>
      PROVE  QueueTypeOK' /\ PrepareHolds'
  BY <1>2, <1>3, <1>4
<1>5. /\ \A q \in Requests : Append(inbox, q) \in Seq(Requests \cup {"prepare"})
      /\ \A q \in Closers \cup Reviews \cup {"prepare"} :
           /\ Append(lock, q) \in Seq(Closers \cup Reviews \cup {"prepare"})
           /\ \A f : Holds(f) => Append(lock, q) # <<>> /\ Head(Append(lock, q)) = f
  BY DEF QueueTypeOK, Holds
<1>6. /\ \A f : Receive(f) => inbox' \in Seq(Requests \cup {"prepare"})
      /\ \A f : Holds(f) => Tail(lock) \in Seq(Closers \cup Reviews \cup {"prepare"})
  <2>1. ASSUME NEW S, NEW s \in Seq(S), s # <<>>
        PROVE  Tail(s) \in Seq(S)
    BY <2>1
  <2>2. inbox # <<>> => Tail(inbox) \in Seq(Requests \cup {"prepare"})
    BY <2>1 DEF QueueTypeOK
  <2>3. lock # <<>> => Tail(lock) \in Seq(Closers \cup Reviews \cup {"prepare"})
    BY <2>1 DEF QueueTypeOK
  <2> QED
    BY <2>2, <2>3 DEF Receive, Holds
<1>17. <<>> \in Seq(Requests \cup {"prepare"}) /\ <<>> \in Seq(Closers \cup Reviews \cup {"prepare"})
  OBVIOUS
<1>7. CASE Request
  BY <1>4, <1>7 DEF Request, AcceptPrompt, BeginClose, BeginReview, wireVars
<1>8. CASE \E f \in Flows : Timeout(f) \/ \E s \in Slots : EventStep(f, s)
  <2>1. PrepareHolds'
    BY <1>0, <1>3, <1>8, EventsMoveNobody
    DEF EventStep, ReadEvent, ReadLatestRun, CommitEvent, RejectEvent, LoseEvent, Timeout
  <2>2. QueueTypeOK'
    BY <1>2, <1>8 DEF EventStep, ReadEvent, ReadLatestRun, CommitEvent, RejectEvent, LoseEvent, Timeout
  <2> QED
    BY <2>1, <2>2
<1>9. CASE PrepareStep
  <2>1. CASE ReceivePrepare \/ QueuePrepare
    <3>1. flow'["prepare"].at \in {"connecting", "queued"}
      BY <1>0, <2>1 DEF ReceivePrepare, QueuePrepare, Emit, Goto, WireTypeOK
    <3>2. PrepareHolds'
      BY <3>1 DEF PrepareHolds
    <3> QED
      BY <1>1, <1>5, <1>6, <2>1, <3>1, <3>2 DEF ReceivePrepare, QueuePrepare, QueueTypeOK
  <2>2. CASE BeginPrepare \/ CreateWorktree \/ StartSandbox
    <3>1. Holds("prepare") /\ UNCHANGED <<inbox, lock>>
      BY <2>2 DEF BeginPrepare, CreateWorktree, StartSandbox, PrepareHolds, At
    <3> QED
      BY <1>2, <3>1 DEF PrepareHolds, Holds
  <2>3. CASE OpenPreview \/ FailPrepare
    <3>1. Holds("prepare")
      BY <2>3 DEF OpenPreview, FailPrepare, PrepareHolds, At
    <3> QED
      <4>1. UNCHANGED inbox /\ lock' = Tail(lock) /\ flow'["prepare"].at \in {"ready", "failing"}
        BY <1>0, <2>3 DEF OpenPreview, FailPrepare, Emit, WireTypeOK
      <4>2. PrepareHolds'
        BY <4>1 DEF PrepareHolds
      <4> QED
        BY <1>1, <1>6, <3>1, <4>1, <4>2 DEF QueueTypeOK
  <2>4. CASE ReportPrepare \/ EndPrepare
    BY <1>0, <1>2, <2>4 DEF ReportPrepare, EndPrepare, PrepareHolds, Emit, Goto, WireTypeOK
  <2> QED
    BY <1>9, <2>1, <2>2, <2>3, <2>4 DEF PrepareStep
<1>10. ASSUME NEW p \in Prompts, PromptStep(p)
       PROVE  QueueTypeOK' /\ PrepareHolds'
  <2>1. p \in Flows /\ p # "prepare"
    BY <1>0
  <2>2. CASE RoutePrompt(p)
    BY <1>1, <1>3, <1>5, <2>2 DEF RoutePrompt, Send, wireVars, QueueTypeOK
  <2>3. CASE ReceivePrompt(p)
    BY <1>0, <1>1, <1>3, <1>6, <2>1, <2>3, OtherFlows DEF ReceivePrompt, QueueTypeOK
  <2> QED
    BY <1>0, <1>2, <1>3, <1>10, <2>1, <2>2, <2>3, OtherFlows
    DEF PromptStep, RunHarness, HarnessSucceeds, HarnessFails, RunChecks,
        GiveUpRepair, BreakPrompt, DropPrompt, EndPrompt
<1>11. ASSUME NEW q \in Closers \cup Reviews, CloseStep(q) \/ ReviewStep(q)
       PROVE  QueueTypeOK' /\ PrepareHolds'
  <2>1. q \in Flows /\ q \in Requests /\ q # "prepare"
    BY <1>0
  <2>2. CASE RouteClose(q) \/ RoutePush(q)
    BY <1>1, <1>3, <1>5, <2>1, <2>2 DEF RouteClose, RoutePush, Send, wireVars, QueueTypeOK
  <2>3. CASE CommitClose(q) \/ FailClose(q) \/ ApproveReview(q) \/ RefuseReview(q) \/ OpenPullRequest(q)
               \/ FailReview(q) \/ CommitReview(q)
    BY <1>4, <2>3
    DEF CommitClose, FailClose, ApproveReview, RefuseReview, OpenPullRequest, FailReview, CommitReview, wireVars
  <2>4. CASE Enqueue(q)
    <3>1. PrepareHolds'
      BY <1>0, <1>5, <2>1, <2>4, OtherFlows DEF Enqueue, PrepareHolds, Holds
    <3> QED
      BY <1>1, <1>5, <1>6, <2>1, <2>4, <3>1 DEF Enqueue
  <2>5. CASE CleanUp(q) \/ FailCleanUp(q) \/ PushBranch(q) \/ FailPush(q)
    <3>1. Holds(q) /\ lock' = Tail(lock) /\ flow'["prepare"] = flow["prepare"] /\ UNCHANGED inbox
      BY <1>0, <2>1, <2>5, OtherFlows DEF CleanUp, FailCleanUp, PushBranch, FailPush
    <3>2. PrepareHolds'
      BY <2>1, <3>1 DEF PrepareHolds, Holds
    <3> QED
      BY <1>1, <1>6, <3>1, <3>2 DEF QueueTypeOK
  <2>6. CASE RefuseClosed(q) \/ EndClose(q) \/ EndPush(q)
    BY <1>0, <1>2, <1>3, <2>1, <2>6, OtherFlows DEF RefuseClosed, EndClose, EndPush, Finish
  <2> QED
    BY <1>11, <2>2, <2>3, <2>4, <2>5, <2>6 DEF CloseStep, ReviewStep
<1>12. CASE LoadRegistry \/ RebuildPreview \/ FailRecovery \/ EndRecovery
  BY <1>0, <1>2, <1>3, <1>12, OtherFlows DEF LoadRegistry, RebuildPreview, FailRecovery, EndRecovery
<1>13. CASE Restart
  BY <1>0, <1>3, <1>13, OtherFlows DEF Restart, QueueTypeOK
<1>14. CASE Crash \/ AbandonRecovery
  <2>1. Stop
    BY <1>14 DEF Crash, AbandonRecovery
  <2>2. flow'["prepare"].at \in {"idle", "done"}
    BY <1>0, <2>1 DEF Stop, WireTypeOK
  <2> QED
    BY <1>1, <1>17, <2>1, <2>2 DEF Stop, PrepareHolds
<1>15. CASE Drop \/ Reconnect
  BY <1>1, <1>3, <1>15, <1>17 DEF Drop, Reconnect, wireVars, QueueTypeOK
<1>16. CASE UNCHANGED vars
  BY <1>4, <1>16 DEF vars, wireVars
<1> QED
  BY <1>7, <1>8, <1>9, <1>10, <1>11, <1>12, <1>13, <1>14, <1>15, <1>16 DEF Next, RecoveryStep, Fault

\* The strengthening of the type invariant, but for the rows'.
Typed ==
  /\ WireTypeOK /\ WorkTypeOK /\ ApiTypeOK /\ QueueTypeOK /\ FaultTypeOK
  /\ TurnsAreOfDrafts /\ ChecksAreOfPrompts /\ PrepareHolds

\* Every variable of the lifecycle keeps to its type, for any requests and faults.
THEOREM Typing == Spec => [](TypeOK /\ Typed)
<1>1. Init => Typed
  <2> SUFFICES ASSUME Init
               PROVE  Typed
    OBVIOUS
  <2> USE BoundsAssumption
  <2>1. WireTypeOK /\ ChecksAreOfPrompts /\ PrepareHolds
    <3>1. NoEvent # ChecksPassed
      BY Emitted, DistinctNames DEF ChecksPassed
    <3>2. \A h \in Handlers : tx[h].event # ChecksPassed
      BY OtherEvents DEF Init, Rows!Init, Rows!NoTx, Rows!Event, Event
    <3> QED
      BY <3>1, <3>2 DEF Init, WireTypeOK, ChecksAreOfPrompts, PrepareHolds, Locations, Slots, Handlers, Flows
  <2>2. WorkTypeOK /\ TurnsAreOfDrafts
    BY DEF Init, WorkTypeOK, TurnsAreOfDrafts
  <2>3. ApiTypeOK /\ FaultTypeOK
    BY DEF Init, ApiTypeOK, FaultTypeOK, NotPushed
  <2>4. QueueTypeOK
    <3>1. ASSUME NEW S
          PROVE  <<"prepare">> \in Seq(S \cup {"prepare"}) /\ <<>> \in Seq(S \cup {"prepare"})
      OBVIOUS
    <3> QED
      BY <3>1 DEF Init, QueueTypeOK
  <2> QED
    BY <2>1, <2>2, <2>3, <2>4 DEF Typed
<1>2. Typed /\ Rows!TypeOK /\ [Next]_vars => Typed'
  BY WireStep, WorkStep, ApiStep, QueueStep, FaultStep, ChecksStep DEF Typed
<1>3. Typed /\ Rows!TypeOK => TypeOK
  BY DEF Typed, TypeOK
<1> QED
  BY <1>1, <1>2, <1>3, RowsTyping, PTL DEF Spec
-----------------------------------------------------------------------------
(***************************************************************************)
(* Why a clean close leaves no workspace: until the agent crashes, the     *)
(* preparation takes the lock before whatever the API may send once the    *)
(* row has left CREATED, so a clean-up finds a preparation that is over.   *)
(***************************************************************************)

\* Where a preparation may be.
PreparePlaces ==
  /\ flow["prepare"].at \in {"idle", "connecting", "queued", "worktree", "sandbox", "preview", "ready",
                             "failing", "done"}
  /\ flow["prepare"].at = "idle" => flow["prepare"].ack = "idle"
  /\ flow["prepare"].at = "connecting" => flow["prepare"].ack # "idle"

\* The agent has had no answer yet to the first event of the preparation ...
Unsettled == flow["prepare"].at = "idle" \/ At("prepare", "connecting", {"pending"})

\* ... it has that answer and will create no workspace any more.
Past == flow["prepare"].at \in {"ready", "failing", "done"} \/ At("prepare", "connecting", {"rejected"})

\* A handler that read the row, if it did, while it was new or had just been closed.
ReadEarly(t) == t.seen.status \in {"CREATED", "CLOSED"}

\* Nothing else has reached the agent: the row is as it was created, or closed
\* without a word to the agent, and so is whatever a handler has read of it.
Untouched ==
  /\ row.status \in {"CREATED", "CLOSED"}
  /\ \A h \in Handlers : ReadEarly(tx[h])
  /\ \A c \in Closers : ~NeedsCleanup(c) /\ req[c] \in {"idle", "begun", "untold"}
  /\ \A p \in Prompts : req[p] = "idle"
  /\ \A r \in Reviews : tx[r].stage # "approved" /\ req[r] \in {"idle", "begun", "failed"}
  /\ inbox = <<>> \/ (inbox = <<"prepare">> /\ flow["prepare"].at = "idle")
  /\ lock = <<>> /\ workspace = "none"
  /\ \A f \in Flows \ {"prepare"} :
       /\ flow[f].at = "idle" /\ flow[f].ack = "idle"
       /\ \A s \in Slots : net[<<f, s>>] = NoEvent /\ tx[<<f, s>>].stage = "idle"
  /\ \A s \in Slots :
       (net[<<"prepare", s>>] # NoEvent \/ tx[<<"prepare", s>>].stage # "idle") =>
         (flow["prepare"].at = "connecting" /\ flow["prepare"].slot = s)

\* The agent runs as it was started, and has no more than one preparation to do.
StartedOnce ==
  /\ link # "down" /\ workspace # "unloaded" /\ flow["recovery"].at = "idle"
  /\ flow["prepare"].at # "idle" => \A i \in 1..Len(inbox) : inbox[i] # "prepare"

\* A preparation under way is the first to take the lock, and keeps it.
FirstInLine ==
  /\ At("prepare", "connecting", {"ok"}) => lock = <<>> /\ \A q \in Closers \cup Reviews : flow[q].at = "idle"
  /\ flow["prepare"].at \in {"queued", "worktree", "sandbox", "preview"} =>
       Holds("prepare") /\ \A q \in Closers \cup Reviews : flow[q].at \in {"idle", "queued"}

\* A clean-up that has succeeded came after it.
CleanedAfter ==
  (\E c \in Closers : flow[c].at = "closed" \/ req[c] \in {"accepted", "done"}) => Past /\ workspace = "none"

\* The inductive invariant, of an agent that has not crashed.
PrepareGoesFirst ==
  /\ PreparePlaces
  /\ faults.crashes = 0 => StartedOnce /\ (Unsettled => Untouched) /\ FirstInLine /\ CleanedAfter

\* What Untouched gives, also for the moment the first event is settled.
StillFirst ==
  /\ workspace = "none" /\ link # "down" /\ flow["recovery"].at = "idle" /\ lock = <<>>
  /\ \A q \in Closers \cup Reviews : flow[q].at = "idle"
  /\ \A c \in Closers : req[c] \notin {"accepted", "done"}
  /\ flow["prepare"].at # "idle" => inbox = <<>>
  /\ \/ Unsettled /\ Untouched
     \/ flow["prepare"].at = "connecting" /\ flow["prepare"].ack \in {"ok", "rejected"}

\* Until the first event of the preparation is settled nothing else gets to the
\* agent; when it is settled, the lock is free and no clean-up or push was queued.
LEMMA UntouchedStep ==
  ASSUME Typed, Rows!TypeOK, PrepareGoesFirst, faults.crashes = 0, Unsettled, Next, ~Crash
  PROVE  StillFirst'
<1> USE DistinctNames
<1>0. /\ "prepare" \in Flows /\ "recovery" \in Flows \ {"prepare"}
      /\ Prompts \subseteq Flows \ {"prepare"} /\ Closers \subseteq Flows \ {"prepare"}
      /\ Reviews \subseteq Flows \ {"prepare"}
  BY DEF Flows, Requests
<1>1. Untouched /\ link # "down"
  BY DEF PrepareGoesFirst, StartedOnce
<1>2. /\ WireTypeOK /\ tx \in [Handlers -> Rows!Transaction]
      /\ req \in [Requests -> {"idle", "begun", "sent", "silent", "accepted", "rejected",
                               "opened", "done", "untold", "failed"}]
  BY DEF Typed, Rows!TypeOK, ApiTypeOK
\* What happens to the rows and to the handlers of requests alone.
<1>3. ASSUME UNCHANGED <<wireVars, workVars, inbox, lock, link>>,
             row'.status \in {"CREATED", "CLOSED"},
             \A h \in Handlers : ReadEarly(tx'[h]),
             \A h \in Flows \X Slots : tx'[h].stage = tx[h].stage,
             \A c \in Closers : tx'[c].seen.status = "CREATED" /\ req'[c] \in {"idle", "begun", "untold"},
             \A p \in Prompts : req'[p] = "idle",
             \A r \in Reviews : tx'[r].stage # "approved" /\ req'[r] \in {"idle", "begun", "failed"}
      PROVE  StillFirst'
  BY <1>0, <1>1, <1>3 DEF Untouched, Unsettled, NeedsCleanup, wireVars, workVars, At, StillFirst
<1>4. ASSUME NEW c \in Closers, NEW t, t.seen.status = "CREATED", NEW a \in {"begun", "untold"},
             tx' = [tx EXCEPT ![c] = t], req' = [req EXCEPT ![c] = a],
             row'.status \in {"CREATED", "CLOSED"},
             UNCHANGED <<wireVars, workVars, inbox, lock, link>>
      PROVE  StillFirst'
  <2>1. c \in Requests /\ c \in Handlers /\ c \notin Prompts /\ c \notin Reviews /\ c \notin Flows \X Slots
    BY DEF Requests, Handlers
  <2> QED
    BY <1>1, <1>2, <1>3, <1>4, <2>1 DEF Untouched, ReadEarly, NeedsCleanup, Requests, Handlers
<1>14. ASSUME NEW r \in Reviews, NEW t, ReadEarly(t), t.stage # "approved",
              NEW a \in {"begun", "failed"},
              tx' = [tx EXCEPT ![r] = t], req' = [req EXCEPT ![r] = a], row' = row,
              UNCHANGED <<wireVars, workVars, inbox, lock, link>>
       PROVE  StillFirst'
  <2>1. r \in Requests /\ r \in Handlers /\ r \notin Prompts /\ r \notin Closers /\ r \notin Flows \X Slots
    BY DEF Requests, Handlers
  <2> QED
    BY <1>1, <1>2, <1>3, <1>14, <2>1 DEF Untouched, NeedsCleanup, Requests, Handlers
<1>5. ~\E p \in Prompts : AcceptPrompt(p)
  BY <1>1 DEF AcceptPrompt, Untouched, Promptable
<1>6. ASSUME NEW c \in Closers, BeginClose(c) \/ CloseStep(c)
      PROVE  StillFirst'
  <2>1. Rows!NoTx.seen.status = "CREATED"
    BY DEF Rows!NoTx, Rows!Created
  <2>2. CASE BeginClose(c)
    <3>1. row.status = "CREATED"
      BY <1>1, <2>2 DEF BeginClose, Rows!BeginClose, Untouched
    <3> QED
      <4> DEFINE t == [Rows!NoTx EXCEPT !.stage = "closing", !.seen = row]
      <4>1. t.seen.status = "CREATED"
        BY <3>1 DEF Rows!NoTx
      <4>2. tx' = [tx EXCEPT ![c] = t] /\ req' = [req EXCEPT ![c] = "begun"] /\ row' = row
              /\ UNCHANGED <<wireVars, workVars, inbox, lock, link>>
        BY <2>2 DEF BeginClose, Rows!BeginClose, faultVars
      <4> HIDE DEF t
      <4> QED
        BY <1>4, <3>1, <4>1, <4>2
  <2>3. CASE CommitClose(c)
    <3>1. tx' = [tx EXCEPT ![c] = Rows!NoTx] /\ req' = [req EXCEPT ![c] = "untold"] /\ row'.status = "CLOSED"
            /\ UNCHANGED <<wireVars, workVars, inbox, lock, link>>
      BY <1>1, <2>3 DEF CommitClose, Rows!CommitClose, Untouched, faultVars
    <3> QED
      BY <1>4, <2>1, <3>1
  <2>4. flow[c].at = "idle" /\ req[c] \in {"idle", "begun", "untold"} /\ ~NeedsCleanup(c)
        /\ ~Receive(c)
    BY <1>0, <1>1 DEF Untouched, Receive, Requests
  <2> QED
    BY <1>6, <2>2, <2>3, <2>4
    DEF CloseStep, RouteClose, FailClose, Enqueue, CleanUp, FailCleanUp, RefuseClosed, EndClose, Finish, At
<1>7. ASSUME NEW r \in Reviews, BeginReview(r) \/ ReviewStep(r)
      PROVE  StillFirst'
  <2>1. Rows!NoTx.seen.status = "CREATED" /\ Rows!NoTx.stage = "idle"
    BY DEF Rows!NoTx, Rows!Created
  <2>2. CASE BeginReview(r)
    <3> DEFINE t == [Rows!NoTx EXCEPT !.stage = "reviewing", !.seen = row]
    <3>1. t.seen = row /\ t.stage = "reviewing"
      BY DEF Rows!NoTx
    <3>2. tx' = [tx EXCEPT ![r] = t] /\ req' = [req EXCEPT ![r] = "begun"] /\ row' = row
            /\ UNCHANGED <<wireVars, workVars, inbox, lock, link>>
      BY <2>2 DEF BeginReview, Rows!BeginReview, faultVars
    <3> HIDE DEF t
    <3>3. ReadEarly(t) /\ t.stage # "approved"
      BY <1>1, <3>1 DEF Untouched, ReadEarly
    <3> QED
      BY <1>14, <3>2, <3>3
  <2>3. CASE RefuseReview(r)
    <3>1. tx' = [tx EXCEPT ![r] = Rows!NoTx] /\ req' = [req EXCEPT ![r] = "failed"] /\ row' = row
            /\ UNCHANGED <<wireVars, workVars, inbox, lock, link>>
      BY <2>3 DEF RefuseReview, Rows!RefuseReview, faultVars
    <3>2. ReadEarly(Rows!NoTx) /\ Rows!NoTx.stage # "approved"
      BY <2>1 DEF ReadEarly
    <3> QED
      BY <1>14, <3>1, <3>2
  <2>4. /\ flow[r].at = "idle" /\ req[r] \in {"idle", "begun", "failed"} /\ tx[r].stage # "approved"
        /\ tx[r].seen.status # "AWAITING_PM_VALIDATION" /\ ~Receive(r)
    BY <1>0, <1>1 DEF Untouched, ReadEarly, Receive, Requests, Handlers
  <2> QED
    BY <1>7, <2>2, <2>3, <2>4
    DEF ReviewStep, ApproveReview, Rows!ApproveReview, Rows!MayReview, RoutePush, OpenPullRequest,
        FailReview, Rows!AbortReview, CommitReview, Enqueue, PushBranch, FailPush, EndPush, Finish, At
<1>8. ASSUME NEW p \in Prompts
      PROVE  ~PromptStep(p)
  <2>1. flow[p].at = "idle" /\ req[p] = "idle" /\ ~Receive(p)
    BY <1>0, <1>1 DEF Untouched, Receive, Requests
  <2> QED
    BY <2>1
    DEF PromptStep, RoutePrompt, ReceivePrompt, RunHarness, HarnessSucceeds, HarnessFails, RunChecks,
        GiveUpRepair, BreakPrompt, DropPrompt, EndPrompt, At
<1>9. ~RecoveryStep /\ ~Restart
  <2>1. flow["recovery"].at = "idle"
    BY <1>0, <1>1 DEF Untouched
  <2> QED
    BY <1>1, <2>1
    DEF RecoveryStep, LoadRegistry, RebuildPreview, FailRecovery, EndRecovery, AbandonRecovery, Restart, At
<1>10. CASE Drop \/ Reconnect
  <2>1. UNCHANGED <<rowVars, wireVars, workVars, lock>> /\ link' \in {"online", "offline"} /\ inbox' \in {inbox, <<>>}
    BY <1>10 DEF Drop, Reconnect
  <2>2. \A q \in Requests : req'[q] = req[q]
    BY <1>1, <1>2, <1>10 DEF Drop, Reconnect, Silence, Untouched, Requests, apiVars
  <2> QED
    BY <1>0, <1>1, <2>1, <2>2
    DEF Untouched, Unsettled, NeedsCleanup, rowVars, wireVars, workVars, At, StillFirst, Requests
\* The moment the first event is settled.
<1>15. ASSUME flow'["prepare"].at = "connecting", flow'["prepare"].ack \in {"ok", "rejected"},
              \A f \in Flows \ {"prepare"} : flow'[f] = flow[f],
              UNCHANGED <<workspace, link, lock, req>>, inbox' = <<>>
       PROVE  StillFirst'
  BY <1>0, <1>1, <1>15 DEF Untouched, StillFirst, Requests
<1>11. ASSUME NEW f \in Flows, NEW s \in Slots, EventStep(f, s)
       PROVE  StillFirst'
  <2>1. net[<<f, s>>] # NoEvent \/ tx[<<f, s>>].stage # "idle"
    BY <1>11
    DEF EventStep, ReadEvent, ReadLatestRun, CommitEvent, RejectEvent, LoseEvent,
        Rows!ReadLatestRun, Rows!CommitEvent, Rows!RejectEvent
  <2>2. f = "prepare" /\ flow[f].at = "connecting" /\ flow[f].ack = "pending" /\ flow[f].slot = s
        /\ inbox = <<>>
    BY <1>1, <2>1 DEF Untouched, Unsettled, At
  <2>3. CASE ReadEvent(f, s) \/ ReadLatestRun(f, s)
    <3>1. /\ UNCHANGED <<row, flow, workVars, link, inbox, lock, req>>
          /\ net' = [net EXCEPT ![<<f, s>>] = NoEvent] \/ net' = net
          /\ \E t : ReadEarly(t) /\ tx' = [tx EXCEPT ![<<f, s>>] = t]
      <4>1. CASE ReadEvent(f, s)
        <5> DEFINE t(stage) == [stage |-> stage, event |-> net[<<f, s>>], seen |-> row, latest |-> "none"]
        <5>1. \A stage : ReadEarly(t(stage))
          BY <1>1 DEF Untouched, ReadEarly
        <5>2. \E stage : tx' = [tx EXCEPT ![<<f, s>>] = t(stage)]
          BY <4>1 DEF ReadEvent, Rows!ReadForEvent
        <5> HIDE DEF t
        <5> QED
          BY <4>1, <5>1, <5>2 DEF ReadEvent, Rows!ReadForEvent, apiVars, faultVars
      <4>2. CASE ReadLatestRun(f, s)
        <5> DEFINE t == [stage |-> "applying", event |-> tx[<<f, s>>].event, seen |-> tx[<<f, s>>].seen,
                         latest |-> latestRun]
        <5>1. ReadEarly(t)
          BY <1>1 DEF Untouched, ReadEarly, Handlers
        <5>2. tx' = [tx EXCEPT ![<<f, s>>] = t]
          BY <4>2 DEF ReadLatestRun, Rows!ReadLatestRun
        <5> HIDE DEF t
        <5> QED
          BY <4>2, <5>1, <5>2 DEF ReadLatestRun, Rows!ReadLatestRun, apiVars, faultVars, wireVars
      <4> QED
        BY <2>3, <4>1, <4>2
    <3>2. PICK t : ReadEarly(t) /\ tx' = [tx EXCEPT ![<<f, s>>] = t]
      BY <3>1
    <3>3. /\ \A h \in Handlers : ReadEarly(tx'[h])
          /\ \A h \in Handlers : h # <<f, s>> => tx'[h] = tx[h]
          /\ \A h \in Flows \X Slots : h # <<f, s>> => net'[h] = net[h]
          /\ \A q \in Closers \cup Reviews : tx'[q] = tx[q]
      <4>1. <<f, s>> \in Handlers /\ \A q \in Closers \cup Reviews : q # <<f, s>> /\ q \in Handlers
        BY DEF Handlers
      <4> QED
        BY <1>1, <1>2, <3>1, <3>2, <4>1 DEF Untouched, WireTypeOK
    <3>4. (Unsettled /\ Untouched)'
      <4>1. \A g \in Flows, z \in Slots : <<g, z>> \in Flows \X Slots /\ <<g, z>> \in Handlers
        BY DEF Handlers
      <4> QED
        BY <1>0, <1>1, <2>2, <3>1, <3>3, <4>1 DEF Untouched, Unsettled, At, NeedsCleanup, workVars
    <3> QED
      BY <1>0, <1>1, <2>2, <3>1, <3>4 DEF StillFirst, Untouched, workVars, Requests
  <2>4. CASE CommitEvent(f, s) \/ RejectEvent(f, s) \/ LoseEvent(f, s)
    BY <1>0, <1>2, <1>15, <2>2, <2>4
    DEF CommitEvent, RejectEvent, LoseEvent, Acknowledge, Unanswered, WireTypeOK, apiVars, faultVars, workVars
  <2> QED
    BY <1>11, <2>2, <2>3, <2>4 DEF EventStep
<1>12. ASSUME NEW f \in Flows, Timeout(f)
       PROVE  StillFirst'
  <2>1. f = "prepare" /\ At("prepare", "connecting", {"pending"}) /\ inbox = <<>>
    BY <1>1, <1>12 DEF Timeout, Untouched, Unsettled, At, PrepareGoesFirst, PreparePlaces
  <2> QED
    BY <1>0, <1>2, <1>12, <1>15, <2>1 DEF Timeout, Unanswered, At, WireTypeOK, apiVars, workVars
<1>13. CASE PrepareStep
  <2>1. ReceivePrepare
    <3>1. \A loc, acks : At("prepare", loc, acks) /\ acks \subseteq {"idle", "ok", "rejected"} => loc = "idle"
      BY DEF At, Unsettled
    <3> QED
      BY <1>13, <3>1
      DEF PrepareStep, QueuePrepare, BeginPrepare, CreateWorktree, StartSandbox, OpenPreview, FailPrepare,
          ReportPrepare, EndPrepare
  <2>2. flow["prepare"].at = "idle" /\ inbox' = <<>>
    <3>1. Tail(<<"prepare">>) = <<>>
      OBVIOUS
    <3> QED
      BY <1>1, <2>1, <3>1 DEF ReceivePrepare, Receive, Untouched
  <2>3. CASE link = "online"
    <3>1. /\ flow'["prepare"].at = "connecting" /\ flow'["prepare"].ack = "pending"
          /\ flow'["prepare"].slot = flow["prepare"].slot
          /\ \A g \in Flows \ {"prepare"} : flow'[g] = flow[g]
          /\ \A g \in Flows, z \in Slots : <<g, z>> # <<"prepare", flow["prepare"].slot>> => net'[<<g, z>>] = net[<<g, z>>]
          /\ UNCHANGED <<rowVars, workVars, apiVars, lock, link>>
      BY <1>0, <1>2, <2>1, <2>3 DEF ReceivePrepare, Emit, WireTypeOK, faultVars
    <3>2. (Unsettled /\ Untouched)'
      BY <1>0, <1>1, <2>2, <3>1 DEF Unsettled, Untouched, At, NeedsCleanup, rowVars, workVars, apiVars
    <3> QED
      BY <1>0, <1>1, <2>2, <3>1, <3>2 DEF StillFirst, Untouched, workVars, apiVars, Requests
  <2>4. CASE link # "online"
    BY <1>0, <1>2, <1>15, <2>1, <2>2, <2>4
    DEF ReceivePrepare, Emit, Unanswered, WireTypeOK, workVars, apiVars, faultVars
  <2> QED
    BY <2>3, <2>4
<1> QED
  BY <1>5, <1>6, <1>7, <1>8, <1>9, <1>10, <1>11, <1>12, <1>13 DEF Next, Request, Fault

\* Afterwards the preparation keeps its place, and what is cleaned up stays so.
LEMMA SettledStep ==
  ASSUME Typed, PrepareGoesFirst, faults.crashes = 0, ~Unsettled, Next, ~Crash
  PROVE  StartedOnce' /\ ~Unsettled' /\ FirstInLine' /\ CleanedAfter'
<1> USE DistinctNames DEF Requests
<1> DEFINE Others == Closers \cup Reviews
<1>0. /\ "prepare" \in Flows /\ "recovery" \in Flows
      /\ Prompts \subseteq Flows /\ Closers \subseteq Flows /\ Reviews \subseteq Flows
  BY DEF Flows
<1>1. /\ WireTypeOK /\ inbox \in Seq(Requests \cup {"prepare"}) /\ lock \in Seq(Others \cup {"prepare"})
      /\ req \in [Requests -> {"idle", "begun", "sent", "silent", "accepted", "rejected",
                               "opened", "done", "untold", "failed"}]
  BY DEF Typed, QueueTypeOK, ApiTypeOK
<1>2. /\ PreparePlaces /\ StartedOnce /\ FirstInLine /\ CleanedAfter
      /\ flow["prepare"].at # "idle"
      /\ flow["prepare"].at = "connecting" => flow["prepare"].ack \in {"ok", "rejected"}
  BY <1>0, <1>1 DEF PrepareGoesFirst, Unsettled, PreparePlaces, At, WireTypeOK
\* The inbox gets no preparation.
<1>3. \A i \in 1..Len(inbox) : inbox[i] # "prepare"
  BY <1>2 DEF StartedOnce
<1>4. ASSUME inbox' = inbox \/ inbox' = <<>> \/ (inbox # <<>> /\ inbox' = Tail(inbox))
               \/ \E q \in Requests : inbox' = Append(inbox, q)
      PROVE  \A i \in 1..Len(inbox)' : inbox'[i] # "prepare"
  <2>1. ASSUME NEW S, NEW z \in Seq(S), NEW e \in S, e # "prepare", \A i \in 1..Len(z) : z[i] # "prepare"
        PROVE  \A i \in 1..Len(Append(z, e)) : Append(z, e)[i] # "prepare"
    BY <2>1
  <2>2. ASSUME NEW S, NEW z \in Seq(S), z # <<>>, \A i \in 1..Len(z) : z[i] # "prepare"
        PROVE  \A i \in 1..Len(Tail(z)) : Tail(z)[i] # "prepare"
    BY <2>2
  <2>3. CASE \E q \in Requests : inbox' = Append(inbox, q)
    BY <1>1, <1>3, <2>1, <2>3
  <2>4. CASE inbox # <<>> /\ inbox' = Tail(inbox)
    BY <1>1, <1>3, <2>2, <2>4
  <2>5. CASE inbox' = inbox \/ inbox' = <<>>
    BY <1>3, <2>5
  <2> QED
    BY <1>4, <2>3, <2>4, <2>5
\* What leaves the preparation, the clean-ups, the lock and the workspace alone.
<1>5. ASSUME flow'["prepare"].at = flow["prepare"].at,
             flow["prepare"].at = "connecting" => flow'["prepare"].ack = flow["prepare"].ack,
             flow'["recovery"].at = flow["recovery"].at,
             \A q \in Others : flow'[q].at = flow[q].at,
             \A c \in Closers : req'[c] \in {"accepted", "done"} => req[c] \in {"accepted", "done"},
             UNCHANGED <<workspace, lock>>, link' # "down",
             \A i \in 1..Len(inbox)' : inbox'[i] # "prepare"
      PROVE  StartedOnce' /\ ~Unsettled' /\ FirstInLine' /\ CleanedAfter'
  BY <1>2, <1>5 DEF StartedOnce, Unsettled, FirstInLine, CleanedAfter, Past, At, Holds
<1>6. CASE Request
  BY <1>0, <1>1, <1>2, <1>4, <1>5, <1>6
  DEF Request, AcceptPrompt, BeginClose, BeginReview, wireVars, workVars, faultVars, StartedOnce
<1>7. CASE \E f \in Flows : Timeout(f) \/ \E s \in Slots : EventStep(f, s)
  <2>1. \A g \in Flows : flow'[g].at = flow[g].at
    BY <1>1, <1>7, EventsMoveNobody
  <2>3. ASSUME flow["prepare"].ack # "pending"
        PROVE  flow'["prepare"].ack = flow["prepare"].ack
    <3>1. CASE \E f \in Flows : Timeout(f)
      BY <1>0, <1>1, <2>3, <3>1 DEF Timeout, WireTypeOK
    <3>2. CASE \E f \in Flows, s \in Slots : EventStep(f, s)
      BY <1>0, <1>1, <2>3, <3>2
      DEF EventStep, ReadEvent, ReadLatestRun, CommitEvent, RejectEvent, LoseEvent, Acknowledge,
          wireVars, WireTypeOK
    <3> QED
      BY <1>7, <3>1, <3>2
  <2>2. UNCHANGED <<req, inbox, lock, workspace, link>>
    BY <1>7 DEF EventStep, ReadEvent, ReadLatestRun, CommitEvent, RejectEvent, LoseEvent, Timeout,
                apiVars, workVars, faultVars
  <2> QED
    BY <1>0, <1>2, <1>4, <1>5, <2>1, <2>2, <2>3 DEF StartedOnce
<1>8. CASE Drop \/ Reconnect
  <2>1. \A q \in Requests : req'[q] \in {"accepted", "done"} => req[q] \in {"accepted", "done"}
    BY <1>8 DEF Drop, Reconnect, Silence, apiVars
  <2> QED
    BY <1>0, <1>2, <1>4, <1>5, <1>8, <2>1 DEF Drop, Reconnect, wireVars, workVars
<1>9. ~RecoveryStep /\ ~Restart
  BY <1>2
  DEF StartedOnce, RecoveryStep, LoadRegistry, RebuildPreview, FailRecovery, EndRecovery, AbandonRecovery,
      Restart, At
<1>10. ASSUME NEW p \in Prompts, PromptStep(p)
       PROVE  StartedOnce' /\ ~Unsettled' /\ FirstInLine' /\ CleanedAfter'
  <2>1. p \in Flows /\ p \in Requests /\ p \notin Others /\ p # "prepare" /\ p # "recovery"
    BY <1>0
  <2>2. CASE RoutePrompt(p)
    <3>1. \A c \in Closers : req'[c] = req[c]
      BY <1>1, <2>1, <2>2 DEF RoutePrompt, Send
    <3> QED
      BY <1>2, <1>4, <1>5, <2>1, <2>2, <3>1 DEF RoutePrompt, Send, wireVars, workVars, faultVars, StartedOnce
  <2>3. CASE ~RoutePrompt(p)
    <3>1. ASSUME NEW f \in Flows, f # p
          PROVE  flow'[f] = flow[f]
      <4>1. CASE HarnessSucceeds(p) \/ RunHarness(p)
        BY <1>1, <3>1, <2>1, <4>1, OtherFlows DEF RunHarness, HarnessSucceeds
      <4> QED
        BY <1>1, <1>10, <3>1, <2>1, <2>3, <4>1, OtherFlows
        DEF PromptStep, ReceivePrompt, HarnessFails, RunChecks, GiveUpRepair, BreakPrompt, DropPrompt, EndPrompt
    <3>2. UNCHANGED <<req, workspace, lock, link>>
      BY <1>10, <2>3
      DEF PromptStep, ReceivePrompt, RunHarness, HarnessSucceeds, HarnessFails, RunChecks,
          GiveUpRepair, BreakPrompt, DropPrompt, EndPrompt, apiVars, workVars, faultVars
    <3>3. inbox' = inbox \/ (inbox # <<>> /\ inbox' = Tail(inbox))
      BY <1>10, <2>3
      DEF PromptStep, ReceivePrompt, Receive, RunHarness, HarnessSucceeds, HarnessFails, RunChecks,
          GiveUpRepair, BreakPrompt, DropPrompt, EndPrompt
    <3> QED
      BY <1>0, <1>2, <1>4, <1>5, <2>1, <3>1, <3>2, <3>3 DEF StartedOnce
  <2> QED
    BY <2>2, <2>3
<1>11. CASE PrepareStep
  <2>1. ~ReceivePrepare
    BY <1>1, <1>3 DEF ReceivePrepare, Receive
  <2>2. /\ \A q \in Others : flow'[q] = flow[q]
        /\ flow'["recovery"] = flow["recovery"]
        /\ UNCHANGED <<req, link, inbox>>
    BY <1>0, <1>1, <1>11, <2>1, OtherFlows
    DEF PrepareStep, QueuePrepare, BeginPrepare, CreateWorktree, StartSandbox, OpenPreview, FailPrepare,
        ReportPrepare, EndPrepare, apiVars, faultVars
  <2>3. StartedOnce'
    BY <1>2, <1>3, <1>11, <2>1, <2>2
    DEF PrepareStep, QueuePrepare, BeginPrepare, CreateWorktree, StartSandbox, OpenPreview, FailPrepare,
        ReportPrepare, EndPrepare, workVars, StartedOnce
  <2>4. CASE QueuePrepare
    <3>1. lock' = <<"prepare">> /\ flow'["prepare"].at = "queued" /\ workspace' = workspace
      BY <1>0, <1>1, <1>2, <2>4 DEF QueuePrepare, Goto, FirstInLine, WireTypeOK, workVars
    <3>2. ~Past /\ \A q \in Others : flow[q].at = "idle"
      BY <1>2, <2>4 DEF QueuePrepare, FirstInLine, Past, At
    <3> QED
      BY <1>2, <2>2, <2>3, <3>1, <3>2 DEF Unsettled, FirstInLine, CleanedAfter, Holds, At
  <2>5. CASE BeginPrepare \/ CreateWorktree \/ StartSandbox
    <3>1. flow'["prepare"].at \in {"worktree", "sandbox", "preview"} /\ lock' = lock
      BY <1>0, <1>1, <2>5 DEF BeginPrepare, CreateWorktree, StartSandbox, Emit, WireTypeOK
    <3>2. flow["prepare"].at \in {"queued", "worktree", "sandbox"} /\ ~Past
      BY <2>5 DEF BeginPrepare, CreateWorktree, StartSandbox, Past, At
    <3> QED
      BY <1>2, <2>2, <2>3, <3>1, <3>2 DEF Unsettled, FirstInLine, CleanedAfter, Holds, At
  <2>6. CASE OpenPreview \/ FailPrepare
    <3>1. flow'["prepare"].at \in {"ready", "failing"}
      BY <1>0, <1>1, <2>6 DEF OpenPreview, FailPrepare, Emit, WireTypeOK
    <3>2. ~Past
      BY <2>6 DEF OpenPreview, FailPrepare, Past, At
    <3> QED
      BY <1>2, <2>2, <2>3, <3>1, <3>2 DEF Unsettled, FirstInLine, CleanedAfter, At
  <2>7. CASE ReportPrepare \/ EndPrepare
    <3>1. flow'["prepare"].at \in {"failing", "done"} /\ workspace' = workspace
      BY <1>0, <1>1, <2>7 DEF ReportPrepare, EndPrepare, Emit, Goto, WireTypeOK, workVars
    <3> QED
      BY <1>2, <2>2, <2>3, <3>1 DEF Unsettled, FirstInLine, CleanedAfter, Past, At
  <2> QED
    BY <1>11, <2>1, <2>4, <2>5, <2>6, <2>7 DEF PrepareStep
<1>12. ASSUME NEW q \in Others, (q \in Closers /\ CloseStep(q)) \/ (q \in Reviews /\ ReviewStep(q))
       PROVE  StartedOnce' /\ ~Unsettled' /\ FirstInLine' /\ CleanedAfter'
  <2>1. q \in Flows /\ q \in Requests /\ q # "prepare" /\ q # "recovery"
    BY <1>0
  <2>2. CASE \/ q \in Closers /\ (RouteClose(q) \/ CommitClose(q) \/ FailClose(q))
             \/ q \in Reviews /\ (\/ ApproveReview(q) \/ RefuseReview(q) \/ RoutePush(q)
                                  \/ OpenPullRequest(q) \/ FailReview(q) \/ CommitReview(q))
    <3>1. /\ UNCHANGED <<flow, workspace, lock, link>>
          /\ inbox' = inbox \/ \E r \in Requests : inbox' = Append(inbox, r)
      BY <2>1, <2>2
      DEF RouteClose, RoutePush, CommitClose, FailClose, ApproveReview, RefuseReview, OpenPullRequest,
          FailReview, CommitReview, Send, wireVars, workVars, faultVars
    <3>2. ASSUME NEW c \in Closers, req'[c] \in {"accepted", "done"}
          PROVE  req[c] \in {"accepted", "done"}
      <4>1. CASE CommitClose(q)
        BY <1>1, <2>1, <3>2, <4>1 DEF CommitClose, MayCommitClose
      <4>2. CASE FailClose(q) \/ RouteClose(q)
        BY <1>1, <2>1, <3>2, <4>2 DEF FailClose, RouteClose, Send
      <4>3. CASE q \in Reviews
        BY <1>1, <2>1, <2>2, <3>2, <4>3
        DEF RoutePush, ApproveReview, RefuseReview, OpenPullRequest, FailReview, CommitReview, Send, apiVars
      <4> QED
        BY <2>2, <4>1, <4>2, <4>3
    <3> QED
      BY <1>2, <1>4, <1>5, <3>1, <3>2 DEF StartedOnce
  <2>3. CASE Enqueue(q)
    <3>1. ~At("prepare", "connecting", {"ok"})
      BY <2>3 DEF Enqueue
    <3>2. /\ flow'[q].at = "queued" /\ lock' = Append(lock, q) /\ UNCHANGED <<workspace, link, req>>
          /\ inbox # <<>> /\ inbox' = Tail(inbox)
      BY <1>1, <2>1, <2>3 DEF Enqueue, Receive, Goto, WireTypeOK, workVars, faultVars, apiVars
    <3>3. \A g \in Flows \ {q} : flow'[g] = flow[g]
      BY <1>1, <2>1, <2>3, OtherFlows DEF Enqueue
    <3>4. Holds("prepare") => Holds("prepare")'
      BY <1>1, <3>2 DEF Holds
    <3> QED
      BY <1>0, <1>2, <1>4, <2>1, <3>1, <3>2, <3>3, <3>4
      DEF StartedOnce, Unsettled, FirstInLine, CleanedAfter, Past, At
  <2>4. CASE (q \in Closers /\ (CleanUp(q) \/ FailCleanUp(q))) \/ (q \in Reviews /\ (PushBranch(q) \/ FailPush(q)))
    <3>1. Holds(q) /\ UNCHANGED <<link, inbox>>
      BY <2>4 DEF CleanUp, FailCleanUp, PushBranch, FailPush, faultVars
    <3>2. \A g \in Flows \ {q} : flow'[g] = flow[g]
      BY <1>1, <2>1, <2>4, OtherFlows DEF CleanUp, FailCleanUp, PushBranch, FailPush
    <3>3. Past
      BY <1>2, <2>1, <3>1 DEF FirstInLine, PreparePlaces, Past, At, Holds
    <3>4. \A c \in Closers : req'[c] = req[c]
      BY <1>1, <2>1, <2>4 DEF CleanUp, FailCleanUp, PushBranch, FailPush, Answer, apiVars
    <3>5. CASE CleanUp(q)
      BY <1>0, <1>2, <1>3, <2>1, <3>1, <3>2, <3>3, <3>5
      DEF CleanUp, StartedOnce, Unsettled, FirstInLine, CleanedAfter, Past, At
    <3>6. CASE ~CleanUp(q)
      <4>1. workspace' = workspace /\ flow'[q].at # "closed"
        BY <1>1, <2>1, <2>4, <3>6 DEF FailCleanUp, PushBranch, FailPush, Emit, Goto, WireTypeOK, workVars
      <4> QED
        BY <1>0, <1>2, <1>3, <2>1, <3>1, <3>2, <3>3, <3>4, <4>1
        DEF StartedOnce, Unsettled, FirstInLine, CleanedAfter, Past, At
    <3> QED
      BY <3>5, <3>6
  <2>5. CASE (q \in Closers /\ (RefuseClosed(q) \/ EndClose(q))) \/ (q \in Reviews /\ EndPush(q))
    <3>1. UNCHANGED <<link, inbox, lock, workspace>>
      BY <2>5 DEF RefuseClosed, EndClose, EndPush, Finish, workVars, faultVars
    <3>2. \A g \in Flows \ {q} : flow'[g] = flow[g]
      BY <1>1, <2>1, <2>5, OtherFlows DEF RefuseClosed, EndClose, EndPush, Finish
    <3>3. flow[q].at \in {"closed", "failing"} /\ flow'[q].at \in {"failing", "done"}
      BY <1>1, <2>1, <2>5 DEF RefuseClosed, EndClose, EndPush, Finish, Emit, Goto, WireTypeOK, At
    <3>4. \A c \in Closers : req'[c] \in {"accepted", "done"} => req[c] \in {"accepted", "done"} \/ flow[c].at = "closed"
      BY <1>1, <2>1, <2>5 DEF RefuseClosed, EndClose, EndPush, Finish, Answer, apiVars, At
    <3>5. Past \/ ~(flow["prepare"].at \in {"queued", "worktree", "sandbox", "preview"}
                     \/ At("prepare", "connecting", {"ok"}))
      BY <1>2, <3>3 DEF FirstInLine
    <3> QED
      BY <1>0, <1>2, <1>3, <2>1, <3>1, <3>2, <3>3, <3>4, <3>5
      DEF StartedOnce, Unsettled, FirstInLine, CleanedAfter, Past, At
  <2> QED
    BY <1>12, <2>2, <2>3, <2>4, <2>5 DEF CloseStep, ReviewStep
<1> QED
  BY <1>6, <1>7, <1>8, <1>9, <1>10, <1>11, <1>12 DEF Next, Fault

\* A preparation is always at one of its places.
LEMMA PlacesStep ==
  ASSUME WireTypeOK, PreparePlaces, [Next]_vars
  PROVE  PreparePlaces'
<1> USE DistinctNames DEF Requests
<1>0. "prepare" \in Flows /\ Prompts \subseteq Flows /\ Closers \subseteq Flows /\ Reviews \subseteq Flows
      /\ "recovery" \in Flows /\ "recovery" # "prepare"
  BY DEF Flows
<1>1. ASSUME flow'["prepare"] = flow["prepare"]
      PROVE  PreparePlaces'
  BY <1>1 DEF PreparePlaces
<1>2. CASE UNCHANGED flow
  BY <1>1, <1>2
<1>3. CASE Request \/ UNCHANGED vars
  BY <1>2, <1>3 DEF Request, AcceptPrompt, BeginClose, BeginReview, wireVars, vars
<1>4. ASSUME NEW f \in Flows, Timeout(f)
      PROVE  PreparePlaces'
  BY <1>0, <1>4 DEF PreparePlaces, Timeout, WireTypeOK, Unanswered
<1>5. ASSUME NEW f \in Flows, NEW s \in Slots, EventStep(f, s)
      PROVE  PreparePlaces'
  BY <1>0, <1>2, <1>5
  DEF PreparePlaces, EventStep, ReadEvent, ReadLatestRun, CommitEvent, RejectEvent, LoseEvent, Acknowledge,
      WireTypeOK, Unanswered, wireVars
<1>6. CASE PrepareStep
  <2>1. ASSUME NEW loc \in {"connecting", "worktree", "sandbox", "preview", "ready", "failing"}, NEW e,
               Emit("prepare", loc, e)
        PROVE  PreparePlaces'
    BY <1>0, <2>1 DEF Emit, PreparePlaces, WireTypeOK, Unanswered
  <2>2. ASSUME NEW loc \in {"queued", "done"}, Goto("prepare", loc)
        PROVE  PreparePlaces'
    BY <1>0, <2>2 DEF Goto, PreparePlaces, WireTypeOK
  <2> QED
    BY <1>6, <2>1, <2>2
    DEF PrepareStep, ReceivePrepare, QueuePrepare, BeginPrepare, CreateWorktree, StartSandbox, OpenPreview,
        FailPrepare, ReportPrepare, EndPrepare
<1>7. ASSUME NEW p \in Prompts, PromptStep(p)
      PROVE  PreparePlaces'
  <2>1. CASE RunHarness(p) \/ HarnessSucceeds(p)
    BY <1>0, <1>1, <2>1, OtherFlows DEF RunHarness, HarnessSucceeds
  <2> QED
    BY <1>0, <1>1, <1>2, <1>7, <2>1, OtherFlows
    DEF PromptStep, RoutePrompt, ReceivePrompt, HarnessFails, RunChecks, GiveUpRepair, BreakPrompt, DropPrompt,
        EndPrompt, wireVars
<1>8. ASSUME NEW c \in Closers, CloseStep(c)
      PROVE  PreparePlaces'
  BY <1>0, <1>1, <1>2, <1>8, OtherFlows
  DEF CloseStep, RouteClose, CommitClose, FailClose, Enqueue, CleanUp, FailCleanUp, RefuseClosed, EndClose,
      Finish, wireVars
<1>9. ASSUME NEW r \in Reviews, ReviewStep(r)
      PROVE  PreparePlaces'
  BY <1>0, <1>1, <1>2, <1>9, OtherFlows
  DEF ReviewStep, ApproveReview, RefuseReview, RoutePush, OpenPullRequest, FailReview, CommitReview, Enqueue,
      PushBranch, FailPush, EndPush, Finish, wireVars
<1>10. CASE LoadRegistry \/ RebuildPreview \/ FailRecovery \/ EndRecovery \/ Restart
  BY <1>0, <1>1, <1>10, OtherFlows DEF LoadRegistry, RebuildPreview, FailRecovery, EndRecovery, Restart
<1>11. CASE Crash \/ AbandonRecovery
  <2>1. Stop
    BY <1>11 DEF Crash, AbandonRecovery
  <2>2. flow'["prepare"].at \in {"idle", "done"} /\ (flow'["prepare"].at = "idle" => flow'["prepare"] = flow["prepare"])
    BY <1>0, <2>1 DEF Stop, WireTypeOK
  <2> QED
    BY <2>2 DEF PreparePlaces
<1>12. CASE Drop \/ Reconnect
  BY <1>2, <1>12 DEF Drop, Reconnect, wireVars
<1> QED
  BY <1>3, <1>4, <1>5, <1>6, <1>7, <1>8, <1>9, <1>10, <1>11, <1>12 DEF Next, RecoveryStep, Fault

\* Every step keeps the order of the preparation and what comes after it.
LEMMA GoesFirstStep ==
  ASSUME Typed, Rows!TypeOK, PrepareGoesFirst, [Next]_vars
  PROVE  PrepareGoesFirst'
<1>1. PreparePlaces'
  BY PlacesStep DEF Typed, PrepareGoesFirst
<1>2. SUFFICES ASSUME faults'.crashes = 0
               PROVE  (StartedOnce /\ (Unsettled => Untouched) /\ FirstInLine /\ CleanedAfter)'
  BY <1>1 DEF PrepareGoesFirst
<1>3. ~Crash
  BY <1>2 DEF Crash, Typed, FaultTypeOK
<1>4. faults.crashes = 0
  <2>1. Next => faults.crashes = faults'.crashes
    <3>1. CASE Fault \/ RecoveryStep
      BY <1>3, <3>1
      DEF Fault, Restart, Drop, Reconnect, Timeout, RecoveryStep, LoadRegistry, RebuildPreview, FailRecovery,
          EndRecovery, AbandonRecovery, Typed, FaultTypeOK, faultVars
    <3>2. CASE Request \/ PrepareStep
      BY <3>2
      DEF Request, AcceptPrompt, BeginClose, BeginReview, PrepareStep, ReceivePrepare, QueuePrepare,
          BeginPrepare, CreateWorktree, StartSandbox, OpenPreview, FailPrepare, ReportPrepare, EndPrepare, faultVars
    <3>3. CASE \E f \in Flows, s \in Slots : EventStep(f, s)
      BY <3>3 DEF EventStep, ReadEvent, ReadLatestRun, CommitEvent, RejectEvent, LoseEvent, faultVars
    <3>4. CASE \E p \in Prompts : PromptStep(p)
      BY <3>4
      DEF PromptStep, RoutePrompt, ReceivePrompt, RunHarness, HarnessSucceeds, HarnessFails, RunChecks,
          GiveUpRepair, BreakPrompt, DropPrompt, EndPrompt, faultVars
    <3>5. CASE \E c \in Closers : CloseStep(c)
      BY <3>5
      DEF CloseStep, RouteClose, CommitClose, FailClose, Enqueue, CleanUp, FailCleanUp, RefuseClosed, EndClose,
          Finish, faultVars
    <3>6. CASE \E r \in Reviews : ReviewStep(r)
      BY <3>6
      DEF ReviewStep, ApproveReview, RefuseReview, RoutePush, OpenPullRequest, FailReview, CommitReview, Enqueue,
          PushBranch, FailPush, EndPush, Finish, faultVars
    <3> QED
      BY <3>1, <3>2, <3>3, <3>4, <3>5, <3>6 DEF Next
  <2> QED
    BY <1>2, <2>1 DEF vars, faultVars
<1>5. CASE UNCHANGED vars
  BY <1>4, <1>5
  DEF PrepareGoesFirst, vars, rowVars, apiVars, wireVars, workVars, faultVars, StartedOnce, Unsettled, Untouched,
      FirstInLine, CleanedAfter, Past, At, Holds, ReadEarly, NeedsCleanup
<1>6. CASE Next /\ ~Unsettled
  BY <1>3, <1>4, <1>6, SettledStep
<1>7. CASE Next /\ Unsettled
  <2>1. StillFirst'
    BY <1>3, <1>4, <1>7, UntouchedStep
  <2>2. (StartedOnce /\ FirstInLine /\ CleanedAfter)'
    <3>1. /\ Closers \subseteq Flows /\ flow'["prepare"].at \in {"idle", "connecting"}
      BY <2>1 DEF StillFirst, Flows, Unsettled, At
    <3>2. \A i \in 1..Len(<<>>) : FALSE
      OBVIOUS
    <3> QED
      BY <2>1, <3>1, <3>2 DEF StillFirst, StartedOnce, FirstInLine, CleanedAfter, At
  <2>3. (Unsettled => Untouched)'
    BY <2>1 DEF StillFirst, Unsettled, At
  <2> QED
    BY <2>2, <2>3
<1> QED
  BY <1>5, <1>6, <1>7

\* The preparation goes first, always.
LEMMA GoesFirst == Spec => []PrepareGoesFirst
<1>1. Init => PrepareGoesFirst
  <2> SUFFICES ASSUME Init
               PROVE  PrepareGoesFirst
    OBVIOUS
  <2>0. "prepare" \in Flows /\ "recovery" \in Flows /\ Closers \subseteq Requests /\ Closers \subseteq Handlers
        /\ Reviews \subseteq Requests /\ Prompts \subseteq Requests /\ Reviews \subseteq Handlers
        /\ Closers \subseteq Flows /\ \A f \in Flows, s \in Slots : <<f, s>> \in Handlers /\ <<f, s>> \in Flows \X Slots
    BY DEF Flows, Requests, Handlers
  <2>1. \A h \in Handlers : tx[h] = Rows!NoTx
    BY DEF Init, Rows!Init
  <2>2. Rows!NoTx.seen.status = "CREATED" /\ Rows!NoTx.stage = "idle" /\ row.status = "CREATED"
    BY DEF Init, Rows!Init, Rows!NoTx, Rows!Created
  <2>3. PreparePlaces /\ flow["prepare"].at = "idle"
    BY <2>0 DEF Init, PreparePlaces
  <2>4. Untouched
    BY <2>0, <2>1, <2>2, <2>3 DEF Init, Untouched, ReadEarly, NeedsCleanup
  <2>5. StartedOnce /\ FirstInLine /\ CleanedAfter
    BY <2>0, <2>3 DEF Init, StartedOnce, FirstInLine, CleanedAfter, At
  <2> QED
    BY <2>3, <2>4, <2>5 DEF PrepareGoesFirst
<1>2. Typed /\ Rows!TypeOK /\ PrepareGoesFirst /\ [Next]_vars => PrepareGoesFirst'
  BY GoesFirstStep
<1> QED
  BY <1>1, <1>2, Typing, RowsTyping, PTL DEF Spec

\* A close that the agent was asked to clean up for, and that succeeded, leaves no
\* workspace behind, as long as the agent has not crashed: whatever the prompts, the
\* other closes, the reviews, the timeouts and the losses of the connection.
THEOREM ClosesAreClean == Spec => []CleanClose
<1>1. PrepareGoesFirst => CleanClose
  BY DEF PrepareGoesFirst, CleanedAfter, CleanClose
<1> QED
  BY <1>1, GoesFirst, PTL
-----------------------------------------------------------------------------
(***************************************************************************)
(* Why READY means an active workspace: until somebody asks for something, *)
(* the row is written by the events of one flow at a time, of the          *)
(* preparation until a process has died, of the recovery afterwards.       *)
(***************************************************************************)
PrepareEvents == <<"prepare", 1>>
RecoveryEvents == <<"recovery", 1>>

\* Nobody has asked for anything, no acknowledgement was given up and no connection lost.
Quiet ==
  /\ faults.timeouts = 0 /\ faults.drops = 0
  /\ \A q \in Requests : req[q] = "idle"

\* An event handler at work, and the event it handles.
InFlight(h) == net[h] # NoEvent \/ tx[h].stage # "idle"
EventOf(h) == IF net[h] # NoEvent THEN net[h] ELSE tx[h].event

\* The events after which a row may say READY, and those after which it does not.
ReadyEvents == {Event("session.ready", "none"), Event("session.recovered", "none")}
UnreadyEvents == {Progress(s) : s \in Preparing} \cup {Failure}

\* Only the preparation and the recovery are at work, each with one event at a time.
Alone ==
  /\ link # "offline"
  /\ \A q \in Requests : flow[q].at = "idle"
  /\ \A r \in Reviews : tx[r].stage = "idle"
  /\ inbox = <<>> \/ (inbox = <<"prepare">> /\ flow["prepare"].at = "idle")
  /\ \A h \in Flows \X Slots : h \notin {PrepareEvents, RecoveryEvents} => ~InFlight(h)
  /\ flow["prepare"].slot = 1 /\ flow["recovery"].slot = 1

OneInFlight ==
  /\ ~(InFlight(PrepareEvents) /\ InFlight(RecoveryEvents))
  /\ \A h \in {PrepareEvents, RecoveryEvents} :
       /\ ~(net[h] # NoEvent /\ tx[h].stage # "idle")
       /\ tx[h].stage # "idle" => tx[h].seen.status = row.status
       /\ InFlight(h) => EventOf(h) \in ReadyEvents \cup UnreadyEvents

\* A recovery comes after a preparation, and needs a process.
OneAfterTheOther ==
  /\ link = "down" => flow["recovery"].at \in {"idle", "done"}
  /\ link = "down" \/ flow["recovery"].at # "idle" =>
       inbox = <<>> /\ flow["prepare"].at \in {"idle", "done"} /\ flow["prepare"].ack = "idle"

\* What the row and the events on their way to it may say ... of an agent that is down,
FollowedDown ==
  /\ workspace \in {"none", "unloaded"}
  /\ workspace = "none" =>
       /\ row.status # "READY"
       /\ \A h \in {PrepareEvents, RecoveryEvents} : InFlight(h) => EventOf(h) \in UnreadyEvents

\* ... of one that prepares the session, or has,
FollowedPreparing ==
  /\ ~InFlight(RecoveryEvents)
  /\ InFlight(PrepareEvents) =>
       /\ flow["prepare"].ack = "pending"
       /\ EventOf(PrepareEvents) \in UnreadyEvents \/ flow["prepare"].at = "ready"
  /\ flow["prepare"].at \in {"sandbox", "preview", "ready"} => workspace = "active"
  /\ row.status = "READY" =>
       /\ workspace = "active"
       /\ flow["prepare"].at = "done" \/ At("prepare", "ready", {"ok"})

\* ... and of one that recovers it, or has.
FollowedRecovering ==
  /\ ~InFlight(PrepareEvents)
  /\ InFlight(RecoveryEvents) =>
       flow["recovery"].at \in {"recovering", "failing"} /\ flow["recovery"].ack = "pending"
  /\ flow["recovery"].at \in {"loading", "restoring", "recovering", "failing", "done"}
  /\ flow["recovery"].at = "loading" =>
       workspace \in {"none", "unloaded"} /\ (workspace = "none" => row.status # "READY")
  /\ flow["recovery"].at \in {"restoring", "recovering"} => workspace = "active"
  /\ flow["recovery"].at = "failing" =>
       /\ workspace = "stored"
       /\ InFlight(RecoveryEvents) => EventOf(RecoveryEvents) = Failure
       /\ flow["recovery"].ack = "pending" \/ row.status # "READY"
  /\ flow["recovery"].at = "done" => (row.status = "READY" => workspace = "active")

Followed ==
  \/ link = "down" /\ FollowedDown
  \/ link = "online" /\ flow["recovery"].at = "idle" /\ FollowedPreparing
  \/ link = "online" /\ flow["recovery"].at # "idle" /\ FollowedRecovering

\* The inductive invariant.
RowFollowsWorkspace == Quiet => Alone /\ OneInFlight /\ OneAfterTheOther /\ Followed

\* What the rules say of the events of a preparation and of a recovery.
LEMMA UnreadyRules ==
  /\ Failure \in UnreadyEvents
  /\ \A e \in UnreadyEvents : \A status, latest : Rows!NextStatus(status, e, latest) # "READY"
  /\ \A status : Rows!Accepts(status, Failure)
<1>1. \A e \in UnreadyEvents : e = Failure \/ \E s \in Preparing : e = Progress(s)
  BY DEF UnreadyEvents
<1>2. \A status, latest : Rows!NextStatus(status, Failure, latest) = "FAILED"
  BY DEF Rows!NextStatus, Failure, Event
<1>3. \A s, status, latest : Rows!NextStatus(status, Progress(s), latest) = s
  BY DEF Rows!NextStatus, Progress, Event
<1>4. \A status : Rows!Accepts(status, Failure)
  BY DEF Rows!Accepts, Failure, Event
<1>5. "READY" \notin Preparing
  BY DEF Preparing
<1> QED
  BY <1>1, <1>2, <1>3, <1>4, <1>5 DEF UnreadyEvents

\* An event goes on: it is read, ...
Advances(h) ==
  /\ InFlight(h) /\ InFlight(h)' /\ EventOf(h)' = EventOf(h)
  /\ ~(net[h] # NoEvent /\ tx[h].stage # "idle")'
  /\ (tx[h].stage # "idle" => tx[h].seen.status = row.status)'
  /\ UNCHANGED <<row, flow>>

\* ... or settled: applied to the row it was read for, refused by the rules, or
\* lost with the connection.
Settles(h) ==
  /\ InFlight(h) /\ ~InFlight(h)'
  /\ \E f \in Flows, a \in {"ok", "rejected"} :
       /\ h = <<f, 1>> /\ Acknowledge(f, 1, a)
       /\ \/ a = "ok" /\ \E latest : row'.status = Rows!NextStatus(row.status, EventOf(h), latest)
          \/ a = "rejected" /\ row' = row /\ ~Rows!Accepts(row.status, EventOf(h))
          \/ link # "online" /\ row' = row

\* The steps of an event handler are of these two kinds.
LEMMA EventOutcome ==
  ASSUME WireTypeOK, tx \in [Handlers -> Rows!Transaction], OneInFlight,
         NEW f \in {"prepare", "recovery"}, EventStep(f, 1)
  PROVE  /\ Advances(<<f, 1>>) \/ Settles(<<f, 1>>)
         /\ UNCHANGED <<workspace, link, inbox, req, faults>>
         /\ \A h \in Handlers : h # <<f, 1>> => tx'[h] = tx[h]
         /\ \A h \in Flows \X Slots : h # <<f, 1>> => net'[h] = net[h]
<1> DEFINE h == <<f, 1>>
<1>0. f \in Flows /\ h \in Flows \X Slots /\ h \in Handlers /\ h \in {PrepareEvents, RecoveryEvents}
  BY DEF Flows, Slots, Handlers, PrepareEvents, RecoveryEvents
<1>1. /\ ~(net[h] # NoEvent /\ tx[h].stage # "idle")
      /\ tx[h].stage # "idle" => tx[h].seen.status = row.status
  BY <1>0 DEF OneInFlight
<1>2. /\ UNCHANGED <<workspace, link, inbox, req, faults>>
      /\ \A g \in Handlers : g # h => tx'[g] = tx[g]
      /\ \A g \in Flows \X Slots : g # h => net'[g] = net[g]
  BY <1>0
  DEF EventStep, ReadEvent, ReadLatestRun, CommitEvent, RejectEvent, LoseEvent, WireTypeOK,
      Rows!ReadForEvent, Rows!ReadLatestRun, Rows!CommitEvent, Rows!RejectEvent,
      rowVars, apiVars, wireVars, workVars, faultVars
<1>3. ASSUME ReadEvent(f, 1)
      PROVE  Advances(h)
  <2> DEFINE t(stage) == [stage |-> stage, event |-> net[h], seen |-> row, latest |-> "none"]
  <2>1. PICK stage \in {"reading", "applying"} : tx' = [tx EXCEPT ![h] = t(stage)]
    BY <1>3 DEF ReadEvent, Rows!ReadForEvent
  <2>2. tx'[h] = t(stage)
    BY <1>0, <2>1
  <2>3. t(stage).stage # "idle" /\ t(stage).event = net[h] /\ t(stage).seen = row
    OBVIOUS
  <2> HIDE DEF t
  <2>4. net[h] # NoEvent /\ net'[h] = NoEvent /\ UNCHANGED <<row, flow>>
    BY <1>0, <1>3 DEF ReadEvent, Rows!ReadForEvent, WireTypeOK
  <2> QED
    BY <2>2, <2>3, <2>4 DEF Advances, InFlight, EventOf
<1>4. ASSUME ReadLatestRun(f, 1)
      PROVE  Advances(h)
  <2> DEFINE t == [stage |-> "applying", event |-> tx[h].event, seen |-> tx[h].seen, latest |-> latestRun]
  <2>1. tx' = [tx EXCEPT ![h] = t] /\ tx[h].stage = "reading" /\ UNCHANGED <<row, flow, net>>
    BY <1>4 DEF ReadLatestRun, Rows!ReadLatestRun, wireVars
  <2>2. tx'[h] = t
    BY <1>0, <2>1
  <2>3. t.stage # "idle" /\ t.event = tx[h].event /\ t.seen = tx[h].seen
    OBVIOUS
  <2> HIDE DEF t
  <2> QED
    BY <1>1, <2>1, <2>2, <2>3 DEF Advances, InFlight, EventOf
<1>5. Rows!NoTx.stage = "idle"
  BY DEF Rows!NoTx
<1>6. ASSUME CommitEvent(f, 1)
      PROVE  Settles(h)
  <2>1. tx'[h].stage = "idle" /\ net'[h] = net[h] /\ tx[h].stage # "idle" /\ Acknowledge(f, 1, "ok")
    BY <1>0, <1>5, <1>6 DEF CommitEvent, Rows!CommitEvent
  <2>2. row'.status = Rows!NextStatus(tx[h].seen.status, tx[h].event, tx[h].latest)
    BY <1>6 DEF CommitEvent, Rows!CommitEvent, Rows!AppliedRow
  <2> QED
    BY <1>0, <1>1, <2>1, <2>2 DEF Settles, InFlight, EventOf
<1>7. ASSUME RejectEvent(f, 1)
      PROVE  Settles(h)
  <2>1. tx'[h].stage = "idle" /\ net'[h] = net[h] /\ tx[h].stage # "idle" /\ Acknowledge(f, 1, "rejected") /\ row' = row
    BY <1>0, <1>5, <1>7 DEF RejectEvent, Rows!RejectEvent
  <2>2. ~Rows!Accepts(tx[h].seen.status, tx[h].event)
    BY <1>7 DEF RejectEvent, Rows!RejectEvent
  <2> QED
    BY <1>0, <1>1, <2>1, <2>2 DEF Settles, InFlight, EventOf
<1>8. ASSUME LoseEvent(f, 1)
      PROVE  Settles(h)
  <2>1. net[h] # NoEvent /\ net'[h] = NoEvent /\ tx'[h] = tx[h] /\ row' = row /\ link # "online"
    BY <1>0, <1>8 DEF LoseEvent, WireTypeOK, rowVars
  <2>2. \E a \in {"ok", "rejected"} : Acknowledge(f, 1, a)
    BY <1>8 DEF LoseEvent, Unanswered
  <2> QED
    BY <1>0, <1>1, <2>1, <2>2 DEF Settles, InFlight
<1> QED
  BY <1>2, <1>3, <1>4, <1>6, <1>7, <1>8 DEF EventStep

\* A timeout or a loss is counted.
LEMMA NoFurtherFault ==
  ASSUME FaultTypeOK, Quiet'
  PROVE  ~Drop /\ ~\E f \in Flows : Timeout(f)
<1>1. /\ faults \in [timeouts : 0..MaxTimeouts, crashes : 0..MaxCrashes, drops : 0..MaxDrops]
      /\ faults.timeouts + 1 # 0 /\ faults.drops + 1 # 0
  BY BoundsAssumption DEF FaultTypeOK
<1>2. faults'.timeouts = 0 /\ faults'.drops = 0
  BY DEF Quiet
<1>3. ASSUME Drop
      PROVE  FALSE
  BY <1>1, <1>2, <1>3 DEF Drop
<1>4. ASSUME NEW f \in Flows, Timeout(f)
      PROVE  FALSE
  BY <1>1, <1>2, <1>4 DEF Timeout
<1> QED
  BY <1>3, <1>4

\* A request that has begun is never as if it had not, nor are a timeout and a loss.
LEMMA QuietBefore ==
  ASSUME Typed, Next, Quiet'
  PROVE  Quiet
<1> USE DEF Requests
<1>0. /\ req \in [Requests -> {"idle", "begun", "sent", "silent", "accepted", "rejected",
                               "opened", "done", "untold", "failed"}]
      /\ faults \in [timeouts : 0..MaxTimeouts, crashes : 0..MaxCrashes, drops : 0..MaxDrops]
  BY DEF Typed, ApiTypeOK, FaultTypeOK
<1>1. ASSUME UNCHANGED <<req, faults>>
      PROVE  Quiet
  BY <1>1 DEF Quiet
<1>2. ASSUME UNCHANGED faults, NEW q \in Requests, NEW a, a # "idle",
             req' = [req EXCEPT ![q] = a]
      PROVE  Quiet
  BY <1>0, <1>2 DEF Quiet
<1>3. CASE Request
  BY <1>2, <1>3 DEF Request, AcceptPrompt, BeginClose, BeginReview, faultVars
<1>4. CASE PrepareStep \/ \E f \in Flows, s \in Slots : EventStep(f, s)
  BY <1>1, <1>4
  DEF PrepareStep, ReceivePrepare, QueuePrepare, BeginPrepare, CreateWorktree, StartSandbox, OpenPreview,
      FailPrepare, ReportPrepare, EndPrepare, EventStep, ReadEvent, ReadLatestRun, CommitEvent, RejectEvent,
      LoseEvent, apiVars, faultVars
<1>5. ASSUME NEW p \in Prompts, PromptStep(p)
      PROVE  Quiet
  <2>1. CASE RoutePrompt(p)
    BY <1>2, <2>1 DEF RoutePrompt, Send, faultVars
  <2> QED
    BY <1>1, <1>5, <2>1
    DEF PromptStep, ReceivePrompt, RunHarness, HarnessSucceeds, HarnessFails, RunChecks, GiveUpRepair,
        BreakPrompt, DropPrompt, EndPrompt, apiVars, faultVars
<1>6. ASSUME NEW q \in Closers \cup Reviews, Enqueue(q)
      PROVE  Quiet
  BY <1>1, <1>6 DEF Enqueue, apiVars, faultVars
<1>7. ASSUME NEW q \in Requests, NEW a \in {"accepted", "rejected"}, Answer(q, a), UNCHANGED faults
      PROVE  Quiet
  BY <1>1, <1>2, <1>7 DEF Answer
<1>8. ASSUME NEW c \in Closers, CloseStep(c)
      PROVE  Quiet
  <2>1. CASE RouteClose(c) \/ CommitClose(c) \/ FailClose(c)
    BY <1>2, <2>1 DEF RouteClose, CommitClose, FailClose, Send, faultVars
  <2>2. CASE EndClose(c)
    BY <1>7, <2>2 DEF EndClose, Finish, faultVars
  <2> QED
    BY <1>1, <1>6, <1>8, <2>1, <2>2 DEF CloseStep, CleanUp, FailCleanUp, RefuseClosed, apiVars, faultVars
<1>9. ASSUME NEW r \in Reviews, ReviewStep(r)
      PROVE  Quiet
  <2>1. CASE RefuseReview(r) \/ RoutePush(r) \/ OpenPullRequest(r) \/ FailReview(r) \/ CommitReview(r)
    BY <1>2, <2>1 DEF RefuseReview, RoutePush, OpenPullRequest, FailReview, CommitReview, Send, faultVars
  <2>2. CASE PushBranch(r) \/ EndPush(r)
    BY <1>7, <2>2 DEF PushBranch, EndPush, Finish, faultVars
  <2> QED
    BY <1>1, <1>6, <1>9, <2>1, <2>2 DEF ReviewStep, ApproveReview, FailPush, apiVars, faultVars
<1>10. CASE LoadRegistry \/ RebuildPreview \/ FailRecovery \/ EndRecovery \/ Restart \/ Reconnect
  BY <1>1, <1>10 DEF LoadRegistry, RebuildPreview, FailRecovery, EndRecovery, Restart, Reconnect, apiVars, faultVars
<1>11. CASE AbandonRecovery \/ Crash
  <2>1. Stop /\ faults'.timeouts = faults.timeouts /\ faults'.drops = faults.drops
    BY <1>0, <1>11 DEF AbandonRecovery, Crash
  <2> QED
    BY <2>1 DEF Stop, Silence, Quiet
<1>12. ~Drop /\ ~\E f \in Flows : Timeout(f)
  BY NoFurtherFault DEF Typed
<1> QED
  BY <1>3, <1>4, <1>5, <1>8, <1>9, <1>10, <1>11, <1>12 DEF Next, RecoveryStep, Fault

\* While it is quiet only the preparation, the recovery and their events go on.
LEMMA QuietSteps ==
  ASSUME Typed, Quiet, Quiet', Alone, Next
  PROVE  \/ PrepareStep \/ RecoveryStep \/ Crash \/ Restart
         \/ \E f \in {"prepare", "recovery"} : EventStep(f, 1)
<1> USE DistinctNames DEF Requests
<1>0. /\ req \in [Requests -> {"idle", "begun", "sent", "silent", "accepted", "rejected",
                               "opened", "done", "untold", "failed"}]
      /\ faults \in [timeouts : 0..MaxTimeouts, crashes : 0..MaxCrashes, drops : 0..MaxDrops]
  BY DEF Typed, ApiTypeOK, FaultTypeOK
<1>1. \A q \in Requests : req[q] = "idle" /\ req'[q] = "idle" /\ flow[q].at = "idle" /\ ~Receive(q)
  BY DEF Quiet, Alone, Receive
<1>2. ~Request
  BY <1>0, <1>1 DEF Request, AcceptPrompt, BeginClose, BeginReview
<1>3. ASSUME NEW p \in Prompts
      PROVE  ~PromptStep(p)
  BY <1>1
  DEF PromptStep, RoutePrompt, ReceivePrompt, RunHarness, HarnessSucceeds, HarnessFails, RunChecks,
      GiveUpRepair, BreakPrompt, DropPrompt, EndPrompt, At
<1>4. ASSUME NEW c \in Closers
      PROVE  ~CloseStep(c)
  BY <1>1
  DEF CloseStep, RouteClose, CommitClose, MayCommitClose, FailClose, Enqueue, CleanUp, FailCleanUp,
      RefuseClosed, EndClose, Finish, At
<1>5. ASSUME NEW r \in Reviews
      PROVE  ~ReviewStep(r)
  <2>1. tx[r].stage = "idle"
    BY DEF Alone
  <2> QED
    BY <1>1, <2>1
    DEF ReviewStep, ApproveReview, Rows!ApproveReview, RefuseReview, Rows!RefuseReview, RoutePush,
        OpenPullRequest, FailReview, CommitReview, Enqueue, PushBranch, FailPush, EndPush, Finish, At
<1>6. ~Drop /\ ~Reconnect /\ ~\E f \in Flows : Timeout(f)
  BY NoFurtherFault DEF Typed, Reconnect, Alone
<1>7. ASSUME NEW f \in Flows, NEW s \in Slots, EventStep(f, s)
      PROVE  f \in {"prepare", "recovery"} /\ s = 1
  <2>1. InFlight(<<f, s>>)
    BY <1>7
    DEF EventStep, ReadEvent, ReadLatestRun, CommitEvent, RejectEvent, LoseEvent,
        Rows!ReadLatestRun, Rows!CommitEvent, Rows!RejectEvent, InFlight
  <2> QED
    BY <2>1 DEF Alone, PrepareEvents, RecoveryEvents, Slots
<1> QED
  BY <1>2, <1>3, <1>4, <1>5, <1>6, <1>7 DEF Next, Fault

AllFollowed == Alone /\ OneInFlight /\ OneAfterTheOther /\ Followed

\* Events leave the row in agreement with the workspace.
LEMMA FollowedEvents ==
  ASSUME WireTypeOK, tx \in [Handlers -> Rows!Transaction], AllFollowed,
         NEW f \in {"prepare", "recovery"}, EventStep(f, 1)
  PROVE  AllFollowed'
<1> DEFINE h == <<f, 1>>
           o == IF f = "prepare" THEN RecoveryEvents ELSE PrepareEvents
<1>0. /\ "prepare" \in Flows /\ "recovery" \in Flows /\ f \in Flows /\ Requests \subseteq Flows
      /\ h \in {PrepareEvents, RecoveryEvents} /\ h # o
      /\ (h = PrepareEvents /\ o = RecoveryEvents) \/ (h = RecoveryEvents /\ o = PrepareEvents)
      /\ \A g \in Flows \X Slots : g \in Handlers
      /\ h \in Flows \X Slots /\ o \in Flows \X Slots
      /\ \A r \in Reviews : r \in Handlers /\ r # h
  BY DistinctNames DEF Flows, Requests, Slots, Handlers, PrepareEvents, RecoveryEvents
<1>1. /\ Advances(h) \/ Settles(h)
      /\ UNCHANGED <<workspace, link, inbox, req, faults>>
      /\ \A g \in Handlers : g # h => tx'[g] = tx[g]
      /\ \A g \in Flows \X Slots : g # h => net'[g] = net[g]
  BY EventOutcome DEF AllFollowed
<1>2. Alone /\ OneInFlight /\ OneAfterTheOther /\ Followed
  BY DEF AllFollowed
<1>3. \A g \in Flows \X Slots : g # h => InFlight(g)' = InFlight(g) /\ EventOf(g)' = EventOf(g)
  BY <1>0, <1>1 DEF InFlight, EventOf
<1>4. InFlight(h) /\ ~InFlight(o)
  BY <1>0, <1>1, <1>2 DEF Advances, Settles, OneInFlight
<1>5. tx[o].stage = "idle" /\ tx'[o] = tx[o] /\ net'[o] = net[o]
  BY <1>0, <1>1, <1>4 DEF InFlight
<1>6. CASE Advances(h)
  <2>1. UNCHANGED <<flow, row>> /\ InFlight(h)' /\ EventOf(h)' = EventOf(h)
    BY <1>6 DEF Advances
  <2>2. Alone'
    BY <1>0, <1>1, <1>2, <1>3, <2>1 DEF Alone
  <2>3. OneInFlight'
    BY <1>0, <1>2, <1>3, <1>4, <1>5, <1>6, <2>1 DEF OneInFlight, Advances
  <2>4. OneAfterTheOther'
    BY <1>1, <1>2, <2>1 DEF OneAfterTheOther
  <2>5. /\ InFlight(PrepareEvents)' = InFlight(PrepareEvents) /\ EventOf(PrepareEvents)' = EventOf(PrepareEvents)
        /\ InFlight(RecoveryEvents)' = InFlight(RecoveryEvents) /\ EventOf(RecoveryEvents)' = EventOf(RecoveryEvents)
    BY <1>0, <1>3, <1>4, <2>1 DEF InFlight, EventOf
  <2>6. Followed'
    BY <1>1, <1>2, <2>1, <2>5 DEF Followed, FollowedDown, FollowedPreparing, FollowedRecovering, At
  <2> QED
    BY <2>2, <2>3, <2>4, <2>6 DEF AllFollowed
<1>7. CASE Settles(h)
  <2>1. PICK a \in {"ok", "rejected"} :
          /\ Acknowledge(f, 1, a) /\ ~InFlight(h)'
          /\ \/ a = "ok" /\ \E latest : row'.status = Rows!NextStatus(row.status, EventOf(h), latest)
             \/ a = "rejected" /\ row' = row /\ ~Rows!Accepts(row.status, EventOf(h))
             \/ link # "online" /\ row' = row
    BY <1>7 DEF Settles
  <2>2. /\ \A g \in Flows : flow'[g].at = flow[g].at /\ flow'[g].slot = flow[g].slot
        /\ \A g \in Flows : flow[g].ack # "pending" => flow'[g].ack = flow[g].ack
        /\ flow[f].ack = "pending" /\ flow[f].slot = 1 => flow'[f].ack = a
    BY <1>0, <2>1 DEF Acknowledge, WireTypeOK
  <2>3. Alone'
    BY <1>0, <1>1, <1>2, <1>3, <2>2 DEF Alone
  <2>4. OneInFlight'
    BY <1>0, <1>4, <1>5, <2>1 DEF OneInFlight, InFlight
  <2>5. OneAfterTheOther'
    BY <1>0, <1>1, <1>2, <2>2 DEF OneAfterTheOther
  <2>6. EventOf(h) \in UnreadyEvents => row' = row \/ row'.status # "READY"
    BY <2>1, UnreadyRules
  <2>7. ~InFlight(PrepareEvents)' /\ ~InFlight(RecoveryEvents)'
    BY <1>0, <1>4, <1>5, <2>1 DEF InFlight
  <2>8. ASSUME link = "down", FollowedDown
        PROVE  Followed'
    <3>1. workspace = "none" => EventOf(h) \in UnreadyEvents /\ row.status # "READY"
      BY <1>0, <1>4, <2>8 DEF FollowedDown
    <3>2. workspace' = "none" => row'.status # "READY"
      BY <1>1, <2>6, <3>1
    <3>3. FollowedDown'
      BY <1>1, <2>7, <2>8, <3>2 DEF FollowedDown
    <3> QED
      BY <1>1, <2>8, <3>3 DEF Followed
  <2>9. ASSUME link = "online", flow["recovery"].at = "idle", FollowedPreparing
        PROVE  Followed'
    <3>1. f = "prepare" /\ h = PrepareEvents /\ flow["prepare"].ack = "pending" /\ flow'["prepare"].ack = a
      BY <1>0, <1>2, <1>4, <2>2, <2>9 DEF FollowedPreparing, Alone, PrepareEvents, RecoveryEvents
    <3>2. CASE EventOf(h) \in UnreadyEvents
      BY <1>0, <1>1, <2>2, <2>6, <2>7, <2>9, <3>1, <3>2 DEF Followed, FollowedPreparing, At
    <3>3. CASE flow["prepare"].at = "ready"
      BY <1>0, <1>1, <2>1, <2>2, <2>7, <2>9, <3>1, <3>3 DEF Followed, FollowedPreparing, At
    <3> QED
      BY <1>4, <2>9, <3>1, <3>2, <3>3 DEF FollowedPreparing
  <2>10. ASSUME link = "online", flow["recovery"].at # "idle", FollowedRecovering
         PROVE  Followed'
    <3>1. f = "recovery" /\ h = RecoveryEvents /\ flow["recovery"].ack = "pending"
          /\ flow["recovery"].at \in {"recovering", "failing"}
      BY <1>0, <1>2, <1>4, <2>2, <2>10 DEF FollowedRecovering, Alone, PrepareEvents, RecoveryEvents
    <3>2. flow["recovery"].at = "failing" => row'.status # "READY"
      <4>1. flow["recovery"].at = "failing" => EventOf(h) = Failure
        BY <1>4, <2>10, <3>1 DEF FollowedRecovering
      <4> QED
        BY <2>1, <2>10, <4>1, UnreadyRules
    <3> QED
      BY <1>0, <1>1, <2>2, <2>7, <2>10, <3>1, <3>2 DEF Followed, FollowedRecovering
  <2>11. Followed'
    BY <1>2, <2>8, <2>9, <2>10 DEF Followed
  <2> QED
    BY <2>3, <2>4, <2>5, <2>11 DEF AllFollowed
<1> QED
  BY <1>1, <1>6, <1>7

\* Emitting puts the event on its way, while the agent is connected.
LEMMA EmitOnline ==
  ASSUME WireTypeOK, NEW f \in {"prepare", "recovery"}, NEW loc, NEW e \in AgentEvents,
         Emit(f, loc, e), link = "online", flow[f].slot = 1
  PROVE  /\ net'[<<f, 1>>] = e /\ e # NoEvent
         /\ \A h \in Flows \X Slots : h # <<f, 1>> => net'[h] = net[h]
         /\ flow'[f].at = loc /\ flow'[f].ack = "pending" /\ flow'[f].slot = 1
         /\ \A g \in Flows : g # f => flow'[g] = flow[g]
<1>1. f \in Flows /\ <<f, 1>> \in Flows \X Slots
  BY DEF Flows, Slots
<1> QED
  BY <1>1, DistinctNames DEF Emit, WireTypeOK

\* The steps of a preparation.
LEMMA FollowedPrepareSteps ==
  ASSUME WireTypeOK, PreparePlaces, AllFollowed, PrepareStep
  PROVE  AllFollowed'
<1>0. /\ "prepare" \in Flows /\ "recovery" \in Flows /\ Requests \subseteq Flows
      /\ PrepareEvents \in Flows \X Slots /\ RecoveryEvents \in Flows \X Slots
      /\ PrepareEvents # RecoveryEvents /\ PrepareEvents = <<"prepare", 1>>
      /\ "prepare" \notin Requests
  BY DistinctNames DEF Flows, Requests, Slots, PrepareEvents, RecoveryEvents
<1>1. Alone /\ OneInFlight /\ OneAfterTheOther /\ Followed
  BY DEF AllFollowed
<1>2. link # "down" /\ flow["recovery"].at = "idle"
  <2>1. inbox # <<>> \/ flow["prepare"].at \notin {"idle", "done"}
    BY DEF PrepareStep, ReceivePrepare, Receive, QueuePrepare, BeginPrepare, CreateWorktree, StartSandbox,
           OpenPreview, FailPrepare, ReportPrepare, EndPrepare, At
  <2> QED
    BY <1>1, <2>1 DEF OneAfterTheOther
<1>3. link = "online" /\ FollowedPreparing
  BY <1>1, <1>2 DEF Followed
<1>4. UNCHANGED <<row, tx, link>>
  BY DEF PrepareStep, ReceivePrepare, QueuePrepare, BeginPrepare, CreateWorktree, StartSandbox,
         OpenPreview, FailPrepare, ReportPrepare, EndPrepare, rowVars, faultVars
<1>5. flow["prepare"].ack # "pending" /\ ~InFlight(PrepareEvents) /\ ~InFlight(RecoveryEvents)
  <2>1. flow["prepare"].ack # "pending"
    <3>1. CASE ReceivePrepare
      <4>1. flow["prepare"].at = "idle"
        BY <1>1, <3>1 DEF ReceivePrepare, Receive, Alone
      <4> QED
        BY <4>1 DEF PreparePlaces
    <3> QED
      BY <3>1
      DEF PrepareStep, QueuePrepare, BeginPrepare, CreateWorktree, StartSandbox, OpenPreview, FailPrepare,
          ReportPrepare, EndPrepare, At
  <2> QED
    BY <1>3, <2>1 DEF FollowedPreparing
<1>6. inbox' = <<>> \/ (inbox' = inbox /\ flow["prepare"].at # "idle")
  <2>1. CASE ReceivePrepare
    <3>1. Tail(<<"prepare">>) = <<>>
      OBVIOUS
    <3> QED
      BY <1>1, <2>1, <3>1 DEF ReceivePrepare, Receive, Alone
  <2> QED
    BY <2>1
    DEF PrepareStep, QueuePrepare, BeginPrepare, CreateWorktree, StartSandbox, OpenPreview, FailPrepare,
        ReportPrepare, EndPrepare, At
<1>7. ASSUME NEW loc, NEW e \in AgentEvents, Emit("prepare", loc, e),
             e \in UnreadyEvents \/ (loc = "ready" /\ e \in ReadyEvents),
             loc \in {"sandbox", "preview", "ready"} => workspace' = "active", row.status # "READY"
      PROVE  AllFollowed'
  <2>1. /\ net'[PrepareEvents] = e /\ e # NoEvent
        /\ \A h \in Flows \X Slots : h # PrepareEvents => net'[h] = net[h]
        /\ flow'["prepare"].at = loc /\ flow'["prepare"].ack = "pending" /\ flow'["prepare"].slot = 1
        /\ \A g \in Flows : g # "prepare" => flow'[g] = flow[g]
    BY <1>0, <1>1, <1>3, <1>7, EmitOnline DEF Alone
  <2>2. Alone'
    BY <1>0, <1>1, <1>4, <1>6, <2>1 DEF Alone, InFlight
  <2>3. OneInFlight'
    BY <1>0, <1>1, <1>4, <1>5, <1>7, <2>1 DEF OneInFlight, InFlight, EventOf
  <2>4. OneAfterTheOther'
    BY <1>0, <1>2, <1>3, <1>4, <2>1 DEF OneAfterTheOther
  <2>5. FollowedPreparing'
    BY <1>0, <1>4, <1>5, <1>7, <2>1 DEF FollowedPreparing, InFlight, EventOf
  <2> QED
    BY <1>0, <1>2, <1>3, <1>4, <2>1, <2>2, <2>3, <2>4, <2>5 DEF Followed, AllFollowed
<1>8. ASSUME NEW loc \in {"queued", "done"}, Goto("prepare", loc), UNCHANGED workspace,
             loc = "done" \/ row.status # "READY"
      PROVE  AllFollowed'
  <2>1. /\ UNCHANGED net /\ flow'["prepare"].at = loc /\ flow'["prepare"].slot = flow["prepare"].slot
        /\ flow'["prepare"].ack = "idle"
        /\ \A g \in Flows : g # "prepare" => flow'[g] = flow[g]
    BY <1>0, <1>8 DEF Goto, WireTypeOK
  <2>2. Alone'
    BY <1>0, <1>1, <1>4, <1>6, <2>1 DEF Alone, InFlight
  <2>3. OneInFlight'
    BY <1>1, <1>4, <2>1 DEF OneInFlight, InFlight, EventOf
  <2>4. OneAfterTheOther'
    BY <1>0, <1>2, <1>3, <1>4, <2>1 DEF OneAfterTheOther
  <2>5. FollowedPreparing'
    BY <1>0, <1>3, <1>4, <1>5, <1>8, <2>1 DEF FollowedPreparing, InFlight, EventOf
  <2> QED
    BY <1>0, <1>2, <1>3, <1>4, <2>1, <2>2, <2>3, <2>4, <2>5 DEF Followed, AllFollowed
<1>9. /\ \A s \in Preparing : Progress(s) \in UnreadyEvents
      /\ Failure \in UnreadyEvents /\ Event("session.ready", "none") \in ReadyEvents
      /\ {"AGENT_CONNECTING", "WORKTREE_CREATING", "DOCKER_STARTING", "PREVIEW_STARTING"} \subseteq Preparing
  BY DEF UnreadyEvents, ReadyEvents, Preparing
<1>10. row.status = "READY" => flow["prepare"].at = "done" \/ At("prepare", "ready", {"ok"})
  BY <1>3 DEF FollowedPreparing
<1>11. CASE ReceivePrepare
  <2>1. flow["prepare"].at = "idle"
    BY <1>1, <1>11 DEF ReceivePrepare, Receive, Alone
  <2> QED
    BY <1>7, <1>9, <1>10, <1>11, <2>1, Emitted DEF ReceivePrepare, At
<1>12. CASE QueuePrepare
  BY <1>8, <1>10, <1>12 DEF QueuePrepare, At, workVars
<1>13. CASE BeginPrepare \/ ReportPrepare
  BY <1>7, <1>9, <1>10, <1>13, Emitted DEF BeginPrepare, ReportPrepare, At
<1>14. CASE CreateWorktree
  BY <1>7, <1>9, <1>10, <1>14, Emitted DEF CreateWorktree, At
<1>15. CASE StartSandbox \/ OpenPreview
  <2>1. workspace' = "active"
    BY <1>3, <1>15 DEF FollowedPreparing, StartSandbox, OpenPreview, At, workVars
  <2> QED
    BY <1>7, <1>9, <1>10, <1>15, <2>1, Emitted DEF StartSandbox, OpenPreview, At
<1>16. CASE FailPrepare
  BY <1>7, <1>9, <1>10, <1>16, Emitted DEF FailPrepare, At
<1>17. CASE EndPrepare
  BY <1>8, <1>17 DEF EndPrepare, workVars
<1> QED
  BY <1>11, <1>12, <1>13, <1>14, <1>15, <1>16, <1>17 DEF PrepareStep

\* The steps of a recovery that leave its process up.
LEMMA FollowedRecoverySteps ==
  ASSUME WireTypeOK, AllFollowed, LoadRegistry \/ RebuildPreview \/ FailRecovery \/ EndRecovery
  PROVE  AllFollowed'
<1>0. /\ "prepare" \in Flows /\ "recovery" \in Flows /\ Requests \subseteq Flows
      /\ PrepareEvents \in Flows \X Slots /\ RecoveryEvents \in Flows \X Slots
      /\ PrepareEvents # RecoveryEvents /\ RecoveryEvents = <<"recovery", 1>>
      /\ "recovery" \notin Requests
  BY DistinctNames DEF Flows, Requests, Slots, PrepareEvents, RecoveryEvents
<1>1. Alone /\ OneInFlight /\ OneAfterTheOther /\ Followed
  BY DEF AllFollowed
<1>2. flow["recovery"].at \in {"loading", "restoring", "recovering", "failing"}
  BY DEF LoadRegistry, RebuildPreview, FailRecovery, EndRecovery, At
<1>3. link = "online" /\ FollowedRecovering
  BY <1>1, <1>2 DEF Followed, OneAfterTheOther
<1>4. UNCHANGED <<row, tx, link, inbox>>
  BY DEF LoadRegistry, RebuildPreview, FailRecovery, EndRecovery, rowVars, faultVars
<1>5. ~InFlight(PrepareEvents) /\ ~InFlight(RecoveryEvents)
  BY <1>3 DEF FollowedRecovering, LoadRegistry, RebuildPreview, FailRecovery, EndRecovery, At
<1>6. ASSUME NEW e \in AgentEvents, NEW loc \in {"recovering", "failing"}, Emit("recovery", loc, e),
             e \in ReadyEvents \cup UnreadyEvents, loc = "failing" => e = Failure,
             workspace' = IF loc = "failing" THEN "stored" ELSE "active"
      PROVE  AllFollowed'
  <2>1. /\ net'[RecoveryEvents] = e /\ e # NoEvent
        /\ \A h \in Flows \X Slots : h # RecoveryEvents => net'[h] = net[h]
        /\ flow'["recovery"].at = loc /\ flow'["recovery"].ack = "pending" /\ flow'["recovery"].slot = 1
        /\ \A g \in Flows : g # "recovery" => flow'[g] = flow[g]
    BY <1>0, <1>1, <1>3, <1>6, EmitOnline DEF Alone
  <2>2. Alone'
    BY <1>0, <1>1, <1>4, <2>1 DEF Alone, InFlight
  <2>3. OneInFlight'
    BY <1>0, <1>1, <1>4, <1>5, <1>6, <2>1 DEF OneInFlight, InFlight, EventOf
  <2>4. OneAfterTheOther'
    BY <1>0, <1>1, <1>2, <1>3, <1>4, <2>1 DEF OneAfterTheOther
  <2>5. FollowedRecovering'
    BY <1>0, <1>4, <1>5, <1>6, <2>1 DEF FollowedRecovering, InFlight, EventOf
  <2> QED
    BY <1>0, <1>2, <1>3, <1>4, <2>1, <2>2, <2>3, <2>4, <2>5 DEF Followed, AllFollowed
<1>7. ASSUME NEW loc \in {"restoring", "done"}, Goto("recovery", loc),
             loc = "restoring" => workspace' = "active",
             row.status = "READY" => workspace' = "active"
      PROVE  AllFollowed'
  <2>1. /\ UNCHANGED net /\ flow'["recovery"].at = loc /\ flow'["recovery"].slot = flow["recovery"].slot
        /\ flow'["recovery"].ack = "idle"
        /\ \A g \in Flows : g # "recovery" => flow'[g] = flow[g]
    BY <1>0, <1>7 DEF Goto, WireTypeOK
  <2>2. Alone'
    BY <1>0, <1>1, <1>4, <2>1 DEF Alone, InFlight
  <2>3. OneInFlight'
    BY <1>1, <1>4, <2>1 DEF OneInFlight, InFlight, EventOf
  <2>4. OneAfterTheOther'
    BY <1>0, <1>1, <1>2, <1>3, <1>4, <2>1 DEF OneAfterTheOther
  <2>5. FollowedRecovering'
    BY <1>0, <1>3, <1>4, <1>5, <1>7, <2>1 DEF FollowedRecovering, InFlight, EventOf
  <2> QED
    BY <1>0, <1>2, <1>3, <1>4, <2>1, <2>2, <2>3, <2>4, <2>5 DEF Followed, AllFollowed
<1>8. CASE LoadRegistry
  BY <1>3, <1>7, <1>8 DEF LoadRegistry, FollowedRecovering, At
<1>9. CASE RebuildPreview
  <2>1. Event("session.recovered", "none") \in ReadyEvents
    BY DEF ReadyEvents
  <2> QED
    BY <1>6, <1>9, <2>1, Emitted DEF RebuildPreview, workVars
<1>10. CASE FailRecovery
  <2>1. workspace' = "stored"
    BY <1>3, <1>10 DEF FailRecovery, FollowedRecovering, At
  <2> QED
    BY <1>6, <1>10, <2>1, Emitted, UnreadyRules DEF FailRecovery
<1>11. CASE EndRecovery
  BY <1>3, <1>7, <1>11 DEF EndRecovery, FollowedRecovering, At, workVars
<1> QED
  BY <1>8, <1>9, <1>10, <1>11

\* A process that ends leaves nothing active, and no READY row without a worktree.
LEMMA FollowedStop ==
  ASSUME WireTypeOK, WorkTypeOK, PreparePlaces, AllFollowed, link # "down", Stop,
         \A q \in Requests : req[q] = "idle"
  PROVE  AllFollowed'
<1>0. /\ "prepare" \in Flows /\ "recovery" \in Flows /\ Requests \subseteq Flows
      /\ PrepareEvents # RecoveryEvents
  BY DEF Flows, Requests, PrepareEvents, RecoveryEvents
<1>1. Alone /\ OneInFlight /\ OneAfterTheOther /\ Followed
  BY DEF AllFollowed
<1>2. /\ UNCHANGED <<row, tx, net>> /\ link' = "down" /\ inbox' = <<>>
      /\ workspace' = IF workspace = "none" THEN "none" ELSE "unloaded"
      /\ \A g \in Flows : flow'[g].slot = flow[g].slot /\ (flow[g].at = "idle" => flow'[g] = flow[g])
      /\ \A g \in Flows : flow[g].at # "idle" => flow'[g].at = "done" /\ flow'[g].ack = "idle"
  BY DEF Stop, WireTypeOK, rowVars
<1>3. Alone'
  BY <1>0, <1>1, <1>2 DEF Alone, InFlight
<1>4. OneInFlight'
  BY <1>1, <1>2 DEF OneInFlight, InFlight, EventOf
<1>5. OneAfterTheOther'
  BY <1>0, <1>1, <1>2 DEF OneAfterTheOther, PreparePlaces
<1>6. ASSUME workspace = "none"
      PROVE  /\ row.status # "READY"
             /\ \A h \in {PrepareEvents, RecoveryEvents} : InFlight(h) => EventOf(h) \in UnreadyEvents
  <2>1. CASE flow["recovery"].at = "idle"
    BY <1>1, <1>6, <2>1 DEF Followed, FollowedPreparing
  <2>2. CASE flow["recovery"].at # "idle"
    BY <1>1, <1>6, <2>2 DEF Followed, FollowedRecovering
  <2> QED
    BY <2>1, <2>2
<1>7. FollowedDown'
  BY <1>2, <1>6 DEF FollowedDown, InFlight, EventOf
<1> QED
  BY <1>2, <1>3, <1>4, <1>5, <1>7 DEF AllFollowed, Followed

\* A restarted process finds nothing under way.
LEMMA FollowedRestart ==
  ASSUME WireTypeOK, AllFollowed, Restart
  PROVE  AllFollowed'
<1>0. /\ "prepare" \in Flows /\ "recovery" \in Flows /\ Requests \subseteq Flows /\ "recovery" \notin Requests
      /\ PrepareEvents \in Flows \X Slots /\ RecoveryEvents \in Flows \X Slots
  BY DistinctNames DEF Flows, Slots, Requests, PrepareEvents, RecoveryEvents
<1>1. Alone /\ OneInFlight /\ OneAfterTheOther /\ Followed
  BY DEF AllFollowed
<1>2. /\ UNCHANGED <<row, tx, net, workspace, inbox>> /\ link = "down" /\ link' = "online"
      /\ flow'["recovery"].at = "loading" /\ flow'["recovery"].slot = flow["recovery"].slot
      /\ \A g \in Flows : g # "recovery" => flow'[g] = flow[g]
  BY <1>0 DEF Restart, Goto, WireTypeOK, rowVars, workVars
<1>3. ~InFlight(PrepareEvents) /\ ~InFlight(RecoveryEvents)
  BY <1>0 DEF Restart, InFlight
<1>4. Alone'
  BY <1>0, <1>1, <1>2 DEF Alone, InFlight
<1>5. OneInFlight'
  BY <1>1, <1>2 DEF OneInFlight, InFlight, EventOf
<1>6. OneAfterTheOther'
  BY <1>0, <1>1, <1>2 DEF OneAfterTheOther
<1>7. FollowedRecovering'
  BY <1>1, <1>2, <1>3 DEF Followed, FollowedDown, FollowedRecovering, InFlight, EventOf
<1> QED
  BY <1>2, <1>4, <1>5, <1>6, <1>7 DEF AllFollowed, Followed

\* The row of a session says READY only of an active workspace: while nobody has asked
\* for anything, no acknowledgement was given up, no connection lost and no recovery is
\* going on, however often the agent has crashed.
THEOREM ReadyIsActive == Spec => []ReadyHasWorkspace
<1>1. Init => RowFollowsWorkspace
  <2> SUFFICES ASSUME Init
               PROVE  AllFollowed
    BY DEF RowFollowsWorkspace, AllFollowed
  <2>0. /\ "prepare" \in Flows /\ "recovery" \in Flows /\ Requests \subseteq Flows
        /\ \A h \in Flows \X Slots : h \in Handlers
        /\ \A r \in Reviews : r \in Handlers
        /\ PrepareEvents \in Flows \X Slots /\ RecoveryEvents \in Flows \X Slots
    BY DEF Flows, Requests, Handlers, Slots, PrepareEvents, RecoveryEvents
  <2>1. /\ \A h \in Handlers : tx[h].stage = "idle"
        /\ row.status = "CREATED"
    BY DEF Init, Rows!Init, Rows!NoTx, Rows!Created
  <2>2. \A h \in Flows \X Slots : ~InFlight(h) /\ tx[h].stage = "idle" /\ net[h] = NoEvent
    BY <2>0, <2>1 DEF Init, InFlight
  <2>3. Alone
    BY <2>0, <2>1, <2>2 DEF Init, Alone
  <2>4. OneInFlight
    BY <2>0, <2>2 DEF OneInFlight
  <2>5. OneAfterTheOther /\ Followed
    BY <2>0, <2>1, <2>2 DEF Init, OneAfterTheOther, Followed, FollowedPreparing
  <2> QED
    BY <2>3, <2>4, <2>5 DEF AllFollowed
<1>2. Typed /\ Rows!TypeOK /\ PreparePlaces /\ RowFollowsWorkspace /\ [Next]_vars => RowFollowsWorkspace'
  <2> SUFFICES ASSUME Typed, Rows!TypeOK, PreparePlaces, RowFollowsWorkspace, [Next]_vars, Quiet'
               PROVE  AllFollowed'
    BY DEF RowFollowsWorkspace, AllFollowed
  <2>1. CASE UNCHANGED vars
    <3>1. Quiet
      BY <2>1 DEF Quiet, vars, apiVars, faultVars
    <3> QED
      BY <2>1, <3>1
      DEF RowFollowsWorkspace, AllFollowed, Alone, OneInFlight, OneAfterTheOther, Followed, FollowedDown,
          FollowedPreparing, FollowedRecovering, InFlight, EventOf, At, vars, rowVars, wireVars, workVars, faultVars
  <2>2. CASE Next
    <3>1. Quiet
      BY <2>2, QuietBefore
    <3>2. AllFollowed
      BY <3>1 DEF RowFollowsWorkspace, AllFollowed
    <3>3. \/ PrepareStep \/ RecoveryStep \/ Crash \/ Restart
          \/ \E f \in {"prepare", "recovery"} : EventStep(f, 1)
      BY <2>2, <3>1, <3>2, QuietSteps DEF AllFollowed
    <3>4. WireTypeOK /\ WorkTypeOK /\ tx \in [Handlers -> Rows!Transaction]
      BY DEF Typed, Rows!TypeOK
    <3>5. CASE Crash \/ AbandonRecovery
      <4>1. Stop
        BY <3>5 DEF Crash, AbandonRecovery
      <4>2. link # "down"
        BY <3>2, <3>5 DEF Crash, AbandonRecovery, At, AllFollowed, OneAfterTheOther
      <4> QED
        BY <3>1, <3>2, <3>4, <4>1, <4>2, FollowedStop DEF Quiet
    <3> QED
      BY <3>2, <3>3, <3>4, <3>5, FollowedPrepareSteps, FollowedRecoverySteps, FollowedRestart, FollowedEvents
      DEF RecoveryStep
  <2> QED
    BY <2>1, <2>2
<1>3. RowFollowsWorkspace => ReadyHasWorkspace
  BY DEF RowFollowsWorkspace, ReadyHasWorkspace, Quiet, Followed, FollowedPreparing, FollowedRecovering
<1>4. PrepareGoesFirst => PreparePlaces
  BY DEF PrepareGoesFirst
<1> QED
  BY <1>1, <1>2, <1>3, <1>4, GoesFirst, Typing, RowsTyping, PTL DEF Spec

\* What the row says of the workspace is so: a successful close left none, READY has an
\* active one, and every variable keeps to its type.
THEOREM ShowsTheWorkspace == Spec => []WorkspaceIsAsShown
<1>1. TypeOK /\ CleanClose /\ ReadyHasWorkspace => WorkspaceIsAsShown
  BY DEF WorkspaceIsAsShown
<1> QED
  BY <1>1, Typing, ClosesAreClean, ReadyIsActive, PTL
-----------------------------------------------------------------------------
(***************************************************************************)
(* Why a pull request shows what passed the checks: with one prompt, once  *)
(* its checks have passed nobody is left who writes to the worktree, and   *)
(* a review is approved only after that.                                   *)
(***************************************************************************)

\* A prompt that is at its end writes to the worktree no more.
Over(p) == flow[p].at \in {"finishing", "done"}

\* A prompt reaches the agent once.
PromptsComeOnce ==
  \A p \in Prompts :
    /\ flow[p].at # "idle" => req[p] = "done"
    /\ \A i \in DOMAIN inbox : inbox[i] = p =>
         /\ req[p] = "done" /\ flow[p].at = "idle"
         /\ \A j \in DOMAIN inbox : inbox[j] = p => i = j

\* The worktree holds what passed the checks, and nobody is left who writes to it.
Validated == content \in validated /\ \A p \in Prompts : Over(p)

\* Where a result of checks that passed is under way, the worktree is as the checks found it.
Passing(p, s) == net[<<p, s>>] = ChecksPassed \/ tx[<<p, s>>].event = ChecksPassed
PassedIsOfContent ==
  \A p \in Prompts, s \in Slots : Passing(p, s) => Over(p) /\ content = turn[p].checked

\* A review has been approved, or its push is under way or done.
Pushing(r) == tx[r].stage = "approved" \/ (\E i \in DOMAIN inbox : inbox[i] = r) \/ flow[r].at # "idle"

\* What the policy was shown, and everything that comes of it, is of that worktree.
PushesAreValidated ==
  /\ latestRun = "passed" => Validated
  /\ \A r \in Reviews : Pushing(r) => Validated
  /\ branch # NotPushed => branch \in validated
  /\ pullRequest # NotPushed => pullRequest \in validated

\* The inbox, but for its head.
LEMMA InboxTail ==
  ASSUME QueueTypeOK, inbox # <<>>
  PROVE  \A i \in DOMAIN Tail(inbox) : i + 1 \in DOMAIN inbox /\ Tail(inbox)[i] = inbox[i + 1] /\ i # 0
BY DEF QueueTypeOK

\* A prompt leaves "idle" only when it is received, and it is sent once.
LEMMA PromptsOnceStep ==
  ASSUME WireTypeOK, QueueTypeOK, ApiTypeOK, PromptsComeOnce, [Next]_vars
  PROVE  PromptsComeOnce'
<1> USE DistinctNames DEF Requests
<1>0. /\ "prepare" \in Flows /\ "recovery" \in Flows
      /\ Prompts \subseteq Flows /\ Closers \subseteq Flows /\ Reviews \subseteq Flows
  BY DEF Flows
<1>1. ASSUME \A p \in Prompts : req[p] = "done" => req'[p] = "done",
             \A p \in Prompts : flow[p].at = "idle" => flow'[p].at = "idle",
             \/ UNCHANGED inbox \/ inbox' = <<>>
             \/ inbox # <<>> /\ inbox' = Tail(inbox)
             \/ \E q \in Requests : q \notin Prompts /\ inbox' = Append(inbox, q)
      PROVE  PromptsComeOnce'
  <2>1. CASE UNCHANGED inbox
    BY <1>1, <2>1 DEF PromptsComeOnce
  <2>2. CASE inbox' = <<>>
    BY <1>1, <2>2 DEF PromptsComeOnce
  <2>3. CASE inbox # <<>> /\ inbox' = Tail(inbox)
    <3>1. \A i \in DOMAIN inbox' : i \in Nat
      BY <2>3 DEF QueueTypeOK
    <3> QED
      BY <1>1, <2>3, <3>1, InboxTail DEF PromptsComeOnce
  <2>4. ASSUME NEW q \in Requests, q \notin Prompts, inbox' = Append(inbox, q)
        PROVE  PromptsComeOnce'
    <3>1. \A i \in DOMAIN inbox' : inbox'[i] \in Prompts => i \in DOMAIN inbox /\ inbox'[i] = inbox[i]
      BY <2>4 DEF QueueTypeOK
    <3> QED
      BY <1>1, <3>1 DEF PromptsComeOnce
  <2> QED
    BY <1>1, <2>1, <2>2, <2>3, <2>4
<1>2. ASSUME UNCHANGED <<inbox, flow>>, \A p \in Prompts : req[p] = "done" => req'[p] = "done"
      PROVE  PromptsComeOnce'
  BY <1>1, <1>2
<1>3. CASE Request
  <2>1. \A p \in Prompts : req[p] = "done" => req'[p] = "done"
    BY <1>3 DEF Request, AcceptPrompt, BeginClose, BeginReview, ApiTypeOK
  <2> QED
    BY <1>2, <1>3, <2>1 DEF Request, AcceptPrompt, BeginClose, BeginReview, wireVars
<1>4. CASE \E f \in Flows : Timeout(f) \/ \E s \in Slots : EventStep(f, s)
  <2>1. \A g \in Flows : flow'[g].at = flow[g].at
    BY <1>4, EventsMoveNobody
  <2>2. UNCHANGED <<inbox, req>>
    BY <1>4 DEF Timeout, EventStep, ReadEvent, ReadLatestRun, CommitEvent, RejectEvent, LoseEvent, apiVars
  <2> QED
    BY <1>0, <1>1, <2>1, <2>2
<1>5. CASE PrepareStep
  <2>1. \A p \in Prompts : flow'[p] = flow[p]
    BY <1>0, <1>5, OtherFlows
    DEF PrepareStep, ReceivePrepare, QueuePrepare, BeginPrepare, CreateWorktree, StartSandbox,
        OpenPreview, FailPrepare, ReportPrepare, EndPrepare
  <2>2. UNCHANGED req /\ (UNCHANGED inbox \/ (inbox # <<>> /\ inbox' = Tail(inbox)))
    BY <1>5
    DEF PrepareStep, ReceivePrepare, Receive, QueuePrepare, BeginPrepare, CreateWorktree, StartSandbox,
        OpenPreview, FailPrepare, ReportPrepare, EndPrepare, apiVars
  <2> QED
    BY <1>1, <2>1, <2>2
<1>6. ASSUME NEW p \in Prompts, PromptStep(p)
      PROVE  PromptsComeOnce'
  <2>1. \A q \in Prompts : q # p =>
          /\ flow'[q] = flow[q]
          /\ req'[q] = req[q]
    BY <1>0, <1>6, OtherFlows
    DEF PromptStep, RoutePrompt, Send, ReceivePrompt, RunHarness, HarnessSucceeds, HarnessFails, RunChecks,
        GiveUpRepair, BreakPrompt, DropPrompt, EndPrompt, wireVars, apiVars, ApiTypeOK
  <2>2. CASE RoutePrompt(p)
    <3>1. req[p] = "begun" /\ req'[p] = "done" /\ UNCHANGED flow
      BY <2>2 DEF RoutePrompt, Send, ApiTypeOK, wireVars
    <3>2. CASE UNCHANGED inbox
      BY <1>1, <2>1, <3>1, <3>2
    <3>3. CASE inbox' = Append(inbox, p)
      <4>1. flow[p].at = "idle" /\ \A i \in DOMAIN inbox : inbox[i] # p
        BY <3>1 DEF PromptsComeOnce
      <4>2. \A i \in DOMAIN inbox' :
              \/ i \in DOMAIN inbox /\ inbox'[i] = inbox[i]
              \/ i = Len(inbox) + 1 /\ inbox'[i] = p
        BY <3>3 DEF QueueTypeOK
      <4>3. \A i, j \in DOMAIN inbox' : inbox'[i] = p /\ inbox'[j] = p => i = j
        BY <4>1, <4>2
      <4>4. ASSUME NEW q \in Prompts, q # p, NEW i \in DOMAIN inbox', inbox'[i] = q
            PROVE  i \in DOMAIN inbox /\ inbox[i] = q
        BY <4>2, <4>4
      <4> QED
        BY <2>1, <3>1, <4>1, <4>3, <4>4 DEF PromptsComeOnce
    <3> QED
      BY <2>2, <3>2, <3>3 DEF RoutePrompt, Send
  <2>3. CASE ReceivePrompt(p)
    <3>1. inbox # <<>> /\ inbox[1] = p /\ inbox' = Tail(inbox) /\ UNCHANGED req /\ 1 \in DOMAIN inbox
      BY <2>3 DEF ReceivePrompt, Receive, apiVars, QueueTypeOK
    <3>2. \A i \in DOMAIN inbox' : i + 1 \in DOMAIN inbox /\ inbox'[i] = inbox[i + 1] /\ i \in Nat /\ i + 1 # 1
      BY <3>1, InboxTail DEF QueueTypeOK
    <3>3. \A i \in DOMAIN inbox' : inbox'[i] # p
      BY <3>1, <3>2 DEF PromptsComeOnce
    <3> QED
      BY <2>1, <3>1, <3>2, <3>3 DEF PromptsComeOnce
  <2>4. CASE ~RoutePrompt(p) /\ ~ReceivePrompt(p)
    <3>1. UNCHANGED <<inbox, req>> /\ flow[p].at # "idle"
      BY <1>6, <2>4
      DEF PromptStep, RunHarness, HarnessSucceeds, HarnessFails, RunChecks, GiveUpRepair, BreakPrompt,
          DropPrompt, EndPrompt, apiVars, At
    <3> QED
      BY <1>1, <2>1, <3>1
  <2> QED
    BY <2>2, <2>3, <2>4
<1>7. ASSUME NEW q \in Closers \cup Reviews, CloseStep(q) \/ ReviewStep(q)
      PROVE  PromptsComeOnce'
  <2>1. q \in Flows /\ q \in Requests /\ q \notin Prompts
    BY <1>0
  <2>2. \A p \in Prompts : flow'[p] = flow[p] /\ req'[p] = req[p]
    BY <1>0, <1>7, <2>1, OtherFlows
    DEF CloseStep, RouteClose, CommitClose, FailClose, Enqueue, CleanUp, FailCleanUp, RefuseClosed, EndClose,
        Finish, ReviewStep, ApproveReview, RefuseReview, RoutePush, OpenPullRequest, FailReview, CommitReview,
        PushBranch, FailPush, EndPush, Send, Answer, wireVars, apiVars, ApiTypeOK
  <2>3. \/ UNCHANGED inbox
        \/ inbox # <<>> /\ inbox' = Tail(inbox)
        \/ inbox' = Append(inbox, q)
    BY <1>7
    DEF CloseStep, RouteClose, CommitClose, FailClose, Enqueue, CleanUp, FailCleanUp, RefuseClosed, EndClose,
        Finish, ReviewStep, ApproveReview, RefuseReview, RoutePush, OpenPullRequest, FailReview, CommitReview,
        PushBranch, FailPush, EndPush, Send, Receive
  <2> QED
    BY <1>1, <2>1, <2>2, <2>3
<1>8. CASE LoadRegistry \/ RebuildPreview \/ FailRecovery \/ EndRecovery \/ Restart
  <2>1. \A p \in Prompts : flow'[p] = flow[p]
    BY <1>0, <1>8, OtherFlows DEF LoadRegistry, RebuildPreview, FailRecovery, EndRecovery, Restart
  <2>2. UNCHANGED <<inbox, req>>
    BY <1>8 DEF LoadRegistry, RebuildPreview, FailRecovery, EndRecovery, Restart, apiVars
  <2> QED
    BY <1>1, <2>1, <2>2
<1>9. CASE Crash \/ AbandonRecovery \/ Drop
  <2>1. \A p \in Prompts : (req[p] = "done" => req'[p] = "done") /\ (flow[p].at = "idle" => flow'[p].at = "idle")
    BY <1>0, <1>9 DEF Crash, AbandonRecovery, Drop, Stop, Silence, wireVars, WireTypeOK
  <2> QED
    BY <1>1, <1>9, <2>1 DEF Crash, AbandonRecovery, Drop, Stop
<1>10. CASE Reconnect \/ UNCHANGED vars
  BY <1>2, <1>10 DEF Reconnect, vars, wireVars, apiVars
<1> QED
  BY <1>3, <1>4, <1>5, <1>6, <1>7, <1>8, <1>9, <1>10 DEF Next, RecoveryStep, Fault

\* A prompt that is over stays so, and what it has checked with it.
LEMMA OverStays ==
  ASSUME WireTypeOK, WorkTypeOK, QueueTypeOK, PromptsComeOnce, [Next]_vars, NEW p \in Prompts, Over(p)
  PROVE  Over(p)' /\ turn'[p].checked = turn[p].checked
<1> USE DistinctNames DEF Requests
<1>0. /\ "prepare" \in Flows /\ "recovery" \in Flows
      /\ Prompts \subseteq Flows /\ Closers \subseteq Flows /\ Reviews \subseteq Flows
  BY DEF Flows
<1>1. ASSUME flow'[p].at = flow[p].at, UNCHANGED turn
      PROVE  Over(p)' /\ turn'[p].checked = turn[p].checked
  BY <1>1 DEF Over
<1>2. CASE Request
  BY <1>1, <1>2 DEF Request, AcceptPrompt, BeginClose, BeginReview, wireVars, workVars
<1>3. CASE \E f \in Flows : Timeout(f) \/ \E s \in Slots : EventStep(f, s)
  <2>1. \A g \in Flows : flow'[g].at = flow[g].at
    BY <1>3, EventsMoveNobody
  <2>2. UNCHANGED turn
    BY <1>3 DEF Timeout, EventStep, ReadEvent, ReadLatestRun, CommitEvent, RejectEvent, LoseEvent, workVars
  <2> QED
    BY <1>0, <1>1, <2>1, <2>2
<1>4. CASE PrepareStep
  <2>1. flow'[p] = flow[p] /\ UNCHANGED turn
    BY <1>0, <1>4, OtherFlows
    DEF PrepareStep, ReceivePrepare, QueuePrepare, BeginPrepare, CreateWorktree, StartSandbox,
        OpenPreview, FailPrepare, ReportPrepare, EndPrepare, workVars
  <2> QED
    BY <1>1, <2>1
<1>5. ASSUME NEW q \in Prompts, PromptStep(q)
      PROVE  Over(p)' /\ turn'[p].checked = turn[p].checked
  <2>1. CASE q # p
    <3>1. flow'[p] = flow[p]
      BY <1>0, <1>5, <2>1, OtherFlows
      DEF PromptStep, RoutePrompt, ReceivePrompt, RunHarness, HarnessSucceeds, HarnessFails, RunChecks,
          GiveUpRepair, BreakPrompt, DropPrompt, EndPrompt, wireVars
    <3>2. turn'[p] = turn[p]
      BY <1>5, <2>1
      DEF PromptStep, RoutePrompt, ReceivePrompt, RunHarness, HarnessSucceeds, HarnessFails, RunChecks,
          GiveUpRepair, BreakPrompt, DropPrompt, EndPrompt, workVars, WorkTypeOK
    <3> QED
      BY <3>1, <3>2 DEF Over
  <2>2. CASE q = p
    <3>1. ~ReceivePrompt(p)
      <4>1. ASSUME ReceivePrompt(p)
            PROVE  1 \in DOMAIN inbox /\ inbox[1] = p
        BY <4>1 DEF ReceivePrompt, Receive, QueueTypeOK
      <4> QED
        BY <4>1 DEF PromptsComeOnce, Over
    <3>2. ~(RunHarness(p) \/ HarnessSucceeds(p) \/ HarnessFails(p) \/ RunChecks(p) \/ GiveUpRepair(p)
            \/ BreakPrompt(p) \/ DropPrompt(p))
      BY DEF RunHarness, HarnessSucceeds, HarnessFails, RunChecks, GiveUpRepair, BreakPrompt, DropPrompt, At, Over
    <3>3. CASE RoutePrompt(p)
      BY <1>1, <3>3 DEF RoutePrompt, wireVars, workVars
    <3>4. CASE EndPrompt(p)
      BY <1>0, <3>4 DEF EndPrompt, Goto, workVars, WireTypeOK, Over
    <3> QED
      BY <1>5, <2>2, <3>1, <3>2, <3>3, <3>4 DEF PromptStep
  <2> QED
    BY <2>1, <2>2
<1>6. ASSUME NEW q \in Closers \cup Reviews, CloseStep(q) \/ ReviewStep(q)
      PROVE  Over(p)' /\ turn'[p].checked = turn[p].checked
  <2>1. q \in Flows /\ q \notin Prompts
    BY <1>0
  <2>2. flow'[p] = flow[p]
    BY <1>0, <1>6, <2>1, OtherFlows
    DEF CloseStep, RouteClose, CommitClose, FailClose, Enqueue, CleanUp, FailCleanUp, RefuseClosed, EndClose,
        Finish, ReviewStep, ApproveReview, RefuseReview, RoutePush, OpenPullRequest, FailReview, CommitReview,
        PushBranch, FailPush, EndPush, wireVars
  <2>3. UNCHANGED turn
    BY <1>6
    DEF CloseStep, RouteClose, CommitClose, FailClose, Enqueue, CleanUp, FailCleanUp, RefuseClosed, EndClose,
        Finish, ReviewStep, ApproveReview, RefuseReview, RoutePush, OpenPullRequest, FailReview, CommitReview,
        PushBranch, FailPush, EndPush, workVars
  <2> QED
    BY <1>1, <2>2, <2>3
<1>7. CASE LoadRegistry \/ RebuildPreview \/ FailRecovery \/ EndRecovery \/ Restart
  <2>1. flow'[p] = flow[p] /\ UNCHANGED turn
    BY <1>0, <1>7, OtherFlows DEF LoadRegistry, RebuildPreview, FailRecovery, EndRecovery, Restart, workVars
  <2> QED
    BY <1>1, <2>1
<1>8. CASE Crash \/ AbandonRecovery
  <2>1. Stop
    BY <1>8 DEF Crash, AbandonRecovery
  <2>2. flow'[p].at \in {flow[p].at, "done"} /\ UNCHANGED turn
    BY <1>0, <2>1 DEF Stop, WireTypeOK
  <2> QED
    BY <2>2 DEF Over
<1>9. CASE Drop \/ Reconnect \/ UNCHANGED vars
  BY <1>1, <1>9 DEF Drop, Reconnect, vars, wireVars, workVars
<1> QED
  BY <1>2, <1>3, <1>4, <1>5, <1>6, <1>7, <1>8, <1>9 DEF Next, RecoveryStep, Fault

\* Only a harness writes to the worktree, and what was validated stays so.
LEMMA ContentStays ==
  ASSUME [Next]_vars
  PROVE  /\ (\A p \in Prompts : Over(p)) => content' = content
         /\ validated \subseteq validated'
<1>1. CASE Request \/ PrepareStep
  BY <1>1
  DEF Request, AcceptPrompt, BeginClose, BeginReview, PrepareStep, ReceivePrepare, QueuePrepare, BeginPrepare,
      CreateWorktree, StartSandbox, OpenPreview, FailPrepare, ReportPrepare, EndPrepare, workVars
<1>2. CASE \E f \in Flows : Timeout(f) \/ \E s \in Slots : EventStep(f, s)
  BY <1>2 DEF Timeout, EventStep, ReadEvent, ReadLatestRun, CommitEvent, RejectEvent, LoseEvent, workVars
<1>3. ASSUME NEW p \in Prompts, PromptStep(p)
      PROVE  (Over(p) => content' = content) /\ UNCHANGED validated
  <2>1. Over(p) => ~(HarnessSucceeds(p) \/ HarnessFails(p))
    BY DEF HarnessSucceeds, HarnessFails, At, Over
  <2>2. UNCHANGED validated
    BY <1>3
    DEF PromptStep, RoutePrompt, ReceivePrompt, RunHarness, HarnessSucceeds, HarnessFails, RunChecks,
        GiveUpRepair, BreakPrompt, DropPrompt, EndPrompt
  <2> QED
    BY <1>3, <2>1, <2>2
    DEF PromptStep, RoutePrompt, ReceivePrompt, RunHarness, RunChecks,
        GiveUpRepair, BreakPrompt, DropPrompt, EndPrompt, workVars
<1>4. CASE \E q \in Closers : CloseStep(q)
  BY <1>4
  DEF CloseStep, RouteClose, CommitClose, FailClose, Enqueue, CleanUp, FailCleanUp, RefuseClosed, EndClose,
      Finish, workVars
<1>5. CASE \E q \in Reviews : ReviewStep(q)
  BY <1>5
  DEF ReviewStep, ApproveReview, RefuseReview, RoutePush, OpenPullRequest, FailReview, CommitReview,
      Enqueue, Finish, PushBranch, FailPush, EndPush, workVars
<1>6. CASE RecoveryStep \/ Crash \/ Restart \/ Drop \/ Reconnect \/ UNCHANGED vars
  BY <1>6
  DEF RecoveryStep, LoadRegistry, RebuildPreview, FailRecovery, EndRecovery, AbandonRecovery, Restart, Crash,
      Stop, Drop, Reconnect, vars, workVars
<1> QED
  BY <1>1, <1>2, <1>3, <1>4, <1>5, <1>6 DEF Next, Fault

\* So a validated worktree stays validated.
LEMMA ValidatedStays ==
  ASSUME WireTypeOK, WorkTypeOK, QueueTypeOK, PromptsComeOnce, [Next]_vars, Validated
  PROVE  Validated'
<1>1. \A p \in Prompts : Over(p)'
  BY OverStays DEF Validated
<1>2. content' = content /\ validated \subseteq validated'
  BY ContentStays DEF Validated
<1> QED
  BY <1>1, <1>2 DEF Validated

\* Only the checks of a prompt bring a result, which is of the worktree as it is.
LEMMA NewResults ==
  ASSUME WireTypeOK, WorkTypeOK, Rows!TypeOK, ChecksAreOfPrompts, [Next]_vars,
         NEW p \in Prompts, NEW s \in Slots, Passing(p, s)', ~Passing(p, s)
  PROVE  (Over(p) /\ content = turn[p].checked)'
<1>0. /\ "prepare" \in Flows /\ "recovery" \in Flows
      /\ Prompts \subseteq Flows /\ Closers \subseteq Flows /\ Reviews \subseteq Flows
      /\ "prepare" \notin Prompts /\ "recovery" \notin Prompts
      /\ Closers \cap Prompts = {} /\ Reviews \cap Prompts = {}
  BY DistinctNames DEF Flows, Requests
<1>1. ASSUME UNCHANGED <<rowVars, net>>
      PROVE  FALSE
  BY <1>1 DEF Passing, rowVars
\* A flow that emits anything else brings none.
<1>2. ASSUME NEW f \in Flows, NEW loc, UNCHANGED rowVars,
             \/ Goto(f, loc) \/ UNCHANGED net
             \/ \E e \in AgentEvents : Emit(f, loc, e) /\ (e # ChecksPassed \/ f # p)
      PROVE  FALSE
  <2>1. <<f, flow[f].slot>> \in Flows \X Slots
    BY DEF WireTypeOK
  <2> QED
    BY <1>0, <1>2, <2>1 DEF WireTypeOK, Passing, Emit, Goto, rowVars
<1>3. /\ tx \in [Handlers -> Rows!Transaction]
      /\ Rows!NoTx.event # ChecksPassed
      /\ <<p, s>> \in Handlers /\ <<p, s>> \notin Closers \cup Reviews
  BY <1>0, OtherEvents, DistinctNames DEF Rows!TypeOK, Rows!NoTx, Rows!Event, Event, Handlers
\* The handlers of requests are not those of events.
<1>4. ASSUME NEW q \in Closers \cup Reviews, NEW t, tx' = [tx EXCEPT ![q] = t], UNCHANGED net
      PROVE  FALSE
  BY <1>3, <1>4 DEF Passing
<1>5. CASE Request
  <2>1. CASE \E q \in Prompts : AcceptPrompt(q)
    BY <1>1, <2>1 DEF AcceptPrompt, wireVars
  <2>2. CASE \E c \in Closers : BeginClose(c)
    BY <1>4, <2>2 DEF BeginClose, wireVars, Rows!BeginClose
  <2>3. CASE \E r \in Reviews : BeginReview(r)
    BY <1>4, <2>3 DEF BeginReview, wireVars, Rows!BeginReview
  <2> QED
    BY <1>5, <2>1, <2>2, <2>3 DEF Request
<1>6. ASSUME NEW f \in Flows, NEW z \in Slots, EventStep(f, z)
      PROVE  FALSE
  <2>1. <<f, z>> \in Handlers
    BY DEF Handlers
  <2>2. NoEvent # ChecksPassed
    BY Emitted, DistinctNames DEF ChecksPassed
  <2>3. ASSUME net'[<<p, s>>] \in {net[<<p, s>>], NoEvent},
               tx'[<<p, s>>].event \in {tx[<<p, s>>].event, net[<<p, s>>], Rows!NoTx.event}
        PROVE  FALSE
    BY <1>3, <2>2, <2>3 DEF Passing
  <2>4. CASE ReadEvent(f, z)
    BY <1>0, <1>3, <2>1, <2>3, <2>4 DEF ReadEvent, Rows!ReadForEvent, WireTypeOK
  <2>5. CASE ReadLatestRun(f, z)
    BY <1>3, <2>1, <2>3, <2>5 DEF ReadLatestRun, wireVars, Rows!ReadLatestRun
  <2>6. CASE CommitEvent(f, z)
    BY <1>3, <2>1, <2>3, <2>6 DEF CommitEvent, Rows!CommitEvent
  <2>7. CASE RejectEvent(f, z)
    BY <1>3, <2>1, <2>3, <2>7 DEF RejectEvent, Rows!RejectEvent
  <2>8. CASE LoseEvent(f, z)
    BY <1>0, <2>3, <2>8 DEF LoseEvent, rowVars, WireTypeOK
  <2> QED
    BY <1>6, <2>4, <2>5, <2>6, <2>7, <2>8 DEF EventStep
<1>7. CASE PrepareStep
  BY <1>0, <1>2, <1>7, Emitted
  DEF PrepareStep, ReceivePrepare, QueuePrepare, BeginPrepare, CreateWorktree, StartSandbox,
      OpenPreview, FailPrepare, ReportPrepare, EndPrepare
<1>8. ASSUME NEW q \in Prompts, PromptStep(q)
      PROVE  (Over(p) /\ content = turn[p].checked)'
  <2>1. q \in Flows
    BY <1>0
  <2>2. CASE RoutePrompt(q)
    BY <1>1, <2>2 DEF RoutePrompt, wireVars
  <2>3. CASE RunChecks(q)
    <3>1. q = p /\ \E e \in AgentEvents : Emit(q, "finishing", e)
      <4>1. \/ Emit(q, "starting", Progress("AGENT_RUNNING"))
            \/ \E outcome \in {"passed", "failed"} : Emit(q, "finishing", Event("checks.result", outcome))
        BY <2>3 DEF RunChecks
      <4>2. UNCHANGED rowVars
        BY <2>3 DEF RunChecks
      <4>3. ~Emit(q, "starting", Progress("AGENT_RUNNING"))
        BY <1>2, <2>1, <4>2, Emitted, OtherEvents
      <4> QED
        BY <1>2, <2>1, <4>1, <4>2, <4>3, Emitted
    <3>2. turn'[p].checked = content /\ content' = content
      BY <2>3, <3>1 DEF RunChecks, WorkTypeOK
    <3>3. flow'[p].at = "finishing"
      BY <2>1, <3>1 DEF Emit, WireTypeOK
    <3> QED
      BY <3>2, <3>3 DEF Over
  <2>4. Event("checks.result", "failed") # ChecksPassed
    BY DEF ChecksPassed, Event
  <2> QED
    BY <1>2, <1>8, <2>1, <2>2, <2>3, <2>4, Emitted, OtherEvents
    DEF PromptStep, ReceivePrompt, RunHarness, HarnessSucceeds, HarnessFails,
        GiveUpRepair, BreakPrompt, DropPrompt, EndPrompt
<1>9. ASSUME NEW c \in Closers, CloseStep(c)
      PROVE  FALSE
  <2>1. c \in Flows /\ c # p
    BY <1>0
  <2>2. CASE RouteClose(c)
    BY <1>1, <2>2 DEF RouteClose, wireVars
  <2>3. CASE CommitClose(c) \/ FailClose(c)
    BY <1>4, <2>3 DEF CommitClose, FailClose, wireVars, Rows!CommitClose, Rows!AbortClose
  <2>4. CASE Enqueue(c) \/ CleanUp(c) \/ FailCleanUp(c) \/ RefuseClosed(c) \/ EndClose(c)
    BY <1>2, <2>1, <2>4, Emitted DEF Enqueue, CleanUp, FailCleanUp, RefuseClosed, EndClose, Finish
  <2> QED
    BY <1>9, <2>2, <2>3, <2>4 DEF CloseStep
<1>10. ASSUME NEW r \in Reviews, ReviewStep(r)
       PROVE  FALSE
  <2>1. r \in Flows /\ r # p
    BY <1>0
  <2>2. CASE RoutePush(r) \/ OpenPullRequest(r)
    BY <1>1, <2>2 DEF RoutePush, OpenPullRequest, wireVars
  <2>3. CASE RefuseReview(r) \/ FailReview(r) \/ CommitReview(r)
    BY <1>4, <2>3 DEF RefuseReview, FailReview, CommitReview, wireVars, Rows!RefuseReview, Rows!AbortReview,
                      Rows!CommitReview
  <2>4. CASE ApproveReview(r)
    BY <1>3, <2>4 DEF ApproveReview, wireVars, Rows!ApproveReview, Passing
  <2>5. CASE Enqueue(r) \/ PushBranch(r) \/ FailPush(r) \/ EndPush(r)
    BY <1>2, <2>1, <2>5, Emitted DEF Enqueue, PushBranch, FailPush, EndPush, Finish
  <2> QED
    BY <1>10, <2>2, <2>3, <2>4, <2>5 DEF ReviewStep
<1>11. CASE RecoveryStep \/ Restart
  <2>1. CASE AbandonRecovery
    BY <1>1, <2>1 DEF AbandonRecovery, Stop
  <2> QED
    BY <1>0, <1>2, <1>11, <2>1, Emitted
    DEF RecoveryStep, LoadRegistry, RebuildPreview, FailRecovery, EndRecovery, Restart
<1>12. CASE Crash \/ Drop \/ Reconnect \/ \E f \in Flows : Timeout(f)
  BY <1>1, <1>12 DEF Crash, Drop, Reconnect, Timeout, Stop, wireVars
<1>13. CASE UNCHANGED vars
  BY <1>1, <1>13 DEF vars, wireVars
<1> QED
  BY <1>5, <1>6, <1>7, <1>8, <1>9, <1>10, <1>11, <1>12, <1>13 DEF Next, Fault

\* A run is recorded as passed by the result of a prompt's checks, which validates the worktree.
LEMMA RecordedRuns ==
  ASSUME WireTypeOK, Rows!TypeOK, WorkTypeOK, QueueTypeOK, ChecksAreOfPrompts, PromptsComeOnce,
         PassedIsOfContent, \A p, q \in Prompts : p = q,
         [Next]_vars, latestRun' = "passed", latestRun # "passed"
  PROVE  Validated'
<1>1. PICK f \in Flows, s \in Slots : CommitEvent(f, s)
  BY DEF Next, Request, AcceptPrompt, BeginClose, BeginReview, EventStep, ReadEvent, ReadLatestRun, RejectEvent,
         LoseEvent, PrepareStep, ReceivePrepare, QueuePrepare, BeginPrepare, CreateWorktree, StartSandbox,
         OpenPreview, FailPrepare, ReportPrepare, EndPrepare, PromptStep, RoutePrompt, ReceivePrompt, RunHarness,
         HarnessSucceeds, HarnessFails, RunChecks, GiveUpRepair, BreakPrompt, DropPrompt, EndPrompt,
         CloseStep, RouteClose, CommitClose, FailClose, Enqueue, CleanUp, FailCleanUp, RefuseClosed, EndClose,
         Finish, ReviewStep, ApproveReview, RefuseReview, RoutePush, OpenPullRequest, FailReview, CommitReview,
         PushBranch, FailPush, EndPush, RecoveryStep, LoadRegistry, RebuildPreview, FailRecovery, EndRecovery,
         AbandonRecovery, Fault, Crash, Restart, Drop, Reconnect, Timeout, Stop, vars, rowVars,
         Rows!ReadForEvent, Rows!ReadLatestRun, Rows!RejectEvent, Rows!BeginClose, Rows!CommitClose,
         Rows!AbortClose, Rows!BeginReview, Rows!ApproveReview, Rows!RefuseReview, Rows!AbortReview,
         Rows!CommitReview
<1>2. tx[<<f, s>>].event.type = "checks.result" /\ tx[<<f, s>>].event.arg = "passed"
  BY <1>1 DEF CommitEvent, Rows!CommitEvent
<1>3. tx[<<f, s>>].event = ChecksPassed
  <2>1. tx[<<f, s>>].event \in AgentEvents
    BY SameWords DEF Rows!TypeOK, Rows!Transaction, Handlers
  <2>2. \A e \in AgentEvents : e = Event(e.type, e.arg)
    BY DEF AgentEvents, ProgressEvents, DoneEvents, ChecksEvents, PlainEvents, Event
  <2> QED
    BY <1>2, <2>1, <2>2 DEF ChecksPassed
<1>4. f \in Prompts /\ Over(f) /\ content = turn[f].checked
  BY <1>3 DEF ChecksAreOfPrompts, PassedIsOfContent, Passing
<1>5. \A p \in Prompts : Over(p)
  BY <1>4
<1>6. \A p \in Prompts : Over(p)'
  BY <1>5, OverStays
<1>7. content' = content
  BY <1>5, ContentStays
<1>8. validated' = validated \cup {turn[f].checked}
  BY <1>1, <1>3 DEF CommitEvent, ChecksPassed
<1> QED
  BY <1>4, <1>6, <1>7, <1>8 DEF Validated

\* Results that are under way stay of the worktree as it is.
LEMMA PassedStep ==
  ASSUME WireTypeOK, Rows!TypeOK, WorkTypeOK, QueueTypeOK, ChecksAreOfPrompts, PromptsComeOnce,
         PassedIsOfContent, \A p, q \in Prompts : p = q, [Next]_vars
  PROVE  PassedIsOfContent'
<1> SUFFICES ASSUME NEW p \in Prompts, NEW s \in Slots, Passing(p, s)'
             PROVE  (Over(p) /\ content = turn[p].checked)'
  BY DEF PassedIsOfContent
<1>1. CASE ~Passing(p, s)
  BY <1>1, NewResults
<1>2. CASE Passing(p, s)
  <2>1. Over(p) /\ content = turn[p].checked
    BY <1>2 DEF PassedIsOfContent
  <2>2. content' = content
    BY <2>1, ContentStays
  <2> QED
    BY <2>1, <2>2, OverStays
<1> QED
  BY <1>1, <1>2

\* A review is approved after a run that passed, and everything else comes of that.
LEMMA PushingStep ==
  ASSUME WireTypeOK, Rows!TypeOK, QueueTypeOK, [Next]_vars, NEW r \in Reviews, ~Pushing(r), Pushing(r)'
  PROVE  latestRun = "passed"
<1> USE DistinctNames DEF Requests
<1>0. /\ "prepare" \in Flows /\ "recovery" \in Flows
      /\ Prompts \subseteq Flows /\ Closers \subseteq Flows /\ Reviews \subseteq Flows
  BY DEF Flows
<1>1. ASSUME flow'[r].at = flow[r].at, tx'[r].stage = "approved" => tx[r].stage = "approved",
             \/ UNCHANGED inbox \/ inbox' = <<>>
             \/ inbox # <<>> /\ inbox' = Tail(inbox)
             \/ \E q \in Requests : q # r /\ inbox' = Append(inbox, q)
      PROVE  FALSE
  <2>1. ASSUME NEW i \in DOMAIN inbox', inbox'[i] = r
        PROVE  \E j \in DOMAIN inbox : inbox[j] = r
    <3>1. CASE inbox # <<>> /\ inbox' = Tail(inbox)
      BY <2>1, <3>1, InboxTail
    <3>2. CASE \E q \in Requests : q # r /\ inbox' = Append(inbox, q)
      BY <2>1, <3>2 DEF QueueTypeOK
    <3>3. CASE inbox' = <<>>
      BY <2>1, <3>3
    <3> QED
      BY <1>1, <2>1, <3>1, <3>2, <3>3
  <2> QED
    BY <1>1, <2>1 DEF Pushing
<1>2. /\ tx \in [Handlers -> Rows!Transaction] /\ Rows!NoTx.stage # "approved"
      /\ r \in Handlers /\ r \notin Flows \X Slots /\ r \in Flows
  BY <1>0 DEF Rows!TypeOK, Rows!NoTx, Handlers
<1>3. ASSUME NEW h \in Handlers, NEW t, tx' = [tx EXCEPT ![h] = t], h # r \/ t.stage # "approved"
      PROVE  tx'[r].stage = "approved" => tx[r].stage = "approved"
  BY <1>2, <1>3
<1>4. CASE Request
  <2>1. tx'[r].stage = "approved" => tx[r].stage = "approved"
    BY <1>3, <1>4
    DEF Request, AcceptPrompt, BeginClose, BeginReview, Rows!BeginClose, Rows!BeginReview, Rows!NoTx, Handlers, rowVars
  <2> QED
    BY <1>1, <1>4, <2>1 DEF Request, AcceptPrompt, BeginClose, BeginReview, wireVars
<1>5. ASSUME NEW f \in Flows, Timeout(f) \/ \E s \in Slots : EventStep(f, s)
      PROVE  FALSE
  <2>1. flow'[r].at = flow[r].at
    BY <1>2, <1>5, EventsMoveNobody
  <2>2. ASSUME Timeout(f)
        PROVE  tx'[r] = tx[r]
    BY <2>2 DEF Timeout, rowVars
  <2>4. ASSUME NEW s \in Slots, EventStep(f, s)
        PROVE  tx'[r] = tx[r]
    <3>1. <<f, s>> # r
      BY <1>2
    <3>2. tx' = tx \/ \E t : tx' = [tx EXCEPT ![<<f, s>>] = t]
      BY <2>4
      DEF EventStep, ReadEvent, ReadLatestRun, CommitEvent, RejectEvent, LoseEvent, rowVars,
          Rows!ReadForEvent, Rows!ReadLatestRun, Rows!CommitEvent, Rows!RejectEvent
    <3> QED
      BY <1>2, <3>1, <3>2
  <2>3. UNCHANGED inbox
    BY <1>5 DEF Timeout, EventStep, ReadEvent, ReadLatestRun, CommitEvent, RejectEvent, LoseEvent
  <2> QED
    BY <1>1, <1>5, <2>1, <2>2, <2>3, <2>4
<1>6. CASE PrepareStep
  <2>1. flow'[r] = flow[r] /\ UNCHANGED tx
    BY <1>0, <1>6, OtherFlows
    DEF PrepareStep, ReceivePrepare, QueuePrepare, BeginPrepare, CreateWorktree, StartSandbox,
        OpenPreview, FailPrepare, ReportPrepare, EndPrepare, rowVars
  <2>2. UNCHANGED inbox \/ (inbox # <<>> /\ inbox' = Tail(inbox))
    BY <1>6
    DEF PrepareStep, ReceivePrepare, Receive, QueuePrepare, BeginPrepare, CreateWorktree, StartSandbox,
        OpenPreview, FailPrepare, ReportPrepare, EndPrepare
  <2> QED
    BY <1>1, <2>1, <2>2
<1>7. ASSUME NEW p \in Prompts, PromptStep(p)
      PROVE  FALSE
  <2>1. p \in Flows /\ p # r /\ p \in Requests
    BY <1>0
  <2>2. flow'[r] = flow[r] /\ UNCHANGED tx
    BY <1>0, <1>7, <2>1, OtherFlows
    DEF PromptStep, RoutePrompt, ReceivePrompt, RunHarness, HarnessSucceeds, HarnessFails, RunChecks,
        GiveUpRepair, BreakPrompt, DropPrompt, EndPrompt, wireVars, rowVars
  <2>3. \/ UNCHANGED inbox
        \/ inbox # <<>> /\ inbox' = Tail(inbox)
        \/ inbox' = Append(inbox, p)
    BY <1>7
    DEF PromptStep, RoutePrompt, Send, ReceivePrompt, Receive, RunHarness, HarnessSucceeds, HarnessFails, RunChecks,
        GiveUpRepair, BreakPrompt, DropPrompt, EndPrompt
  <2> QED
    BY <1>1, <2>1, <2>2, <2>3
<1>8. ASSUME NEW c \in Closers, CloseStep(c)
      PROVE  FALSE
  <2>1. c \in Flows /\ c # r /\ c \in Requests /\ c \in Handlers
    BY <1>0 DEF Handlers
  <2>2. flow'[r] = flow[r]
    BY <1>0, <1>8, <2>1, OtherFlows
    DEF CloseStep, RouteClose, CommitClose, FailClose, Enqueue, CleanUp, FailCleanUp, RefuseClosed, EndClose,
        Finish, wireVars
  <2>3. tx'[r] = tx[r]
    BY <1>2, <1>8, <2>1
    DEF CloseStep, RouteClose, CommitClose, FailClose, Enqueue, CleanUp, FailCleanUp, RefuseClosed, EndClose,
        Finish, rowVars, Rows!CommitClose, Rows!AbortClose
  <2>4. \/ UNCHANGED inbox
        \/ inbox # <<>> /\ inbox' = Tail(inbox)
        \/ inbox' = Append(inbox, c)
    BY <1>8
    DEF CloseStep, RouteClose, Send, CommitClose, FailClose, Enqueue, Receive, CleanUp, FailCleanUp, RefuseClosed,
        EndClose, Finish
  <2> QED
    BY <1>1, <2>1, <2>2, <2>3, <2>4
<1>9. ASSUME NEW q \in Reviews, ReviewStep(q)
      PROVE  latestRun = "passed"
  <2>1. q \in Flows /\ q \in Requests /\ q \in Handlers
    BY <1>0 DEF Handlers
  <2>2. CASE ApproveReview(q)
    <3>1. CASE q = r
      BY <2>2, <3>1 DEF ApproveReview, Rows!ApproveReview, Rows!MayReview
    <3>2. CASE q # r
      BY <1>1, <1>2, <2>1, <2>2, <3>2 DEF ApproveReview, Rows!ApproveReview, wireVars
    <3> QED
      BY <3>1, <3>2
  <2>3. CASE ~ApproveReview(q)
    <3>1. tx'[r].stage = "approved" => tx[r].stage = "approved"
      BY <1>2, <1>3, <1>9, <2>1, <2>3
      DEF ReviewStep, RefuseReview, RoutePush, OpenPullRequest, FailReview, CommitReview, Enqueue, Finish,
          PushBranch, FailPush, EndPush, rowVars, Rows!RefuseReview, Rows!AbortReview, Rows!CommitReview
    <3>2. ASSUME q # r
          PROVE  FALSE
      <4>1. flow'[r] = flow[r]
        BY <1>0, <1>9, <2>1, <3>2, OtherFlows
        DEF ReviewStep, ApproveReview, RefuseReview, RoutePush, OpenPullRequest, FailReview, CommitReview, Enqueue,
            Finish, PushBranch, FailPush, EndPush, wireVars
      <4>2. \/ UNCHANGED inbox
            \/ inbox # <<>> /\ inbox' = Tail(inbox)
            \/ inbox' = Append(inbox, q)
        BY <1>9
        DEF ReviewStep, ApproveReview, RefuseReview, RoutePush, Send, OpenPullRequest, FailReview, CommitReview,
            Enqueue, Receive, Finish, PushBranch, FailPush, EndPush
      <4> QED
        BY <1>1, <2>1, <3>1, <3>2, <4>1, <4>2
    <3>3. ASSUME q = r
          PROVE  FALSE
      <4>1. tx[r].stage # "approved" /\ flow[r].at = "idle" /\ \A i \in DOMAIN inbox : inbox[i] # r
        BY DEF Pushing
      <4>2. ~RoutePush(r) /\ ~Enqueue(r)
        <5>1. ASSUME Enqueue(r)
              PROVE  1 \in DOMAIN inbox /\ inbox[1] = r
          BY <5>1 DEF Enqueue, Receive, QueueTypeOK
        <5> QED
          BY <4>1, <5>1 DEF RoutePush
      <4>3. CASE RefuseReview(r) \/ OpenPullRequest(r) \/ FailReview(r) \/ CommitReview(r)
        BY <1>1, <3>1, <4>3 DEF RefuseReview, OpenPullRequest, FailReview, CommitReview, wireVars
      <4>4. ~(PushBranch(r) \/ FailPush(r) \/ EndPush(r))
        BY <4>1 DEF PushBranch, FailPush, EndPush, Finish, At
      <4> QED
        BY <1>9, <2>3, <3>3, <4>2, <4>3, <4>4 DEF ReviewStep
    <3> QED
      BY <3>2, <3>3
  <2> QED
    BY <2>2, <2>3
<1>10. CASE LoadRegistry \/ RebuildPreview \/ FailRecovery \/ EndRecovery \/ Restart
  <2>1. flow'[r] = flow[r] /\ UNCHANGED <<inbox, tx>>
    BY <1>0, <1>2, <1>10, OtherFlows DEF LoadRegistry, RebuildPreview, FailRecovery, EndRecovery, Restart, rowVars
  <2> QED
    BY <1>1, <2>1
<1>11. CASE Crash \/ AbandonRecovery
  <2>1. Stop
    BY <1>11 DEF Crash, AbandonRecovery
  <2>2. flow[r].at = "idle"
    BY DEF Pushing
  <2>3. flow'[r] = flow[r] /\ inbox' = <<>> /\ UNCHANGED tx
    BY <1>2, <2>1, <2>2 DEF Stop, rowVars
  <2> QED
    BY <1>1, <2>3
<1>12. CASE Drop \/ Reconnect \/ UNCHANGED vars
  BY <1>1, <1>12 DEF Drop, Reconnect, vars, wireVars, rowVars
<1> QED
  BY <1>4, <1>5, <1>6, <1>7, <1>8, <1>9, <1>10, <1>11, <1>12 DEF Next, RecoveryStep, Fault

\* What is pushed and published is the worktree of a review that was approved.
LEMMA PublishedStep ==
  ASSUME ApiTypeOK, [Next]_vars
  PROVE  /\ \/ branch' = branch
            \/ branch' = content /\ \E r \in Reviews : flow[r].at # "idle"
         /\ pullRequest' \in {pullRequest, branch}
<1>1. CASE \E r \in Reviews : ReviewStep(r)
  BY <1>1
  DEF ReviewStep, ApproveReview, RefuseReview, RoutePush, OpenPullRequest, FailReview, CommitReview, Enqueue,
      Finish, PushBranch, FailPush, EndPush, apiVars, At
<1>2. CASE ~\E r \in Reviews : ReviewStep(r)
  <2>1. UNCHANGED <<branch, pullRequest>>
    BY <1>2
    DEF Next, Request, AcceptPrompt, BeginClose, BeginReview, EventStep, ReadEvent, ReadLatestRun, CommitEvent,
        RejectEvent, LoseEvent, PrepareStep, ReceivePrepare, QueuePrepare, BeginPrepare, CreateWorktree,
        StartSandbox, OpenPreview, FailPrepare, ReportPrepare, EndPrepare, PromptStep, RoutePrompt, ReceivePrompt,
        RunHarness, HarnessSucceeds, HarnessFails, RunChecks, GiveUpRepair, BreakPrompt, DropPrompt, EndPrompt,
        CloseStep, RouteClose, CommitClose, FailClose, Enqueue, CleanUp, FailCleanUp, RefuseClosed, EndClose,
        Finish, RecoveryStep, LoadRegistry, RebuildPreview, FailRecovery, EndRecovery,
        AbandonRecovery, Fault, Crash, Restart, Drop, Reconnect, Timeout, Stop, vars, apiVars
  <2> QED
    BY <2>1
<1> QED
  BY <1>1, <1>2

LEMMA PushesStep ==
  ASSUME WireTypeOK, Rows!TypeOK, WorkTypeOK, QueueTypeOK, ApiTypeOK, ChecksAreOfPrompts, PromptsComeOnce,
         PassedIsOfContent, PushesAreValidated, \A p, q \in Prompts : p = q, [Next]_vars
  PROVE  PushesAreValidated'
<1>1. (latestRun = "passed" => Validated)'
  BY RecordedRuns, ValidatedStays DEF PushesAreValidated
<1>2. ASSUME NEW r \in Reviews, Pushing(r)'
      PROVE  Validated'
  <2>1. Validated
    BY <1>2, PushingStep DEF PushesAreValidated
  <2> QED
    BY <2>1, ValidatedStays
<1>3. validated \subseteq validated'
  BY ContentStays
<1>4. (branch # NotPushed => branch \in validated)'
  <2>1. CASE branch' = branch
    BY <1>3, <2>1 DEF PushesAreValidated, NotPushed
  <2>2. CASE branch' = content /\ \E r \in Reviews : flow[r].at # "idle"
    BY <1>3, <2>2 DEF PushesAreValidated, Pushing, Validated
  <2> QED
    BY <2>1, <2>2, PublishedStep
<1>5. (pullRequest # NotPushed => pullRequest \in validated)'
  BY <1>3, PublishedStep DEF PushesAreValidated, NotPushed
<1> QED
  BY <1>1, <1>2, <1>4, <1>5 DEF PushesAreValidated

\* With one prompt, the pull request shows a draft whose checks passed in a recorded run,
\* for any closes, reviews, drafts, repairs and faults.
THEOREM PullRequestsAreValidated ==
  ASSUME \A p, q \in Prompts : p = q
  PROVE  Spec => []PullRequestIsValidated
<1>1. Init => PromptsComeOnce /\ PassedIsOfContent /\ PushesAreValidated
  <2> SUFFICES ASSUME Init
               PROVE  PromptsComeOnce /\ PassedIsOfContent /\ PushesAreValidated
    OBVIOUS
  <2>0. /\ "prepare" \notin Requests /\ Prompts \cup Reviews \subseteq Requests
        /\ Prompts \cup Reviews \subseteq Flows /\ Reviews \subseteq Handlers
    BY DistinctNames DEF Requests, Flows, Handlers
  <2>1. \A i \in DOMAIN inbox : inbox[i] = "prepare"
    BY DEF Init
  <2>2. PromptsComeOnce
    BY <2>0, <2>1 DEF Init, PromptsComeOnce
  <2>3. NoEvent # ChecksPassed
    BY Emitted, DistinctNames DEF ChecksPassed
  <2>4. PassedIsOfContent
    <3>1. \A h \in Handlers : tx[h].event # ChecksPassed
      BY OtherEvents DEF Init, Rows!Init, Rows!NoTx, Rows!Event, Event
    <3> QED
      BY <2>0, <2>3, <3>1 DEF Init, PassedIsOfContent, Passing, Handlers
  <2>5. PushesAreValidated
    BY <2>0, <2>1 DEF Init, Rows!Init, Rows!NoTx, PushesAreValidated, Pushing
  <2> QED
    BY <2>2, <2>4, <2>5
<1>2. TypeOK /\ Typed /\ [Next]_vars /\ PromptsComeOnce /\ PassedIsOfContent /\ PushesAreValidated
        => (PromptsComeOnce /\ PassedIsOfContent /\ PushesAreValidated)'
  <2> SUFFICES ASSUME TypeOK, Typed, [Next]_vars, PromptsComeOnce, PassedIsOfContent, PushesAreValidated
               PROVE  (PromptsComeOnce /\ PassedIsOfContent /\ PushesAreValidated)'
    OBVIOUS
  <2>1. WireTypeOK /\ Rows!TypeOK /\ WorkTypeOK /\ QueueTypeOK /\ ApiTypeOK /\ ChecksAreOfPrompts
    BY DEF TypeOK, Typed
  <2>2. PromptsComeOnce'
    BY <2>1, PromptsOnceStep
  <2>3. PassedIsOfContent'
    BY <2>1, PassedStep
  <2>4. PushesAreValidated'
    BY <2>1, PushesStep
  <2> QED
    BY <2>2, <2>3, <2>4
<1>3. PushesAreValidated => PullRequestIsValidated
  BY DEF PushesAreValidated, PullRequestIsValidated
<1> QED
  BY <1>1, <1>2, <1>3, Typing, PTL DEF Spec
=============================================================================
