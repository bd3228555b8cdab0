-------------------------- MODULE SessionStateMachine --------------------------
(***************************************************************************)
(* The pure transition rules of a session: SessionStateMachine of          *)
(* apps/api/src/sessions/session-state-machine.ts, the status vocabulary   *)
(* of the shared protocol, and what SessionEventsService.apply decides     *)
(* from the session row it has read.  No variables: the modules that keep  *)
(* a session row use these operators on the row they have read.            *)
(***************************************************************************)

Preparing == {"CREATED", "AGENT_CONNECTING", "WORKTREE_CREATING",
              "DOCKER_STARTING", "PREVIEW_STARTING"}

Operating == {"AGENT_RUNNING", "CHECKS_RUNNING", "REVIEW_REQUEST_CREATING"}

Promptable == {"READY", "AWAITING_PM_VALIDATION", "FAILED"}

SessionStatus == Preparing \cup Operating \cup Promptable
                   \cup {"REVIEW_REQUEST_CREATED", "CLOSING", "CLOSED"}

\* The outcome of the latest validation run of the session, if it has any.
RunOutcome == {"none", "passed", "failed"}

(***************************************************************************)
(* An event is a type and the one part of its payload the rules look at:   *)
(* the announced status of a progress event, whether a finished harness    *)
(* changed the worktree or exited with an error, the outcome of the        *)
(* checks.  An outcome of checks is "passed" when no check is anything but *)
(* passed (summarizeChecksFailure): a skipped check counts as failed.      *)
(***************************************************************************)
Event(type, arg) == [type |-> type, arg |-> arg]

ProgressEvents == {Event("session.progress", s) :
                     s \in SessionStatus \ {"CREATED", "READY", "CLOSING", "CLOSED", "FAILED"}}

DoneEvents == {Event("agent.done", a) : a \in {"changed", "unchanged", "failed"}}

ChecksEvents == {Event("checks.result", a) : a \in {"passed", "failed"}}

PlainEvents == {Event(t, "none") :
                  t \in {"session.ready", "session.recovered", "session.closed", "error"}}

AgentEvents == ProgressEvents \cup DoneEvents \cup ChecksEvents \cup PlainEvents

Transitions ==
  { <<"CREATED", "AGENT_CONNECTING">>,
    <<"AGENT_CONNECTING", "WORKTREE_CREATING">>,
    <<"WORKTREE_CREATING", "DOCKER_STARTING">>,
    <<"DOCKER_STARTING", "PREVIEW_STARTING">>,
    <<"PREVIEW_STARTING", "READY">>,
    <<"READY", "AGENT_RUNNING">>,
    <<"AGENT_RUNNING", "CHECKS_RUNNING">>,
    <<"CHECKS_RUNNING", "AGENT_RUNNING">>,
    <<"CHECKS_RUNNING", "AWAITING_PM_VALIDATION">>,
    <<"AWAITING_PM_VALIDATION", "AGENT_RUNNING">>,
    <<"AWAITING_PM_VALIDATION", "REVIEW_REQUEST_CREATING">>,
    <<"FAILED", "AGENT_RUNNING">>,
    <<"REVIEW_REQUEST_CREATING", "REVIEW_REQUEST_CREATED">>,
    <<"CLOSING", "CLOSED">> }

CanTransition(from, to) == <<from, to>> \in Transitions

\* The status a harness run that changed nothing goes back to: the one the
\* latest validation run justifies.
ResumeStatus(latest) ==
  CASE latest = "passed" -> "AWAITING_PM_VALIDATION"
    [] latest = "failed" -> "FAILED"
    [] OTHER -> "READY"

RecoveredStatus(status) ==
  CASE status \in Preparing -> "READY"
    [] status \in Operating -> "FAILED"
    [] OTHER -> status

\* Whether the transition is legal; an illegal one throws
\* InvalidSessionTransitionError and the transaction persists nothing.
Accepts(status, event) ==
  CASE event.type = "session.progress" -> CanTransition(status, event.arg)
    [] event.type = "session.ready" -> CanTransition(status, "READY")
    [] event.type = "agent.done" /\ event.arg = "changed" ->
         CanTransition(status, "CHECKS_RUNNING")
    [] event.type = "agent.done" /\ event.arg = "unchanged" -> status = "AGENT_RUNNING"
    [] OTHER -> TRUE

\* The status an accepted event leads to from `status`, when `latest` is the
\* outcome of the latest validation run.
NextStatus(status, event, latest) ==
  CASE event.type = "session.progress" -> event.arg
    [] event.type = "session.ready" -> "READY"
    [] event.type = "session.recovered" -> RecoveredStatus(status)
    [] event.type = "agent.done" /\ event.arg = "changed" -> "CHECKS_RUNNING"
    [] event.type = "agent.done" /\ event.arg = "unchanged" -> ResumeStatus(latest)
    [] event.type = "checks.result" /\ event.arg = "passed" -> "AWAITING_PM_VALIDATION"
    [] event.type = "session.closed" -> "CLOSED"
    [] OTHER -> "FAILED"
=============================================================================
