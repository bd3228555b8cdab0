------------------------------ MODULE SessionRow ------------------------------
(***************************************************************************)
(* The durable state of one session in the API's database, and every       *)
(* transaction that changes it.                                            *)
(*                                                                         *)
(* The API runs its handlers concurrently and PostgreSQL runs their        *)
(* transactions READ COMMITTED.  None of the three writers of the session  *)
(* row (SessionEventsService.apply, SessionCloseService.closeSession,      *)
(* CreateReviewRequestUseCase.create) locks the row: each reads it, awaits *)
(* something, and overwrites it with a status computed from what it read.  *)
(* So every handler is a read step that takes a snapshot, and a later      *)
(* commit step that writes what the snapshot justified, with any step of   *)
(* the other handlers in between.                                          *)
(*                                                                         *)
(* lastError and previewUrl are left out: no status depends on them.       *)
(***************************************************************************)
EXTENDS SessionStateMachine

CONSTANT Handler  \* identities of the API's concurrent request and event handlers

VARIABLES
  row,           \* the sessions row: its status and whether closed_at is set
  latestRun,     \* the outcome of the latest validation_runs row
  runs,          \* the outcomes of all validation_runs rows
  reviewRequest, \* whether a review_requests row exists for the session
  tx             \* what each handler is doing, and the snapshot it works from

vars == <<row, latestRun, runs, reviewRequest, tx>>

Row == [status : SessionStatus, closedAt : BOOLEAN]

Stage == {"idle", "reading", "applying", "closing", "reviewing", "approved"}

Created == [status |-> "CREATED", closedAt |-> FALSE]

NoTx == [stage |-> "idle", event |-> Event("error", "none"), seen |-> Created, latest |-> "none"]

Init ==
  /\ row = Created
  /\ latestRun = "none"
  /\ runs = {}
  /\ reviewRequest = FALSE
  /\ tx = [h \in Handler |-> NoTx]

(***************************************************************************)
(* SessionEventsService.apply: one transaction that reads the row, for a   *)
(* turn without changes also the latest validation run, decides, and       *)
(* writes.  It locks nothing, and a read sees what is committed by then.   *)
(***************************************************************************)
ReadForEvent(h, e) ==
  /\ tx[h].stage = "idle"
  /\ tx' = [tx EXCEPT ![h] =
       [stage |-> IF e = Event("agent.done", "unchanged") THEN "reading" ELSE "applying",
        event |-> e, seen |-> row, latest |-> "none"]]
  /\ UNCHANGED <<row, latestRun, runs, reviewRequest>>

ReadLatestRun(h) ==
  /\ tx[h].stage = "reading"
  /\ tx' = [tx EXCEPT ![h] =
       [stage |-> "applying", event |-> tx[h].event, seen |-> tx[h].seen, latest |-> latestRun]]
  /\ UNCHANGED <<row, latestRun, runs, reviewRequest>>

\* The row the event leads to.  closed_at is set by session.closed and is
\* otherwise written back as it was read.
AppliedRow(t) ==
  [status |-> NextStatus(t.seen.status, t.event, t.latest),
   closedAt |-> t.seen.closedAt \/ t.event.type = "session.closed"]

CommitEvent(h) ==
  /\ tx[h].stage = "applying"
  /\ Accepts(tx[h].seen.status, tx[h].event)
  /\ row' = AppliedRow(tx[h])
  /\ IF tx[h].event.type = "checks.result"
       THEN latestRun' = tx[h].event.arg /\ runs' = runs \cup {tx[h].event.arg}
       ELSE UNCHANGED <<latestRun, runs>>
  /\ tx' = [tx EXCEPT ![h] = NoTx]
  /\ UNCHANGED reviewRequest

RejectEvent(h) ==
  /\ tx[h].stage = "applying"
  /\ ~Accepts(tx[h].seen.status, tx[h].event)
  /\ tx' = [tx EXCEPT ![h] = NoTx]
  /\ UNCHANGED <<row, latestRun, runs, reviewRequest>>

(***************************************************************************)
(* SessionCloseService.closeSession: reads the row, asks the agent to      *)
(* clean up, and writes CLOSED whatever the row has become; a failed       *)
(* clean-up leaves the row alone.                                          *)
(***************************************************************************)
BeginClose(h) ==
  /\ tx[h].stage = "idle"
  /\ row.status # "CLOSED"
  /\ tx' = [tx EXCEPT ![h] = [NoTx EXCEPT !.stage = "closing", !.seen = row]]
  /\ UNCHANGED <<row, latestRun, runs, reviewRequest>>

CommitClose(h) ==
  /\ tx[h].stage = "closing"
  /\ row' = [status |-> "CLOSED", closedAt |-> TRUE]
  /\ tx' = [tx EXCEPT ![h] = NoTx]
  /\ UNCHANGED <<latestRun, runs, reviewRequest>>

AbortClose(h) ==
  /\ tx[h].stage = "closing"
  /\ tx' = [tx EXCEPT ![h] = NoTx]
  /\ UNCHANGED <<row, latestRun, runs, reviewRequest>>

(***************************************************************************)
(* CreateReviewRequestUseCase.create: reads the session, later the latest  *)
(* validation run, lets the validation policy decide, and once the branch  *)
(* is pushed and the pull request opened stores the review request and     *)
(* overwrites the status, restoring the closing date it read.              *)
(***************************************************************************)

\* Mutant of MayReview: the policy looks at the status only.
MayReviewByStatus(status, latest) == status = "AWAITING_PM_VALIDATION"

\* Mutant of MayReview: the policy is not consulted.
MayReviewAlways(status, latest) == TRUE

\* ValidationPolicy.failureReasons is empty.
MayReview(status, latest) == status = "AWAITING_PM_VALIDATION" /\ latest = "passed"

BeginReview(h) ==
  /\ tx[h].stage = "idle"
  /\ tx' = [tx EXCEPT ![h] = [NoTx EXCEPT !.stage = "reviewing", !.seen = row]]
  /\ UNCHANGED <<row, latestRun, runs, reviewRequest>>

ApproveReview(h) ==
  /\ tx[h].stage = "reviewing"
  /\ MayReview(tx[h].seen.status, latestRun)
  /\ tx' = [tx EXCEPT ![h].stage = "approved"]
  /\ UNCHANGED <<row, latestRun, runs, reviewRequest>>

RefuseReview(h) ==
  /\ tx[h].stage = "reviewing"
  /\ ~MayReview(tx[h].seen.status, latestRun)
  /\ tx' = [tx EXCEPT ![h] = NoTx]
  /\ UNCHANGED <<row, latestRun, runs, reviewRequest>>

AbortReview(h) ==
  /\ tx[h].stage = "approved"
  /\ tx' = [tx EXCEPT ![h] = NoTx]
  /\ UNCHANGED <<row, latestRun, runs, reviewRequest>>

CommitReview(h) ==
  /\ tx[h].stage = "approved"
  /\ row' = [status |-> "REVIEW_REQUEST_CREATED", closedAt |-> tx[h].seen.closedAt]
  /\ reviewRequest' = TRUE
  /\ tx' = [tx EXCEPT ![h] = NoTx]
  /\ UNCHANGED <<latestRun, runs>>

EventStep(h) ==
  \/ \E e \in AgentEvents : ReadForEvent(h, e)
  \/ ReadLatestRun(h)
  \/ CommitEvent(h)
  \/ RejectEvent(h)

CloseStep(h) == BeginClose(h) \/ CommitClose(h) \/ AbortClose(h)

ReviewStep(h) ==
  \/ BeginReview(h)
  \/ ApproveReview(h)
  \/ RefuseReview(h)
  \/ AbortReview(h)
  \/ CommitReview(h)

Next == \E h \in Handler : EventStep(h) \/ CloseStep(h) \/ ReviewStep(h)

Spec == Init /\ [][Next]_vars
-----------------------------------------------------------------------------
Transaction == [stage : Stage, event : AgentEvents, seen : Row, latest : RunOutcome]

\* Type invariant of the session's rows and of the handlers' snapshots.
TypeOK ==
  /\ row \in Row
  /\ latestRun \in RunOutcome
  /\ runs \subseteq {"passed", "failed"}
  /\ reviewRequest \in BOOLEAN
  /\ tx \in [Handler -> Transaction]

\* A session shown as CLOSED has a closing date, in the row and in every
\* snapshot a handler may still write back: interleaved writers never leave
\* the status of one and the date of the other.
ClosedIsStamped ==
  /\ row.status = "CLOSED" => row.closedAt
  /\ \A h \in Handler : tx[h].seen.status = "CLOSED" => tx[h].seen.closedAt

\* A review request exists only for a session of which some validation run
\* passed, however the handlers interleave and whatever statuses the events
\* announce: the policy re-reads the run and does not trust the status.
ReviewNeedsPassedRun == reviewRequest => "passed" \in runs

\* A handler that has read a CLOSED row never puts the session back to work:
\* the row stays CLOSED, or becomes FAILED or AWAITING_PM_VALIDATION (late
\* failures and late check results are the only events that reopen it).
ClosedStep ==
  \A h \in Handler :
    (tx[h].seen.status = "CLOSED" /\ tx'[h] # tx[h] /\ row' # row)
       => row'.status \in {"CLOSED", "FAILED", "AWAITING_PM_VALIDATION"}
ClosedNeverResumesWork == [][ClosedStep]_vars
=============================================================================
