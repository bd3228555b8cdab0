--------------------------- MODULE SessionRow_proofs ---------------------------
(***************************************************************************)
(* Proofs about SessionRow: for any number of concurrent handlers, the     *)
(* rows stay typed, a closed row is stamped, a review request needs a      *)
(* passed run, and a handler that saw a closed row never resumes work.     *)
(***************************************************************************)
EXTENDS SessionRow, TLAPS

\* The arguments an event may carry, by its type.
LEMMA EventArguments ==
  ASSUME NEW e \in AgentEvents
  PROVE  /\ e.type \in {"session.progress", "agent.done", "checks.result", "session.ready",
                        "session.recovered", "session.closed", "error"}
         /\ e.type = "session.progress" =>
              e.arg \in SessionStatus \ {"CREATED", "READY", "CLOSING", "CLOSED", "FAILED"}
         /\ e.type = "agent.done" => e.arg \in {"changed", "unchanged", "failed"}
         /\ e.type = "checks.result" => e.arg \in {"passed", "failed"}
<1>1. CASE e \in ProgressEvents
  BY <1>1 DEF ProgressEvents, Event
<1>2. CASE e \in DoneEvents
  BY <1>2 DEF DoneEvents, Event
<1>3. CASE e \in ChecksEvents
  BY <1>3 DEF ChecksEvents, Event
<1>4. CASE e \in PlainEvents
  BY <1>4 DEF PlainEvents, Event
<1> QED
  BY <1>1, <1>2, <1>3, <1>4 DEF AgentEvents

\* Every accepted event leads to a status of the vocabulary.
LEMMA NextStatusType ==
  ASSUME NEW status \in SessionStatus, NEW e \in AgentEvents, NEW latest \in RunOutcome
  PROVE  NextStatus(status, e, latest) \in SessionStatus
<1> USE EventArguments DEF NextStatus, SessionStatus, Preparing, Operating, Promptable
<1>1. CASE e.type = "session.progress"
  BY <1>1
<1>2. CASE e.type = "session.recovered"
  BY <1>2 DEF RecoveredStatus
<1>3. CASE e.type = "agent.done"
  BY <1>3 DEF ResumeStatus, RunOutcome
<1>4. CASE e.type \in {"checks.result", "session.ready", "session.closed", "error"}
  BY <1>4
<1> QED
  BY <1>1, <1>2, <1>3, <1>4

\* Only session.closed, and the recovery of a session already closed, lead to CLOSED.
LEMMA ClosedComesFromClosing ==
  ASSUME NEW status \in SessionStatus, NEW e \in AgentEvents, NEW latest \in RunOutcome,
         NextStatus(status, e, latest) = "CLOSED"
  PROVE  e.type = "session.closed" \/ status = "CLOSED"
<1> USE EventArguments DEF NextStatus
<1>1. CASE e.type = "session.progress"
  BY <1>1
<1>2. CASE e.type = "session.recovered"
  BY <1>2 DEF RecoveredStatus
<1>3. CASE e.type = "agent.done"
  BY <1>3 DEF ResumeStatus
<1>4. CASE e.type \in {"checks.result", "session.ready", "session.closed", "error"}
  BY <1>4
<1> QED
  BY <1>1, <1>2, <1>3, <1>4

\* From CLOSED, an accepted event leads to CLOSED, FAILED or AWAITING_PM_VALIDATION.
LEMMA LeavingClosed ==
  ASSUME NEW e \in AgentEvents, NEW latest \in RunOutcome, Accepts("CLOSED", e)
  PROVE  NextStatus("CLOSED", e, latest) \in {"CLOSED", "FAILED", "AWAITING_PM_VALIDATION"}
<1> USE EventArguments DEF NextStatus, Accepts
<1>1. CASE e.type = "session.progress"
  <2>1. \A s : <<"CLOSED", s>> \notin Transitions
    BY DEF Transitions
  <2> QED
    BY <1>1, <2>1 DEF CanTransition
<1>2. CASE e.type = "session.ready"
  <2>1. <<"CLOSED", "READY">> \notin Transitions
    BY DEF Transitions
  <2> QED
    BY <1>2, <2>1 DEF CanTransition
<1>3. CASE e.type = "agent.done"
  <2>1. <<"CLOSED", "CHECKS_RUNNING">> \notin Transitions
    BY DEF Transitions
  <2> QED
    BY <1>3, <2>1 DEF CanTransition
<1>4. CASE e.type = "session.recovered"
  BY <1>4 DEF RecoveredStatus, Preparing, Operating
<1>5. CASE e.type \in {"checks.result", "session.closed", "error"}
  BY <1>5
<1> QED
  BY <1>1, <1>2, <1>3, <1>4, <1>5
-----------------------------------------------------------------------------
\* An idle handler's transaction, and the row a session is created with.
LEMMA NoTxType == NoTx \in Transaction /\ Created \in Row
<1>1. Event("error", "none") \in AgentEvents
  BY DEF AgentEvents, PlainEvents
<1>2. Created \in Row
  BY DEF Created, Row, SessionStatus, Preparing
<1> QED
  BY <1>1, <1>2 DEF NoTx, Transaction, Stage, RunOutcome

\* The type invariant holds whatever handlers there are and events they apply.
THEOREM Typing == Spec => []TypeOK
<1>1. Init => TypeOK
  BY NoTxType DEF Init, TypeOK, RunOutcome
<1>2. TypeOK /\ [Next]_vars => TypeOK'
  <2> SUFFICES ASSUME TypeOK, [Next]_vars
               PROVE  TypeOK'
    OBVIOUS
  <2> USE NoTxType DEF TypeOK
  <2>1. ASSUME NEW h \in Handler, NEW e \in AgentEvents, ReadForEvent(h, e)
        PROVE  TypeOK'
    <3> DEFINE t == [stage |-> IF e = Event("agent.done", "unchanged") THEN "reading" ELSE "applying",
                     event |-> e, seen |-> row, latest |-> "none"]
    <3>1. t \in Transaction
      BY DEF Transaction, Stage, RunOutcome
    <3>2. tx' = [tx EXCEPT ![h] = t]
      BY <2>1 DEF ReadForEvent
    <3> HIDE DEF t
    <3> QED
      BY <2>1, <3>1, <3>2 DEF ReadForEvent
  <2>7. ASSUME NEW h \in Handler, ReadLatestRun(h)
        PROVE  TypeOK'
    <3>1. [stage |-> "applying", event |-> tx[h].event, seen |-> tx[h].seen, latest |-> latestRun]
            \in Transaction
      BY DEF Transaction, Stage
    <3> QED
      BY <2>7, <3>1 DEF ReadLatestRun
  <2>2. ASSUME NEW h \in Handler, CommitEvent(h)
        PROVE  TypeOK'
    <3>1. tx[h] \in Transaction
      OBVIOUS
    <3>2. AppliedRow(tx[h]) \in Row
      BY <3>1, NextStatusType DEF AppliedRow, Row, Transaction
    <3>3. latestRun' \in RunOutcome /\ runs' \subseteq {"passed", "failed"}
      <4>1. tx[h].event \in AgentEvents
        BY <3>1 DEF Transaction
      <4>2. tx[h].event.type = "checks.result" => tx[h].event.arg \in {"passed", "failed"}
        BY <4>1, EventArguments
      <4> QED
        BY <2>2, <4>2 DEF CommitEvent, RunOutcome
    <3> QED
      BY <2>2, <3>2, <3>3 DEF CommitEvent
  <2>3. ASSUME NEW h \in Handler, RejectEvent(h)
        PROVE  TypeOK'
    BY <2>3 DEF RejectEvent
  <2>4. ASSUME NEW h \in Handler, CloseStep(h)
        PROVE  TypeOK'
    <3>1. [NoTx EXCEPT !.stage = "closing", !.seen = row] \in Transaction
      BY DEF Transaction, Stage
    <3>2. [status |-> "CLOSED", closedAt |-> TRUE] \in Row
      BY DEF Row, SessionStatus
    <3> QED
      BY <2>4, <3>1, <3>2 DEF CloseStep, BeginClose, CommitClose, AbortClose
  <2>5. ASSUME NEW h \in Handler, ReviewStep(h)
        PROVE  TypeOK'
    <3>1. [NoTx EXCEPT !.stage = "reviewing", !.seen = row] \in Transaction
      BY DEF Transaction, Stage
    <3>2. [tx[h] EXCEPT !.stage = "approved"] \in Transaction
      BY DEF Transaction, Stage
    <3>3. [status |-> "REVIEW_REQUEST_CREATED", closedAt |-> tx[h].seen.closedAt] \in Row
      BY DEF Row, SessionStatus, Transaction
    <3> QED
      BY <2>5, <3>1, <3>2, <3>3
      DEF ReviewStep, BeginReview, ApproveReview, RefuseReview, AbortReview, CommitReview
  <2>6. CASE UNCHANGED vars
    BY <2>6 DEF vars
  <2> QED
    BY <2>1, <2>2, <2>3, <2>4, <2>5, <2>6, <2>7 DEF Next, EventStep
<1> QED
  BY <1>1, <1>2, PTL DEF Spec
-----------------------------------------------------------------------------
\* The strengthening of ClosedIsStamped: nothing is added, the snapshots are
\* already part of it.
THEOREM Stamping == Spec => []ClosedIsStamped
<1>1. Init => ClosedIsStamped
  BY DEF Init, ClosedIsStamped, NoTx, Created
<1>2. TypeOK /\ ClosedIsStamped /\ [Next]_vars => ClosedIsStamped'
  <2> SUFFICES ASSUME TypeOK, ClosedIsStamped, [Next]_vars
               PROVE  ClosedIsStamped'
    OBVIOUS
  <2> USE DEF TypeOK, ClosedIsStamped
  <2>0. NoTx.seen.status # "CLOSED"
    BY DEF NoTx, Created
  <2>1. ASSUME NEW h \in Handler, NEW e \in AgentEvents, ReadForEvent(h, e)
        PROVE  ClosedIsStamped'
    BY <2>1 DEF ReadForEvent
  <2>7. ASSUME NEW h \in Handler, ReadLatestRun(h)
        PROVE  ClosedIsStamped'
    BY <2>7 DEF ReadLatestRun
  <2>2. ASSUME NEW h \in Handler, CommitEvent(h)
        PROVE  ClosedIsStamped'
    <3>1. tx[h].seen.status \in SessionStatus /\ tx[h].event \in AgentEvents
            /\ tx[h].latest \in RunOutcome
      BY DEF Transaction, Row
    <3>2. AppliedRow(tx[h]).status = "CLOSED" => AppliedRow(tx[h]).closedAt
      BY <3>1, ClosedComesFromClosing DEF AppliedRow
    <3> QED
      BY <2>0, <2>2, <3>2 DEF CommitEvent
  <2>3. ASSUME NEW h \in Handler, RejectEvent(h)
        PROVE  ClosedIsStamped'
    BY <2>0, <2>3 DEF RejectEvent
  <2>4. ASSUME NEW h \in Handler, CloseStep(h)
        PROVE  ClosedIsStamped'
    <3>1. CASE BeginClose(h)
      BY <3>1 DEF BeginClose, NoTx
    <3>2. CASE CommitClose(h) \/ AbortClose(h)
      BY <2>0, <3>2 DEF CommitClose, AbortClose
    <3> QED
      BY <2>4, <3>1, <3>2 DEF CloseStep
  <2>5. ASSUME NEW h \in Handler, ReviewStep(h)
        PROVE  ClosedIsStamped'
    <3>1. CASE BeginReview(h)
      BY <3>1 DEF BeginReview, NoTx
    <3>2. CASE ApproveReview(h)
      BY <3>2 DEF ApproveReview, Transaction
    <3>3. CASE RefuseReview(h) \/ AbortReview(h) \/ CommitReview(h)
      BY <2>0, <3>3 DEF RefuseReview, AbortReview, CommitReview
    <3> QED
      BY <2>5, <3>1, <3>2, <3>3 DEF ReviewStep
  <2>6. CASE UNCHANGED vars
    BY <2>6 DEF vars
  <2> QED
    BY <2>1, <2>2, <2>3, <2>4, <2>5, <2>6, <2>7 DEF Next, EventStep
<1> QED
  BY <1>1, <1>2, Typing, PTL DEF Spec
-----------------------------------------------------------------------------
\* The strengthening of ReviewNeedsPassedRun: the latest run is one of the
\* recorded ones, and an approval was given to an awaiting session of which a
\* run had passed.
ApprovalsAreJustified ==
  /\ latestRun = "passed" => "passed" \in runs
  /\ \A h \in Handler : tx[h].stage = "approved" =>
       "passed" \in runs /\ tx[h].seen.status = "AWAITING_PM_VALIDATION"
  /\ ReviewNeedsPassedRun

\* Every review request was approved for a session whose latest run had
\* passed, and the approval is not undone by what other handlers write.
THEOREM Approval == Spec => []ApprovalsAreJustified
<1>1. Init => ApprovalsAreJustified
  BY DEF Init, ApprovalsAreJustified, ReviewNeedsPassedRun, NoTx
<1>2. TypeOK /\ ApprovalsAreJustified /\ [Next]_vars => ApprovalsAreJustified'
  <2> SUFFICES ASSUME TypeOK, ApprovalsAreJustified, [Next]_vars
               PROVE  ApprovalsAreJustified'
    OBVIOUS
  <2> USE DEF TypeOK, ApprovalsAreJustified, ReviewNeedsPassedRun
  <2>0. NoTx.stage = "idle"
    BY DEF NoTx
  <2>1. ASSUME NEW h \in Handler, NEW e \in AgentEvents, ReadForEvent(h, e)
        PROVE  ApprovalsAreJustified'
    BY <2>1 DEF ReadForEvent
  <2>7. ASSUME NEW h \in Handler, ReadLatestRun(h)
        PROVE  ApprovalsAreJustified'
    BY <2>7 DEF ReadLatestRun
  <2>2. ASSUME NEW h \in Handler, CommitEvent(h)
        PROVE  ApprovalsAreJustified'
    BY <2>0, <2>2 DEF CommitEvent
  <2>3. ASSUME NEW h \in Handler, RejectEvent(h)
        PROVE  ApprovalsAreJustified'
    BY <2>0, <2>3 DEF RejectEvent
  <2>4. ASSUME NEW h \in Handler, CloseStep(h)
        PROVE  ApprovalsAreJustified'
    <3>1. CASE BeginClose(h)
      BY <3>1 DEF BeginClose, NoTx
    <3>2. CASE CommitClose(h) \/ AbortClose(h)
      BY <2>0, <3>2 DEF CommitClose, AbortClose
    <3> QED
      BY <2>4, <3>1, <3>2 DEF CloseStep
  <2>5. ASSUME NEW h \in Handler, ReviewStep(h)
        PROVE  ApprovalsAreJustified'
    <3>1. CASE BeginReview(h)
      BY <3>1 DEF BeginReview, NoTx
    <3>2. CASE ApproveReview(h)
      BY <3>2 DEF ApproveReview, MayReview, Transaction
    <3>3. CASE RefuseReview(h) \/ AbortReview(h) \/ CommitReview(h)
      BY <2>0, <3>3 DEF RefuseReview, AbortReview, CommitReview
    <3> QED
      BY <2>5, <3>1, <3>2, <3>3 DEF ReviewStep
  <2>6. CASE UNCHANGED vars
    BY <2>6 DEF vars
  <2> QED
    BY <2>1, <2>2, <2>3, <2>4, <2>5, <2>6, <2>7 DEF Next, EventStep
<1> QED
  BY <1>1, <1>2, Typing, PTL DEF Spec

\* A review request is stored only for a session of which a run passed.
THEOREM ReviewSafety == Spec => []ReviewNeedsPassedRun
<1>1. ApprovalsAreJustified => ReviewNeedsPassedRun
  BY DEF ApprovalsAreJustified
<1> QED
  BY <1>1, Approval, PTL
-----------------------------------------------------------------------------
\* A handler that acts on a CLOSED snapshot leaves the session closed, failed
\* or awaiting validation: it never puts it back to work.
THEOREM ClosedSafety == Spec => ClosedNeverResumesWork
<1>1. TypeOK /\ ApprovalsAreJustified /\ [Next]_vars => [ClosedStep]_vars
  <2> SUFFICES ASSUME TypeOK, ApprovalsAreJustified, Next,
                      NEW g \in Handler,
                      tx[g].seen.status = "CLOSED", tx'[g] # tx[g], row' # row
               PROVE  row'.status \in {"CLOSED", "FAILED", "AWAITING_PM_VALIDATION"}
    BY DEF ClosedStep
  <2> USE DEF TypeOK
  <2>1. PICK h \in Handler : EventStep(h) \/ CloseStep(h) \/ ReviewStep(h)
    BY DEF Next
  <2>2. CASE CommitEvent(h)
    <3>1. g = h
      BY <2>2 DEF CommitEvent
    <3>2. tx[h].event \in AgentEvents /\ tx[h].latest \in RunOutcome
      BY DEF Transaction
    <3> QED
      BY <2>2, <3>1, <3>2, LeavingClosed DEF CommitEvent, AppliedRow
  <2>3. CASE CommitClose(h)
    BY <2>3 DEF CommitClose
  <2>4. CASE CommitReview(h)
    <3>1. g = h
      BY <2>4 DEF CommitReview
    <3> QED
      BY <2>4, <3>1 DEF CommitReview, ApprovalsAreJustified
  <2>5. CASE UNCHANGED row
    BY <2>5
  <2> QED
    BY <2>1, <2>2, <2>3, <2>4, <2>5
    DEF EventStep, ReadForEvent, ReadLatestRun, RejectEvent, CloseStep, BeginClose, AbortClose,
        ReviewStep, BeginReview, ApproveReview, RefuseReview, AbortReview
<1> QED
  BY <1>1, Typing, Approval, PTL DEF Spec, ClosedNeverResumesWork
=============================================================================
