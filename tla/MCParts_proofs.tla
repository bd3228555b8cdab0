---------------------------- MODULE MCParts_proofs ----------------------------
(***************************************************************************)
(* The parts of MCParts that are of the API, proved for any sessions,      *)
(* files, faults and bounds: each section is about one part, whose         *)
(* invariant holds of every behaviour that is of this part.                *)
(***************************************************************************)
EXTENDS MCParts, SequenceTheorems, FiniteSetTheorems, TLAPS

RowsProved ==
  INSTANCE SessionRow_proofs WITH
    row <- v1, latestRun <- v2, runs <- v3, reviewRequest <- v4, tx <- v5

\* A behaviour is of one part from its first state to its last.
LEMMA PartStays == [PartsNext]_all => part' = part
BY DEF PartsNext, all
-----------------------------------------------------------------------------
(***************************************************************************)
(* The rows of a session: what SessionRow_proofs proves of the same        *)
(* module.                                                                 *)
(***************************************************************************)
LEMMA SameRows ==
  /\ Rows!Init <=> RowsProved!Init
  /\ Rows!Next <=> RowsProved!Next
<1>1. Rows!Init <=> RowsProved!Init
  BY DEF Rows!Init, RowsProved!Init, Rows!NoTx, RowsProved!NoTx, Rows!Created, RowsProved!Created,
      Rows!Event, RowsProved!Event
<1>2. Rows!Next <=> RowsProved!Next
  BY DEF Rows!Preparing, RowsProved!Preparing, Rows!Operating, RowsProved!Operating, Rows!Promptable,
      RowsProved!Promptable, Rows!SessionStatus, RowsProved!SessionStatus, Rows!RunOutcome,
      RowsProved!RunOutcome, Rows!Event, RowsProved!Event, Rows!ProgressEvents,
      RowsProved!ProgressEvents, Rows!DoneEvents, RowsProved!DoneEvents, Rows!ChecksEvents,
      RowsProved!ChecksEvents, Rows!PlainEvents, RowsProved!PlainEvents, Rows!AgentEvents,
      RowsProved!AgentEvents, Rows!Transitions, RowsProved!Transitions, Rows!CanTransition,
      RowsProved!CanTransition, Rows!ResumeStatus, RowsProved!ResumeStatus, Rows!RecoveredStatus,
      RowsProved!RecoveredStatus, Rows!Accepts, RowsProved!Accepts, Rows!NextStatus,
      RowsProved!NextStatus, Rows!Created, RowsProved!Created, Rows!NoTx, RowsProved!NoTx,
      Rows!ReadForEvent, RowsProved!ReadForEvent, Rows!ReadLatestRun, RowsProved!ReadLatestRun,
      Rows!AppliedRow, RowsProved!AppliedRow, Rows!CommitEvent, RowsProved!CommitEvent,
      Rows!RejectEvent, RowsProved!RejectEvent, Rows!BeginClose, RowsProved!BeginClose,
      Rows!CommitClose, RowsProved!CommitClose, Rows!AbortClose, RowsProved!AbortClose, Rows!MayReview,
      RowsProved!MayReview, Rows!BeginReview, RowsProved!BeginReview, Rows!ApproveReview,
      RowsProved!ApproveReview, Rows!RefuseReview, RowsProved!RefuseReview, Rows!AbortReview,
      RowsProved!AbortReview, Rows!CommitReview, RowsProved!CommitReview, Rows!EventStep,
      RowsProved!EventStep, Rows!CloseStep, RowsProved!CloseStep, Rows!ReviewStep,
      RowsProved!ReviewStep, Rows!Next, RowsProved!Next
<1> QED
  BY <1>1, <1>2

\* A behaviour of the rows' part takes the rows' steps only.
LEMMA RowsPart ==
  /\ PartsInit /\ part = "rows" => RowsProved!Init
  /\ [PartsNext]_all /\ part = "rows" => [RowsProved!Next]_(RowsProved!vars)
BY SameRows DEF PartsInit, PartsNext, all, Rows!vars, RowsProved!vars

\* A closed session's row is stamped, and a review request is of a session of which a run
\* passed, for any number of handlers.
THEOREM RowsSurvive == PartsSpec => []RowsSurviveInterleaving
<1>1. RowsProved!Spec => []RowsProved!ClosedIsStamped
  BY RowsProved!Stamping
<1>2. RowsProved!Spec => []RowsProved!ReviewNeedsPassedRun
  BY RowsProved!ReviewSafety
<1>3. (part = "rows" => RowsProved!ClosedIsStamped /\ RowsProved!ReviewNeedsPassedRun) => RowsSurviveInterleaving
  BY DEF RowsSurviveInterleaving, Rows!ClosedIsStamped, RowsProved!ClosedIsStamped,
         Rows!ReviewNeedsPassedRun, RowsProved!ReviewNeedsPassedRun
<1>4. [PartsNext]_all => (part = "rows" <=> (part = "rows")')
  BY PartStays
<1> QED
  BY <1>1, <1>2, <1>3, <1>4, RowsPart, PTL DEF PartsSpec, RowsProved!Spec

-----------------------------------------------------------------------------
(***************************************************************************)
(* The files of a session's worktree: the fingerprint that a turn compares *)
(* tells the files whose names git does not quote, and the index that is   *)
(* committed is the one that was looked at.                                *)
(***************************************************************************)
\* The fingerprint tells the worktree's files, of those whose names are not in quotes.
LEMMA FingerprintTells ==
  ASSUME Changes!FilesOK
  PROVE  Changes!Tells(Changes!Fingerprint, v1)
BY DEF Changes!Tells, Changes!Fingerprint, Changes!ChangedFiles, Changes!FilesOK

\* Of these, files with one fingerprint are the same.
LEMMA SameFingerprint ==
  ASSUME NEW of, Changes!Tells(Changes!Fingerprint, of), NEW f \in Paths \ Quoted
  PROVE  v1[f] = of[f]
BY DEF Changes!Tells, Changes!Fingerprint, Changes!ChangedFiles

LEMMA FilesInit == Changes!Init => Changes!FilesOK
BY DEF Changes!Init, Changes!FilesOK, Changes!Clean, Changes!NoTurn, Changes!Worktrees,
    Changes!Content

LEMMA FilesStep == Changes!FilesOK /\ [Changes!Next]_(Changes!changesVars) => Changes!FilesOK'
<1> SUFFICES ASSUME Changes!FilesOK, [Changes!Next]_(Changes!changesVars)
             PROVE  Changes!FilesOK'
  OBVIOUS
<1> USE DEF Changes!FilesOK
<1>1. Changes!Clean \in Changes!Worktrees
  BY DEF Changes!Clean, Changes!Worktrees, Changes!Content
<1>2. CASE \E f \in Paths, what \in 0..MaxContent : Changes!Write(f, what)
  BY <1>2 DEF Changes!Write, Changes!gitVars, Changes!turnVars, Changes!Worktrees, Changes!Content
<1>3. CASE Changes!Begin
  BY <1>3 DEF Changes!Begin, Changes!gitVars
<1>4. CASE Changes!ExitHarness
  BY <1>4 DEF Changes!ExitHarness, Changes!gitVars
<1>5. CASE Changes!BreakTurn
  BY <1>1, <1>5 DEF Changes!BreakTurn, Changes!EndTurn, Changes!NoTurn, Changes!gitVars
<1>6. CASE Changes!Collect
  BY <1>1, <1>6 DEF Changes!Collect, Changes!EndTurn, Changes!NoTurn, Changes!gitVars
<1>7. CASE Changes!RunChecks
  BY <1>7 DEF Changes!RunChecks, Changes!gitVars
<1>8. CASE Changes!Report
  BY <1>1, <1>8 DEF Changes!Report, Changes!EndTurn, Changes!NoTurn, Changes!gitVars
<1>9. CASE Changes!AddAll
  BY <1>9 DEF Changes!AddAll, Changes!turnVars
<1>10. CASE Changes!Inspect
  BY <1>10 DEF Changes!Inspect, Changes!turnVars
<1>11. CASE Changes!Commit
  BY <1>11 DEF Changes!Commit
<1>12. CASE Changes!BreakPush
  BY <1>12 DEF Changes!BreakPush, Changes!turnVars
<1>13. CASE UNCHANGED Changes!changesVars
  BY <1>13 DEF Changes!changesVars
<1> QED
  BY <1>2, <1>3, <1>4, <1>5, <1>6, <1>7, <1>8, <1>9, <1>10, <1>11, <1>12, <1>13 DEF Changes!Next

\* No sensitive file is committed or shown, whatever is interrupted or written meanwhile:
\* the index that is committed is the one that was looked at.
THEOREM SecretsAreKept ==
  ASSUME Sensitive \subseteq Paths
  PROVE  Changes!ChangesSpec => []Changes!SecretsStayLocal
<1>1. Changes!Init => Changes!SecretsInv
  BY FilesInit DEF Changes!Init, Changes!SecretsInv, Changes!Clean
<1>2. Changes!SecretsInv /\ [Changes!Next]_(Changes!changesVars) => Changes!SecretsInv'
  <2> SUFFICES ASSUME Changes!SecretsInv, [Changes!Next]_(Changes!changesVars)
               PROVE  Changes!SecretsInv'
    OBVIOUS
  <2>1. Changes!FilesOK'
    BY FilesStep DEF Changes!SecretsInv
  <2> USE DEF Changes!SecretsInv
  <2>2. CASE \E f \in Paths, what \in 0..MaxContent : Changes!Write(f, what)
    BY <2>1, <2>2 DEF Changes!Write, Changes!gitVars, Changes!turnVars
  <2>3. CASE Changes!Begin
    BY <2>1, <2>3 DEF Changes!Begin, Changes!gitVars
  <2>4. CASE Changes!ExitHarness
    BY <2>1, <2>4 DEF Changes!ExitHarness, Changes!gitVars
  <2>5. CASE Changes!BreakTurn
    BY <2>1, <2>5 DEF Changes!BreakTurn, Changes!EndTurn, Changes!gitVars
  <2>6. CASE Changes!Collect
    BY <2>1, <2>6 DEF Changes!Collect, Changes!EndTurn, Changes!gitVars
  <2>7. CASE Changes!RunChecks
    BY <2>1, <2>7 DEF Changes!RunChecks, Changes!gitVars
  <2>8. CASE Changes!Report
    BY <2>1, <2>8 DEF Changes!Report, Changes!Shown, Changes!EndTurn, Changes!gitVars
  <2>9. CASE Changes!AddAll
    BY <2>1, <2>9 DEF Changes!AddAll, Changes!turnVars
  <2>10. CASE Changes!Inspect
    BY <2>1, <2>10 DEF Changes!Inspect, Changes!Refused, Changes!turnVars
  <2>11. CASE Changes!Commit
    BY <2>1, <2>11 DEF Changes!Commit
  <2>12. CASE Changes!BreakPush
    BY <2>1, <2>12 DEF Changes!BreakPush, Changes!turnVars
  <2>13. CASE UNCHANGED Changes!changesVars
    BY <2>1, <2>13 DEF Changes!changesVars
  <2> QED
    BY <2>2, <2>3, <2>4, <2>5, <2>6, <2>7, <2>8, <2>9, <2>10, <2>11, <2>12, <2>13 DEF Changes!Next
<1>3. Changes!SecretsInv => Changes!SecretsStayLocal
  BY DEF Changes!SecretsInv, Changes!SecretsStayLocal
<1> QED
  BY <1>1, <1>2, <1>3, PTL DEF Changes!ChangesSpec

LEMMA FilesTurnInit == Changes!Init => Changes!TurnInv
BY FilesInit DEF Changes!Init, Changes!TurnInv

LEMMA FilesTurnStep == Changes!TurnInv /\ [Changes!Next]_(Changes!changesVars) => Changes!TurnInv'
<1> SUFFICES ASSUME Changes!TurnInv, [Changes!Next]_(Changes!changesVars)
             PROVE  Changes!TurnInv'
  OBVIOUS
<1>1. Changes!FilesOK'
  BY FilesStep DEF Changes!TurnInv
<1>2. Changes!FilesOK /\ v1 \in Changes!Worktrees
  BY DEF Changes!TurnInv, Changes!FilesOK
<1>3. Changes!Tells(Changes!Fingerprint, v1)
  BY <1>2, FingerprintTells
<1> USE DEF Changes!TurnInv
<1>4. CASE \E f \in Paths, what \in 0..MaxContent : Changes!Write(f, what)
  BY <1>1, <1>4 DEF Changes!Write, Changes!gitVars, Changes!turnVars, Changes!Tells
<1>5. CASE Changes!Begin
  <2>1. Changes!Tells(v7.fingerprint, v7.of)'
    BY <1>3, <1>5 DEF Changes!Begin, Changes!gitVars, Changes!Tells
  <2>2. v5' = "harness" /\ UNCHANGED <<v8, v9, v12, v2>>
    BY <1>5 DEF Changes!Begin, Changes!gitVars
  <2>3. v8 = None
    BY <1>5 DEF Changes!Begin
  <2> QED
    BY <1>1, <2>1, <2>2, <2>3
<1>6. CASE Changes!ExitHarness
  BY <1>1, <1>6 DEF Changes!ExitHarness, Changes!gitVars, Changes!Tells
<1>7. CASE Changes!BreakTurn \/ Changes!Report
  BY <1>1, <1>7 DEF Changes!BreakTurn, Changes!Report, Changes!EndTurn
<1>8. CASE Changes!Collect
  <2>1. CASE v5' = "idle"
    BY <1>1, <1>8, <2>1 DEF Changes!Collect, Changes!EndTurn
  <2>2. CASE v5' # "idle"
    <3>1. /\ v5' = IF Changes!RepairChangedNothing THEN "report" ELSE "checks"
          /\ v8' = None
          /\ v5 = "collect"
          /\ UNCHANGED <<v1, v2, v7, v9, v12>>
      BY <1>8, <2>2 DEF Changes!Collect, Changes!EndTurn, Changes!gitVars
    <3>2. Changes!Tells(v7.fingerprint, v7.of)' <=> Changes!Tells(v7.fingerprint, v7.of)
      BY <3>1 DEF Changes!Tells
    <3>3. ASSUME Changes!RepairChangedNothing, ~v12, NEW f \in Paths \ Quoted
          PROVE  v9[f] = v1[f]
      <4>1. Changes!Tells(Changes!Fingerprint, v9)
        BY <3>1, <3>3 DEF Changes!RepairChangedNothing
      <4> QED
        BY <4>1, SameFingerprint
    <3> QED
      BY <1>1, <3>1, <3>2, <3>3
  <2> QED
    BY <2>1, <2>2
<1>9. CASE Changes!RunChecks
  <2>1. /\ v5 = "checks" /\ v5' # "idle"
        /\ v9' = v1 /\ v1' = v1
        /\ \/ v5' = "report" /\ v8' = v8
           \/ v5' = "harness" /\ v8' = Changes!Fingerprint
        /\ UNCHANGED <<v2, v7, v12>>
    BY <1>9 DEF Changes!RunChecks, Changes!gitVars
  <2>2. Changes!Tells(v7.fingerprint, v7.of)' <=> Changes!Tells(v7.fingerprint, v7.of)
    BY <2>1 DEF Changes!Tells
  <2>3. v5' = "harness" => Changes!Tells(v8, v9)'
    BY <1>3, <2>1 DEF Changes!Tells
  <2>4. v5' = "report" => v8' = None
    BY <2>1
  <2> QED
    BY <1>1, <1>2, <2>1, <2>2, <2>3, <2>4
<1>10. CASE Changes!AddAll \/ Changes!Inspect \/ Changes!BreakPush
  BY <1>1, <1>10 DEF Changes!AddAll, Changes!Inspect, Changes!BreakPush, Changes!turnVars,
      Changes!Tells
<1>11. CASE Changes!Commit
  <2>1. /\ UNCHANGED <<v1, v5, v7, v8, v9>>
        /\ v12' = (v12 \/ (v5 # "idle" /\ v3 # v2))
        /\ v2' = v3
    BY <1>11 DEF Changes!Commit
  <2>2. CASE v5 = "idle"
    BY <1>1, <2>1, <2>2
  <2>3. CASE v5 # "idle" /\ v12'
    BY <1>1, <2>1, <2>3
  <2>4. CASE v5 # "idle" /\ ~v12'
    BY <1>1, <2>1, <2>4 DEF Changes!Tells
  <2> QED
    BY <2>2, <2>3, <2>4
<1>12. CASE UNCHANGED Changes!changesVars
  BY <1>1, <1>12 DEF Changes!changesVars, Changes!Tells
<1> QED
  BY <1>4, <1>5, <1>6, <1>7, <1>8, <1>9, <1>10, <1>11, <1>12 DEF Changes!Next

\* A turn that is reported as one that changed no file has changed none whose name git does
\* not quote, unless its files were committed meanwhile; whichever names those are.
THEOREM UnchangedTurnsChangeNothing ==
  ASSUME None # "unchanged"
  PROVE  Changes!ChangesSpec => [][Changes!UnchangedStep]_(Changes!changesVars)
<1>1. Changes!TurnInv /\ [Changes!Next]_(Changes!changesVars) => [Changes!UnchangedStep]_(Changes!changesVars)
  <2> SUFFICES ASSUME Changes!TurnInv, Changes!Next, v10' # v10, v10' = "unchanged", ~v12, NEW f \in Paths \ Quoted
               PROVE  v1[f] = v7.of[f]
    BY DEF Changes!UnchangedStep
  <2>1. Changes!Collect
    BY DEF Changes!Next, Changes!Begin, Changes!ExitHarness, Changes!BreakTurn,
        Changes!RunChecks, Changes!Report, Changes!EndTurn, Changes!Write, Changes!AddAll,
        Changes!Inspect, Changes!Commit, Changes!BreakPush, Changes!turnVars
  <2>2. v5 = "collect" /\ Changes!Fingerprint = v7.fingerprint
    BY <2>1 DEF Changes!Collect
  <2> QED
    BY <2>2, SameFingerprint DEF Changes!TurnInv
<1> QED
  BY <1>1, FilesTurnInit, FilesTurnStep, PTL DEF Changes!ChangesSpec

\* The checks that a turn reports are of the files whose names git does not quote as its last
\* repair left them, unless they were committed meanwhile; whichever names those are.
THEOREM ReportedChecksAreOfTheFiles ==
  ASSUME None # "checked"
  PROVE  Changes!ChangesSpec => [][Changes!CheckedStep]_(Changes!changesVars)
<1>1. Changes!TurnInv /\ [Changes!Next]_(Changes!changesVars) => [Changes!CheckedStep]_(Changes!changesVars)
  <2> SUFFICES ASSUME Changes!TurnInv, Changes!Next, v10' # v10, v10' = "checked", ~v12, NEW f \in Paths \ Quoted
               PROVE  v9[f] = v1[f]
    BY DEF Changes!CheckedStep
  <2>1. Changes!Report
    BY DEF Changes!Next, Changes!Begin, Changes!ExitHarness, Changes!BreakTurn,
        Changes!Collect, Changes!RunChecks, Changes!EndTurn, Changes!Write, Changes!AddAll,
        Changes!Inspect, Changes!Commit, Changes!BreakPush, Changes!turnVars
  <2> QED
    BY <2>1 DEF Changes!Report, Changes!TurnInv
<1> QED
  BY <1>1, FilesTurnInit, FilesTurnStep, PTL DEF Changes!ChangesSpec

\* A behaviour of the files' part takes the files' steps only.
LEMMA ChangesPart ==
  /\ PartsInit /\ part = "changes" => Changes!Init
  /\ [PartsNext]_all /\ part = "changes" => [Changes!Next]_(Changes!changesVars)
BY DEF PartsInit, PartsNext, all, Changes!changesVars

\* No sensitive file is committed or shown, for any files and contents.
THEOREM SecretsStay == ASSUME Sensitive \subseteq Paths PROVE PartsSpec => []SecretsStayLocal
<1>1. Changes!ChangesSpec => []Changes!SecretsStayLocal
  BY SecretsAreKept
<1>2. (part = "changes" => Changes!SecretsStayLocal) => SecretsStayLocal
  BY DEF SecretsStayLocal
<1>3. [PartsNext]_all => (part = "changes" <=> (part = "changes")')
  BY PartStays
<1> QED
  BY <1>1, <1>2, <1>3, ChangesPart, PTL DEF PartsSpec, Changes!ChangesSpec
-----------------------------------------------------------------------------
(***************************************************************************)
(* Starting a session.                                                     *)
(***************************************************************************)
StartInv == Start!Domains /\ Start!PeopleAreRead /\ Start!AbsenceIsNoted /\ Start!ReadinessIsVouched

LEMMA StartInit == Start!Init => StartInv
<1> SUFFICES ASSUME Start!Init
             PROVE  StartInv
  OBVIOUS
<1> USE DEF Start!Init, Start!NoStart
<1>1. Start!Domains
  BY DEF Start!Domains, Start!StartRecords, Start!Stages
<1>2. Start!PeopleAreRead
  BY DEF Start!PeopleAreRead
<1>3. Start!AbsenceIsNoted
  BY DEF Start!AbsenceIsNoted, Start!UnpreparedWasOffline, Start!Running
<1>4. Start!ReadinessIsVouched
  BY DEF Start!ReadinessIsVouched
<1> QED
  BY <1>1, <1>2, <1>3, <1>4 DEF StartInv

LEMMA StartStep ==
  ASSUME Pm # Owner
  PROVE  StartInv /\ [Start!Next]_(Start!vars) => StartInv'
<1> SUFFICES ASSUME StartInv, [Start!Next]_(Start!vars)
             PROVE  StartInv'
  OBVIOUS
<1> USE DEF StartInv, Start!Stages, Start!Connected
<1>1. CASE Start!Publish
  BY <1>1 DEF Start!Publish, Start!Domains, Start!StartRecords, Start!NoStart, Start!PeopleAreRead,
         Start!AbsenceIsNoted, Start!UnpreparedWasOffline, Start!Running, Start!ReadinessIsVouched,
         Start!Ready
<1>2. CASE Start!Share
  BY <1>2 DEF Start!Share, Start!Domains, Start!StartRecords, Start!NoStart, Start!PeopleAreRead,
         Start!AbsenceIsNoted, Start!UnpreparedWasOffline, Start!Running, Start!ReadinessIsVouched,
         Start!Ready
<1>3. CASE Start!UpdateDefaults
  BY <1>3 DEF Start!UpdateDefaults, Start!Domains, Start!StartRecords, Start!NoStart, Start!PeopleAreRead,
         Start!AbsenceIsNoted, Start!UnpreparedWasOffline, Start!Running, Start!ReadinessIsVouched,
         Start!Ready
<1>4. CASE Start!CheckReadiness
  BY <1>4 DEF Start!CheckReadiness, Start!Domains, Start!StartRecords, Start!NoStart, Start!PeopleAreRead,
         Start!AbsenceIsNoted, Start!UnpreparedWasOffline, Start!Running, Start!ReadinessIsVouched,
         Start!Ready
<1>5. CASE Start!ReportReadiness
  BY <1>5 DEF Start!ReportReadiness, Start!Domains, Start!StartRecords, Start!NoStart, Start!PeopleAreRead,
         Start!AbsenceIsNoted, Start!UnpreparedWasOffline, Start!Running, Start!ReadinessIsVouched,
         Start!Ready
<1>6. CASE \E s \in Starts : Start!BeginByDeveloper(s)
  BY <1>6 DEF Start!BeginByDeveloper, Start!At, Start!Ready, Start!Domains, Start!StartRecords,
         Start!NoStart, Start!PeopleAreRead, Start!AbsenceIsNoted, Start!UnpreparedWasOffline,
         Start!Running, Start!ReadinessIsVouched
<1>7. CASE \E s \in Starts : Start!BeginByPm(s)
  BY <1>7 DEF Start!BeginByPm, Start!At, Start!Ready, Start!Domains, Start!StartRecords, Start!NoStart,
         Start!PeopleAreRead, Start!AbsenceIsNoted, Start!UnpreparedWasOffline, Start!Running,
         Start!ReadinessIsVouched
<1>8. CASE \E s \in Starts : Start!AssertConnected(s)
  BY <1>8 DEF Start!AssertConnected, Start!At, Start!Ready, Start!Domains, Start!StartRecords,
         Start!NoStart, Start!PeopleAreRead, Start!AbsenceIsNoted, Start!UnpreparedWasOffline,
         Start!Running, Start!ReadinessIsVouched
<1>9. CASE \E s \in Starts : Start!ReadReadiness(s)
  <2>1. Start!Domains'
    BY <1>9 DEF Start!ReadReadiness, Start!At, Start!Ready, Start!Domains, Start!StartRecords, Start!NoStart
  <2>2. Start!PeopleAreRead'
    BY <1>9 DEF Start!ReadReadiness, Start!At, Start!Ready, Start!Domains, Start!StartRecords,
           Start!PeopleAreRead, Start!NoStart
  <2>3. Start!AbsenceIsNoted'
    BY <1>9 DEF Start!ReadReadiness, Start!At, Start!Ready, Start!Domains, Start!StartRecords,
           Start!AbsenceIsNoted, Start!UnpreparedWasOffline, Start!Running, Start!NoStart
  <2>4. Start!ReadinessIsVouched'
    BY <1>9 DEF Start!ReadReadiness, Start!At, Start!Ready, Start!Domains, Start!StartRecords,
           Start!ReadinessIsVouched, Start!PeopleAreRead, Start!NoStart
  <2> QED
    BY <2>1, <2>2, <2>3, <2>4
<1>10. CASE \E s \in Starts : Start!ReadMembers(s)
  <2>1. PICK s \in Starts : Start!ReadMembers(s)
    BY <1>10
  <2> DEFINE people == v8[s].members \cup IF v4 THEN {Pm} ELSE {}
  <2>2. v8[s] \in Start!StartRecords
    BY DEF Start!Domains
  <2>3. [v8[s] EXCEPT !.at = "commit", !.members = people] \in Start!StartRecords
    <3>1. people \subseteq {Owner, Pm}
      <4>1. v8[s].members \subseteq {Owner, Pm}
        BY <2>2 DEF Start!StartRecords
      <4> QED
        BY <4>1
    <3> HIDE DEF people
    <3> QED
      BY <2>2, <3>1 DEF Start!StartRecords
  <2>4. v8' = [v8 EXCEPT ![s] = [v8[s] EXCEPT !.at = "commit", !.members = people]]
    BY <2>1 DEF Start!ReadMembers
  <2> HIDE DEF people
  <2>5. Start!Domains'
    BY <2>1, <2>3, <2>4 DEF Start!ReadMembers, Start!Domains
  <2> USE DEF people
  <2>6. Start!PeopleAreRead'
    BY <2>1 DEF Start!ReadMembers, Start!Domains, Start!StartRecords, Start!PeopleAreRead
  <2>7. Start!AbsenceIsNoted'
    BY <2>1 DEF Start!ReadMembers, Start!Domains, Start!StartRecords, Start!AbsenceIsNoted,
           Start!UnpreparedWasOffline, Start!Running
  <2>8. Start!ReadinessIsVouched'
    BY <2>1 DEF Start!ReadMembers, Start!Domains, Start!StartRecords, Start!ReadinessIsVouched, Start!PeopleAreRead
  <2> QED
    BY <2>5, <2>6, <2>7, <2>8
<1>11. CASE \E s \in Starts : Start!CommitSession(s)
  BY <1>11 DEF Start!CommitSession, Start!At, Start!Ready, Start!Domains, Start!StartRecords, Start!NoStart,
         Start!PeopleAreRead, Start!AbsenceIsNoted, Start!UnpreparedWasOffline, Start!Running,
         Start!ReadinessIsVouched
<1>12. CASE \E s \in Starts : Start!Prepare(s)
  BY <1>12 DEF Start!Prepare, Start!At, Start!Ready, Start!Domains, Start!StartRecords, Start!NoStart,
         Start!PeopleAreRead, Start!AbsenceIsNoted, Start!UnpreparedWasOffline, Start!Running,
         Start!ReadinessIsVouched
<1>13. CASE UNCHANGED Start!vars
  BY <1>13 DEF Start!vars, Start!Domains, Start!StartRecords, Start!NoStart, Start!PeopleAreRead,
         Start!AbsenceIsNoted, Start!UnpreparedWasOffline, Start!Running, Start!ReadinessIsVouched,
         Start!Ready
<1> QED
  BY <1>1, <1>2, <1>3, <1>4, <1>5, <1>6, <1>7, <1>8, <1>9, <1>10, <1>11, <1>12, <1>13 DEF Start!Next

\* What the dashboard offers is what the policy allows, and the sessions that were started
\* are of the project's people, were prepared and vouched for, for any requests and models.
THEOREM StartsMatch ==
  ASSUME Pm # Owner
  PROVE  PartsSpec => []StartsMatchThePolicy
<1>1. PartsInit /\ part = "start" => Start!Init
  BY DEF PartsInit
<1>2. [PartsNext]_all /\ part = "start" => [Start!Next]_(Start!vars)
  BY DEF PartsNext, all, Start!vars
<1>3. [PartsNext]_all => (part = "start" <=> (part = "start")')
  BY PartStays
<1>4. StartInv => Start!OffersAreHonoured /\ Start!MembersAreTheProjects /\ Start!UnpreparedWasOffline /\ Start!PmStartsAreVouched
  BY DEF StartInv, Start!Domains, Start!StartRecords, Start!PeopleAreRead, Start!AbsenceIsNoted,
         Start!ReadinessIsVouched, Start!OffersAreHonoured, Start!CanStartSession, Start!Ready,
         Start!Connected, Start!MembersAreTheProjects, Start!PmStartsAreVouched
<1>5. (part = "start" => StartInv) => StartsMatchThePolicy
  BY <1>4 DEF StartsMatchThePolicy
<1> QED
  BY <1>1, <1>2, <1>3, <1>5, StartInit, StartStep, PTL DEF PartsSpec
-----------------------------------------------------------------------------
(***************************************************************************)
(* The developers' projects.                                               *)
(***************************************************************************)
SetupInv == Setup!Domains /\ Setup!RequestsUseTheirOwn /\ Setup!SharesLast /\ Setup!ChoicesSurviveEdits

LEMMA SetupInit == Setup!Init => SetupInv
BY DEF SetupInv, Setup!Init, Setup!Domains, Setup!CreationStates, Setup!CreationStages, Setup!ProjectRows,
       Setup!RequestsUseTheirOwn, Setup!SharesLast, Setup!ChoicesSurviveEdits

LEMMA SetupStep ==
  ASSUME None \notin Developers
  PROVE  SetupInv /\ [Setup!Next]_(Setup!vars) => SetupInv'
<1> SUFFICES ASSUME SetupInv, [Setup!Next]_(Setup!vars)
             PROVE  SetupInv'
  OBVIOUS
<1> USE DEF SetupInv, Setup!CreationStages
<1>1. CASE Setup!Publish
  BY <1>1 DEF Setup!Publish, Setup!Domains, Setup!CreationStates, Setup!ProjectRows,
         Setup!RequestsUseTheirOwn, Setup!SharesLast, Setup!ChoicesSurviveEdits
<1>2. CASE \E c \in Creations, d \in Developers : Setup!ResolveInstallation(c, d)
  BY <1>2 DEF Setup!ResolveInstallation, Setup!Domains, Setup!CreationStates, Setup!ProjectRows,
         Setup!RequestsUseTheirOwn, Setup!SharesLast, Setup!ChoicesSurviveEdits
<1>3. CASE \E c \in Creations : Setup!ValidateSelection(c)
  <2>1. Setup!Domains'
    BY <1>3 DEF Setup!ValidateSelection, Setup!Advance, Setup!ConnectionsOf, Setup!Domains,
           Setup!CreationStates, Setup!ProjectRows
  <2>2. Setup!RequestsUseTheirOwn'
    BY <1>3 DEF Setup!ValidateSelection, Setup!Advance, Setup!ConnectionsOf, Setup!Domains,
           Setup!CreationStates, Setup!ProjectRows, Setup!RequestsUseTheirOwn
  <2>3. Setup!SharesLast'
    BY <1>3 DEF Setup!ValidateSelection, Setup!Advance, Setup!ConnectionsOf, Setup!Domains, Setup!SharesLast
  <2>4. Setup!ChoicesSurviveEdits'
    BY <1>3 DEF Setup!ValidateSelection, Setup!Advance, Setup!ConnectionsOf, Setup!Domains,
           Setup!CreationStates, Setup!ProjectRows, Setup!ChoicesSurviveEdits
  <2> QED
    BY <2>1, <2>2, <2>3, <2>4
<1>4. CASE \E c \in Creations : Setup!FindConnection(c)
  BY <1>4 DEF Setup!FindConnection, Setup!Advance, Setup!ConnectionsOf, Setup!Domains, Setup!CreationStates,
         Setup!ProjectRows, Setup!RequestsUseTheirOwn, Setup!SharesLast, Setup!ChoicesSurviveEdits
<1>5. CASE \E c \in Creations : Setup!CreateConnection(c)
  <2>1. PICK c \in Creations : Setup!CreateConnection(c)
    BY <1>5
  <2>2. v3[c] \in Setup!CreationStates
    BY DEF Setup!Domains
  <2>3. [v3[c] EXCEPT !.at = "connected", !.uses = c] \in Setup!CreationStates
    BY <2>2 DEF Setup!CreationStates
  <2>4. v3' = [v3 EXCEPT ![c] = [v3[c] EXCEPT !.at = "connected", !.uses = c]]
    BY <2>1 DEF Setup!CreateConnection
  <2>5. v3[c].by \in {None} \cup Developers
    BY <2>2 DEF Setup!CreationStates
  <2>6. Setup!Domains'
    BY <2>1, <2>3, <2>4, <2>5 DEF Setup!CreateConnection, Setup!Domains
  <2>7. Setup!RequestsUseTheirOwn'
    BY <2>1 DEF Setup!CreateConnection, Setup!Domains, Setup!CreationStates, Setup!ProjectRows,
           Setup!RequestsUseTheirOwn
  <2>8. Setup!SharesLast' /\ Setup!ChoicesSurviveEdits'
    BY <2>1 DEF Setup!CreateConnection, Setup!SharesLast, Setup!ChoicesSurviveEdits
  <2> QED
    BY <2>6, <2>7, <2>8
<1>6. CASE \E c \in Creations : Setup!CreateProject(c)
  BY <1>6 DEF Setup!CreateProject, Setup!Advance, Setup!ConnectionsOf, Setup!Domains, Setup!CreationStates,
         Setup!ProjectRows, Setup!RequestsUseTheirOwn, Setup!SharesLast, Setup!ChoicesSurviveEdits
<1>7. CASE \E c \in Creations : Setup!BeginEdit(c)
  BY <1>7 DEF Setup!BeginEdit, Setup!Advance, Setup!ConnectionsOf, Setup!Domains, Setup!CreationStates,
         Setup!ProjectRows, Setup!RequestsUseTheirOwn, Setup!SharesLast, Setup!ChoicesSurviveEdits
<1>8. CASE \E c \in Creations : Setup!SaveMetadata(c)
  BY <1>8 DEF Setup!SaveMetadata, Setup!Advance, Setup!ConnectionsOf, Setup!Domains, Setup!CreationStates,
         Setup!ProjectRows, Setup!RequestsUseTheirOwn, Setup!SharesLast, Setup!ChoicesSurviveEdits
<1>9. CASE \E c \in Creations, model \in Models : Setup!SaveDefaults(c, model)
  BY <1>9 DEF Setup!SaveDefaults, Setup!Domains, Setup!CreationStates, Setup!ProjectRows,
         Setup!RequestsUseTheirOwn, Setup!SharesLast, Setup!ChoicesSurviveEdits
<1>10. CASE \E h \in Shares, c \in Creations : Setup!BeginShare(h, c)
  BY <1>10 DEF Setup!BeginShare, Setup!Domains, Setup!CreationStates, Setup!ProjectRows,
         Setup!RequestsUseTheirOwn, Setup!SharesLast, Setup!ChoicesSurviveEdits
<1>11. CASE \E h \in Shares : Setup!FindAccount(h)
  BY <1>11 DEF Setup!FindAccount, Setup!Turn, Setup!Domains, Setup!CreationStates, Setup!ProjectRows,
         Setup!RequestsUseTheirOwn, Setup!SharesLast, Setup!ChoicesSurviveEdits
<1>12. CASE \E h \in Shares : Setup!CreateAccount(h)
  BY <1>12 DEF Setup!CreateAccount, Setup!Turn, Setup!Domains, Setup!CreationStates, Setup!ProjectRows,
         Setup!RequestsUseTheirOwn, Setup!SharesLast, Setup!ChoicesSurviveEdits
<1>13. CASE \E h \in Shares : Setup!AddMember(h)
  BY <1>13 DEF Setup!AddMember, Setup!Turn, Setup!Domains, Setup!CreationStates, Setup!ProjectRows,
         Setup!RequestsUseTheirOwn, Setup!SharesLast, Setup!ChoicesSurviveEdits
<1>14. CASE UNCHANGED Setup!vars
  BY <1>14 DEF Setup!vars, Setup!Domains, Setup!CreationStates, Setup!ProjectRows,
         Setup!RequestsUseTheirOwn, Setup!SharesLast, Setup!ChoicesSurviveEdits
<1> QED
  BY <1>1, <1>2, <1>3, <1>4, <1>5, <1>6, <1>7, <1>8, <1>9, <1>10, <1>11, <1>12, <1>13, <1>14 DEF Setup!Next

\* A project's connection is its owner's, what was answered stays, and an edit undoes no choice
\* that was saved meanwhile, for any developers, projects and requests.
THEOREM WritesSurvive ==
  ASSUME None \notin Developers
  PROVE  PartsSpec => []ProjectWritesSurvive
<1>1. PartsInit /\ part = "setup" => Setup!Init
  BY DEF PartsInit
<1>2. [PartsNext]_all /\ part = "setup" => [Setup!Next]_(Setup!vars)
  BY DEF PartsNext, all, Setup!vars
<1>3. [PartsNext]_all => (part = "setup" <=> (part = "setup")')
  BY PartStays
<1>4. SetupInv => Setup!ConnectionsAreTheOwners /\ Setup!SharesLast /\ Setup!ChoicesSurviveEdits
  BY DEF SetupInv, Setup!Domains, Setup!CreationStates, Setup!ProjectRows, Setup!RequestsUseTheirOwn,
         Setup!ConnectionsAreTheOwners
<1>5. (part = "setup" => SetupInv) => ProjectWritesSurvive
  BY <1>4 DEF ProjectWritesSurvive
<1> QED
  BY <1>1, <1>2, <1>3, <1>5, SetupInit, SetupStep, PTL DEF PartsSpec
-----------------------------------------------------------------------------
(***************************************************************************)
(* The attachments of a session.                                           *)
(***************************************************************************)
EvidenceInv ==
  /\ Evidence!Domains /\ Evidence!InputsFollow /\ Evidence!AttachmentsFollow
  /\ Evidence!CapturesAreWithinLimits /\ Evidence!DecodersComeBack

Capture(u) == [by |-> u, of |-> v3[u].of, page |-> v3[u].page, image |-> v3[u].image]

\* The comparisons are counted as everything is.
LEMMA EvidenceCounts == \A S : Evidence!Cardinality(S) = Cardinality(S)
BY DEF Evidence!Cardinality, Cardinality

\* The files of an upload are its own.
LEMMA FilesAre ==
  \A u : /\ \A n \in Evidence!FilesOf(u) : <<u, n>> \in Evidence!Files(u)
         /\ \A w, n : w # u => <<w, n>> \notin Evidence!Files(u)
         /\ Evidence!FilesOf(u) \subseteq {1, 2}
BY DEF Evidence!Files, Evidence!FilesOf

\* An upload that goes on leaves the others' files and rows as they are.
LEMMA UploadMoves ==
  ASSUME EvidenceInv, NEW u \in Evidence!Uploads, NEW r \in Evidence!Records, v3' = [v3 EXCEPT ![u] = r],
         Evidence!Brings(u, r), v7 \subseteq v7', u \in v7' \/ Evidence!Follows(u, r, v5', v6'),
         \A w \in Evidence!Uploads : w # u => \A n \in {1, 2} :
           (<<w, n>> \in v5' <=> <<w, n>> \in v5) /\ (<<w, n>> \in v6' <=> <<w, n>> \in v6)
  PROVE  /\ v3' \in [Evidence!Uploads -> Evidence!Records]
         /\ Evidence!InputsFollow' /\ Evidence!AttachmentsFollow'
<1>1. /\ v3' \in [Evidence!Uploads -> Evidence!Records] /\ v3'[u] = r
      /\ \A w \in Evidence!Uploads : w # u => v3'[w] = v3[w]
  BY DEF EvidenceInv, Evidence!Domains
<1>2. Evidence!InputsFollow'
  <2> SUFFICES ASSUME NEW w \in Evidence!Uploads
               PROVE  Evidence!Brings(w, v3'[w])
    BY DEF Evidence!InputsFollow, Evidence!Brings, Evidence!FilesOf, Evidence!Uploads
  <2>1. Evidence!Brings(w, v3[w])
    BY DEF EvidenceInv, Evidence!InputsFollow
  <2> QED
    BY <1>1, <2>1
<1>3. Evidence!AttachmentsFollow'
  <2> SUFFICES ASSUME NEW w \in Evidence!Uploads, w \notin v7'
               PROVE  Evidence!Follows(w, v3'[w], v5', v6')
    BY DEF Evidence!AttachmentsFollow, Evidence!Uploads, Evidence!Follows, Evidence!FilesOf, Evidence!FileFollows
  <2>1. CASE w = u
    BY <1>1, <2>1
  <2>2. CASE w # u
    <3> SUFFICES ASSUME NEW n \in Evidence!FilesOf(w)
                 PROVE  Evidence!FileFollows(w, n, v3'[w], v5', v6')
      BY DEF Evidence!Follows
    <3>1. Evidence!FileFollows(w, n, v3[w], v5, v6) /\ v3'[w] = v3[w]
      BY <1>1, <2>2 DEF EvidenceInv, Evidence!AttachmentsFollow, Evidence!Follows
    <3>2. (<<w, n>> \in v5' <=> <<w, n>> \in v5) /\ (<<w, n>> \in v6' <=> <<w, n>> \in v6)
      BY <2>2, FilesAre
    <3> QED
      BY <3>1, <3>2 DEF Evidence!FileFollows
  <2> QED
    BY <2>1, <2>2
<1> QED
  BY <1>1, <1>2, <1>3

\* A decoder is taken by the upload that begins to decode, and comes back with its end.
LEMMA DecodersFollow ==
  ASSUME EvidenceInv, IsFiniteSet(Captures \cup Prompts), NEW u \in Evidence!Uploads, NEW r \in Evidence!Records,
         v3' = [v3 EXCEPT ![u] = r],
         \/ v4' = v4 /\ v3[u].at # "decoded" /\ r.at # "decoded"
         \/ v4' = v4 + 1 /\ v3[u].at # "decoded" /\ r.at = "decoded"
         \/ v4' = v4 - 1 /\ v3[u].at = "decoded" /\ r.at # "decoded"
  PROVE  v4' \in Nat /\ Evidence!DecodersComeBack'
<1> DEFINE D == {w \in Evidence!Uploads : v3[w].at = "decoded"}
           E == {w \in Evidence!Uploads : v3'[w].at = "decoded"}
<1>1. /\ v3 \in [Evidence!Uploads -> Evidence!Records] /\ v4 \in Nat /\ v4 = Cardinality(D)
  BY EvidenceCounts DEF EvidenceInv, Evidence!Domains, Evidence!DecodersComeBack
<1>2. IsFiniteSet(D) /\ IsFiniteSet(E)
  BY FS_Subset DEF Evidence!Uploads
<1>3. v3'[u] = r /\ \A w \in Evidence!Uploads : w # u => v3'[w] = v3[w]
  BY <1>1
<1>4. CASE v4' = v4 /\ v3[u].at # "decoded" /\ r.at # "decoded"
  <2>1. E = D
    BY <1>3, <1>4
  <2> QED
    BY <1>1, <1>4, <2>1, EvidenceCounts DEF Evidence!DecodersComeBack, Evidence!Uploads
<1>5. CASE v4' = v4 + 1 /\ v3[u].at # "decoded" /\ r.at = "decoded"
  <2>1. E = D \cup {u} /\ u \notin D
    BY <1>3, <1>5
  <2>2. Cardinality(E) = Cardinality(D) + 1
    BY <1>2, <2>1, FS_AddElement
  <2> QED
    BY <1>1, <1>5, <2>2, EvidenceCounts DEF Evidence!DecodersComeBack, Evidence!Uploads
<1>6. CASE v4' = v4 - 1 /\ v3[u].at = "decoded" /\ r.at # "decoded"
  <2>1. E = D \ {u} /\ u \in D
    BY <1>3, <1>6
  <2>2. Cardinality(E) = Cardinality(D) - 1 /\ Cardinality(E) \in Nat
    BY <1>2, <2>1, FS_RemoveElement, FS_CardinalityType
  <2> QED
    BY <1>1, <1>6, <2>2, EvidenceCounts DEF Evidence!DecodersComeBack, Evidence!Uploads
<1> QED
  BY <1>4, <1>5, <1>6

LEMMA CapturesStay ==
  ASSUME EvidenceInv, v2' = v2
  PROVE  /\ v2' \in Seq([by : Captures, of : Captures, page : Pages, image : Images])
         /\ Evidence!CapturesAreWithinLimits'
BY DEF EvidenceInv, Evidence!Domains, Evidence!CapturesAreWithinLimits, Evidence!Befores

\* A capture that is appended keeps the limits and fits the one before it.
LEMMA CaptureAppends ==
  ASSUME EvidenceInv, None \notin Images, MaxComparisons \in Nat, MaxCaptures \in Nat,
         NEW u \in Captures, v3[u].at # "idle", Evidence!AppendAllowed(u), v2' = Append(v2, Capture(u))
  PROVE  /\ v2' \in Seq([by : Captures, of : Captures, page : Pages, image : Images])
         /\ Evidence!CapturesAreWithinLimits'
<1> DEFINE C == [by : Captures, of : Captures, page : Pages, image : Images]
           c == Capture(u)
           n == Len(v2)
<1>1. v2 \in Seq(C) /\ n \in Nat
  BY DEF EvidenceInv, Evidence!Domains
<1>2. v3[u].of \in Captures /\ v3[u].page \in Pages /\ v3[u].image \in Images
  BY DEF EvidenceInv, Evidence!InputsFollow, Evidence!Brings, Evidence!Uploads
<1>3. c \in C /\ c.by = u /\ c.of = v3[u].of /\ c.page = v3[u].page /\ c.image = v3[u].image
  BY <1>2 DEF Capture
<1> HIDE DEF c
<1>4. v2' \in Seq(C) /\ Len(v2') = n + 1 /\ v2'[n + 1] = c /\ \A i \in 1..n : v2'[i] = v2[i]
  BY <1>1, <1>3 DEF c
<1>5. n < MaxCaptures
  BY DEF Evidence!AppendAllowed, Evidence!CaptureAllowed
<1> DEFINE B == {i \in 1..n : v2[i].of = v2[i].by}
           A == {i \in 1..(n + 1) : v2'[i].of = v2'[i].by}
<1>6. Evidence!Befores = B /\ Evidence!Befores' = A
  BY <1>1, <1>4 DEF Evidence!Befores
<1>7. Cardinality(B) <= MaxComparisons /\ IsFiniteSet(B) /\ Cardinality(B) \in Nat
  <2>1. IsFiniteSet(B)
    <3>1. IsFiniteSet(1..n)
      BY <1>1, FS_Interval
    <3>2. B \subseteq 1..n
      OBVIOUS
    <3> QED
      BY <3>1, <3>2, FS_Subset
  <2> QED
    BY <1>6, <2>1, FS_CardinalityType, EvidenceCounts DEF EvidenceInv, Evidence!CapturesAreWithinLimits
<1>8. Cardinality(A) <= MaxComparisons
  <2>1. CASE v3[u].of = u
    <3>1. A = B \cup {n + 1} /\ (n + 1) \notin B
      BY <1>1, <1>3, <1>4, <2>1
    <3>2. Cardinality(A) = Cardinality(B) + 1
      BY <1>7, <3>1, FS_AddElement
    <3>3. Cardinality(B) < MaxComparisons
      BY <1>6, <2>1, EvidenceCounts DEF Evidence!AppendAllowed, Evidence!CaptureAllowed
    <3> HIDE DEF A, B
    <3> QED
      BY <1>7, <3>2, <3>3
  <2>2. CASE v3[u].of # u
    <3>1. A = B
      BY <1>1, <1>3, <1>4, <2>2
    <3> QED
      BY <1>7, <3>1
  <2> QED
    BY <2>1, <2>2
<1>9. ASSUME NEW i \in 1..(n + 1)
      PROVE  \E j \in 1..i : v2'[j].by = v2'[i].of /\ v2'[j].page = v2'[i].page /\ v2'[j].image = v2'[i].image
  <2>1. CASE i # n + 1
    <3>1. i \in 1..n
      BY <1>1, <2>1
    <3>2. PICK j \in 1..i : v2[j].by = v2[i].of /\ v2[j].page = v2[i].page /\ v2[j].image = v2[i].image
      BY <3>1 DEF EvidenceInv, Evidence!CapturesAreWithinLimits
    <3>3. j \in 1..n
      BY <1>1, <3>1
    <3> QED
      BY <1>4, <3>1, <3>2, <3>3
  <2>2. CASE i = n + 1 /\ v3[u].of = u
    <3>1. i \in 1..i /\ v2'[i] = c
      BY <1>1, <1>4, <2>2
    <3> QED
      BY <1>3, <2>2, <3>1
  <2>3. CASE i = n + 1 /\ v3[u].of # u
    <3> DEFINE j == CHOOSE k \in Evidence!Befores : v2[k].by = v3[u].of
    <3>1. \E k \in Evidence!Befores : v2[k].by = v3[u].of
      BY <2>3 DEF Evidence!AppendAllowed, Evidence!CaptureAllowed
    <3>2. j \in B /\ v2[j].by = v3[u].of
      BY <1>6, <3>1
    <3>3. v3[u].page = v2[j].page /\ v3[u].image = v2[j].image
      BY <1>2, <2>3 DEF Evidence!AppendAllowed, Evidence!CaptureAllowed, Evidence!SameContext, Evidence!BeforeOf
    <3> HIDE DEF j
    <3>4. j \in 1..n /\ j \in 1..i
      BY <1>1, <2>3, <3>2
    <3> QED
      BY <1>3, <1>4, <2>3, <3>2, <3>3, <3>4
  <2> QED
    BY <2>1, <2>2, <2>3
<1> QED
  <2>1. DOMAIN v2' = 1..(n + 1)
    BY <1>1, <1>4
  <2>2. Len(v2') <= MaxCaptures
    BY <1>1, <1>4, <1>5
  <2>3. Evidence!Cardinality(Evidence!Befores') <= MaxComparisons
    BY <1>6, <1>8, EvidenceCounts
  <2> QED
    BY <1>4, <1>9, <2>1, <2>2, <2>3 DEF Evidence!CapturesAreWithinLimits

LEMMA EvidenceInit ==
  ASSUME IsFiniteSet(Captures \cup Prompts), Captures \cap Prompts = {}, None \notin Images,
         MaxComparisons \in Nat, MaxCaptures \in Nat
  PROVE  Evidence!Init => EvidenceInv
<1> SUFFICES ASSUME Evidence!Init
             PROVE  EvidenceInv
  OBVIOUS
<1> USE DEF Evidence!Init
<1>1. \A u \in Evidence!Uploads : v3[u] = Evidence!Fresh /\ Evidence!Fresh.at = "idle" /\ Evidence!Fresh.file = 1
  BY DEF Evidence!Fresh
<1>2. Evidence!Domains
  <2>1. Evidence!Fresh \in Evidence!Records
    BY DEF Evidence!Fresh, Evidence!Records, Evidence!Stages
  <2> QED
    BY <2>1 DEF Evidence!Domains
<1>3. Evidence!InputsFollow
  BY <1>1 DEF Evidence!InputsFollow, Evidence!Brings
<1>4. Evidence!AttachmentsFollow
  BY <1>1 DEF Evidence!AttachmentsFollow, Evidence!Follows, Evidence!FileFollows
<1>5. Evidence!CapturesAreWithinLimits
  <2>1. Evidence!Befores = {} /\ Len(v2) = 0 /\ DOMAIN v2 = {}
    BY DEF Evidence!Befores
  <2>2. Evidence!Cardinality({}) = 0
    BY FS_EmptySet, EvidenceCounts
  <2> QED
    BY <2>1, <2>2 DEF Evidence!CapturesAreWithinLimits
<1>6. Evidence!DecodersComeBack
  <2>1. {u \in Evidence!Uploads : v3[u].at = "decoded"} = {}
    BY <1>1
  <2>2. Evidence!Cardinality({}) = 0
    BY FS_EmptySet, EvidenceCounts
  <2> QED
    BY <2>1, <2>2 DEF Evidence!DecodersComeBack
<1> QED
  BY <1>2, <1>3, <1>4, <1>5, <1>6 DEF EvidenceInv

LEMMA EvidenceStep ==
  ASSUME IsFiniteSet(Captures \cup Prompts), Captures \cap Prompts = {}, None \notin Images,
         MaxComparisons \in Nat, MaxCaptures \in Nat
  PROVE  EvidenceInv /\ [Evidence!Next]_(Evidence!comparisonVars) => EvidenceInv'
<1> SUFFICES ASSUME EvidenceInv, [Evidence!Next]_(Evidence!comparisonVars)
             PROVE  EvidenceInv'
  OBVIOUS
<1> USE DEF EvidenceInv
<1>1. CASE Evidence!ChangeStatus
  <2>1. Evidence!Domains'
    BY <1>1 DEF Evidence!ChangeStatus, Evidence!Domains, Evidence!Uploads
  <2>2. Evidence!InputsFollow'
    BY <1>1 DEF Evidence!ChangeStatus, Evidence!InputsFollow, Evidence!Brings, Evidence!FilesOf,
           Evidence!Uploads
  <2>3. Evidence!AttachmentsFollow'
    <3> SUFFICES ASSUME NEW w \in Evidence!Uploads, w \notin v7'
                 PROVE  Evidence!Follows(w, v3'[w], v5', v6')
      BY DEF Evidence!AttachmentsFollow, Evidence!Uploads, Evidence!Follows, Evidence!FilesOf, Evidence!FileFollows
    <3> QED
      BY <1>1 DEF Evidence!ChangeStatus, Evidence!AttachmentsFollow
  <2>4. Evidence!CapturesAreWithinLimits'
    BY <1>1 DEF Evidence!ChangeStatus, Evidence!CapturesAreWithinLimits, Evidence!Befores
  <2>5. Evidence!DecodersComeBack'
    BY <1>1 DEF Evidence!ChangeStatus, Evidence!DecodersComeBack, Evidence!Uploads
  <2> QED
    BY <2>1, <2>2, <2>3, <2>4, <2>5
<1>2. CASE \E u \in Evidence!Uploads : Evidence!BeginCapture(u)
  <2>1. PICK u \in Evidence!Uploads : Evidence!BeginCapture(u)
    BY <1>2
  <2>2. v3[u] \in Evidence!Records /\ Evidence!Brings(u, v3[u]) /\ (u \notin v7 => Evidence!Follows(u, v3[u], v5, v6))
    BY DEF Evidence!Domains, Evidence!InputsFollow, Evidence!AttachmentsFollow
  <2>3. PICK of \in Captures, page \in Pages, image \in Images :
            /\ v3' = [v3 EXCEPT ![u] = [Evidence!Fresh EXCEPT !.at = "checking", !.of = of, !.page = page, !.image = image]]
            /\ v3[u].at = "idle" /\ u \in Captures
            /\ v2' = v2 /\ v4' = v4 /\ v5' = v5 /\ v6' = v6 /\ v7' = v7
    BY <2>1 DEF Evidence!BeginCapture
  <2> DEFINE r == [Evidence!Fresh EXCEPT !.at = "checking", !.of = of, !.page = page, !.image = image]
  <2>4. /\ v3' = [v3 EXCEPT ![u] = r] /\ r \in Evidence!Records /\ r.at = "checking"
        /\ r.of = of /\ r.page = page /\ r.image = image /\ r.file = 1
    BY <2>2, <2>3 DEF Evidence!Records, Evidence!Stages, Evidence!Fresh
  <2> HIDE DEF r
  <2>5. Evidence!Brings(u, r)
    BY <2>1, <2>2, <2>3, <2>4 DEF Evidence!Brings, Evidence!FilesOf, Evidence!BeginCapture
  <2>6. /\ v7 \subseteq v7'
        /\ \A w \in Evidence!Uploads : w # u => \A n \in {1, 2} :
             (<<w, n>> \in v5' <=> <<w, n>> \in v5) /\ (<<w, n>> \in v6' <=> <<w, n>> \in v6)
    BY <2>3, FilesAre DEF Evidence!File
  <2>7. u \in v7' \/ Evidence!Follows(u, r, v5', v6')
    <3> SUFFICES ASSUME u \notin v7', NEW n \in Evidence!FilesOf(u)
                 PROVE  Evidence!FileFollows(u, n, r, v5', v6')
      BY DEF Evidence!Follows
    <3>1. Evidence!FileFollows(u, n, v3[u], v5, v6)
      BY <2>2, <2>6 DEF Evidence!Follows
    <3>2. (<<u, n>> \in v5' <=> <<u, n>> \in v5) /\ (<<u, n>> \in v6' <=> <<u, n>> \in v6)
      BY <2>3
    <3>3. n \in Nat /\ v3[u].file \in Nat /\ n \in {1, 2}
      BY <2>2, FilesAre DEF Evidence!Records
    <3> QED
      BY <2>3, <2>4, <3>1, <3>2, <3>3 DEF Evidence!FileFollows
  <2>8. v3' \in [Evidence!Uploads -> Evidence!Records] /\ Evidence!InputsFollow' /\ Evidence!AttachmentsFollow'
    BY <2>4, <2>5, <2>6, <2>7, UploadMoves
  <2>9. v4' \in Nat /\ Evidence!DecodersComeBack'
    BY <2>3, <2>4, DecodersFollow
  <2>10. v2' \in Seq([by : Captures, of : Captures, page : Pages, image : Images]) /\ Evidence!CapturesAreWithinLimits'
    BY <2>3, CapturesStay
  <2> QED
    BY <2>8, <2>9, <2>10 DEF Evidence!Domains
<1>3. CASE \E u \in Evidence!Uploads : Evidence!CheckCapture(u)
  <2>1. PICK u \in Evidence!Uploads : Evidence!CheckCapture(u)
    BY <1>3
  <2>2. v3[u] \in Evidence!Records /\ Evidence!Brings(u, v3[u]) /\ (u \notin v7 => Evidence!Follows(u, v3[u], v5, v6))
    BY DEF Evidence!Domains, Evidence!InputsFollow, Evidence!AttachmentsFollow
  <2>3. PICK stage \in {"decoding", "refused"} :
            /\ v3' = [v3 EXCEPT ![u].at = stage]
            /\ v3[u].at = "checking"
            /\ v2' = v2 /\ v4' = v4 /\ v5' = v5 /\ v6' = v6 /\ v7' = v7
    BY <2>1 DEF Evidence!CheckCapture, Evidence!At, Evidence!Fail
  <2> DEFINE r == [v3[u] EXCEPT !.at = stage]
  <2>4. /\ v3' = [v3 EXCEPT ![u] = r] /\ r \in Evidence!Records /\ r.at = stage
        /\ r.of = v3[u].of /\ r.page = v3[u].page /\ r.image = v3[u].image /\ r.file = v3[u].file
    BY <2>2, <2>3 DEF Evidence!Records, Evidence!Stages
  <2> HIDE DEF r
  <2>5. Evidence!Brings(u, r)
    BY <2>1, <2>2, <2>3, <2>4 DEF Evidence!Brings, Evidence!FilesOf, Evidence!CheckCapture
  <2>6. /\ v7 \subseteq v7'
        /\ \A w \in Evidence!Uploads : w # u => \A n \in {1, 2} :
             (<<w, n>> \in v5' <=> <<w, n>> \in v5) /\ (<<w, n>> \in v6' <=> <<w, n>> \in v6)
    BY <2>3, FilesAre DEF Evidence!File
  <2>7. u \in v7' \/ Evidence!Follows(u, r, v5', v6')
    <3> SUFFICES ASSUME u \notin v7', NEW n \in Evidence!FilesOf(u)
                 PROVE  Evidence!FileFollows(u, n, r, v5', v6')
      BY DEF Evidence!Follows
    <3>1. Evidence!FileFollows(u, n, v3[u], v5, v6)
      BY <2>2, <2>6 DEF Evidence!Follows
    <3>2. (<<u, n>> \in v5' <=> <<u, n>> \in v5) /\ (<<u, n>> \in v6' <=> <<u, n>> \in v6)
      BY <2>3
    <3>3. n \in Nat /\ v3[u].file \in Nat /\ n \in {1, 2}
      BY <2>2, FilesAre DEF Evidence!Records
    <3> QED
      BY <2>3, <2>4, <3>1, <3>2, <3>3 DEF Evidence!FileFollows
  <2>8. v3' \in [Evidence!Uploads -> Evidence!Records] /\ Evidence!InputsFollow' /\ Evidence!AttachmentsFollow'
    BY <2>4, <2>5, <2>6, <2>7, UploadMoves
  <2>9. v4' \in Nat /\ Evidence!DecodersComeBack'
    BY <2>3, <2>4, DecodersFollow
  <2>10. v2' \in Seq([by : Captures, of : Captures, page : Pages, image : Images]) /\ Evidence!CapturesAreWithinLimits'
    BY <2>3, CapturesStay
  <2> QED
    BY <2>8, <2>9, <2>10 DEF Evidence!Domains
<1>4. CASE \E u \in Evidence!Uploads : Evidence!BeginDecode(u)
  <2>1. PICK u \in Evidence!Uploads : Evidence!BeginDecode(u)
    BY <1>4
  <2>2. v3[u] \in Evidence!Records /\ Evidence!Brings(u, v3[u]) /\ (u \notin v7 => Evidence!Follows(u, v3[u], v5, v6))
    BY DEF Evidence!Domains, Evidence!InputsFollow, Evidence!AttachmentsFollow
  <2>3. PICK stage \in {"refused", "decoded"} :
            /\ v3' = [v3 EXCEPT ![u].at = stage]
            /\ v3[u].at = "decoding"
            /\ v4' = IF stage = "decoded" THEN v4 + 1 ELSE v4
            /\ v2' = v2 /\ v5' = v5 /\ v6' = v6 /\ v7' = v7
    BY <2>1 DEF Evidence!BeginDecode, Evidence!At, Evidence!Fail
  <2> DEFINE r == [v3[u] EXCEPT !.at = stage]
  <2>4. /\ v3' = [v3 EXCEPT ![u] = r] /\ r \in Evidence!Records /\ r.at = stage
        /\ r.of = v3[u].of /\ r.page = v3[u].page /\ r.image = v3[u].image /\ r.file = v3[u].file
    BY <2>2, <2>3 DEF Evidence!Records, Evidence!Stages
  <2> HIDE DEF r
  <2>5. Evidence!Brings(u, r)
    BY <2>1, <2>2, <2>3, <2>4 DEF Evidence!Brings, Evidence!FilesOf, Evidence!BeginDecode
  <2>6. /\ v7 \subseteq v7'
        /\ \A w \in Evidence!Uploads : w # u => \A n \in {1, 2} :
             (<<w, n>> \in v5' <=> <<w, n>> \in v5) /\ (<<w, n>> \in v6' <=> <<w, n>> \in v6)
    BY <2>3, FilesAre DEF Evidence!File
  <2>7. u \in v7' \/ Evidence!Follows(u, r, v5', v6')
    <3> SUFFICES ASSUME u \notin v7', NEW n \in Evidence!FilesOf(u)
                 PROVE  Evidence!FileFollows(u, n, r, v5', v6')
      BY DEF Evidence!Follows
    <3>1. Evidence!FileFollows(u, n, v3[u], v5, v6)
      BY <2>2, <2>6 DEF Evidence!Follows
    <3>2. (<<u, n>> \in v5' <=> <<u, n>> \in v5) /\ (<<u, n>> \in v6' <=> <<u, n>> \in v6)
      BY <2>3
    <3>3. n \in Nat /\ v3[u].file \in Nat /\ n \in {1, 2}
      BY <2>2, FilesAre DEF Evidence!Records
    <3> QED
      BY <2>3, <2>4, <3>1, <3>2, <3>3 DEF Evidence!FileFollows
  <2>8. v3' \in [Evidence!Uploads -> Evidence!Records] /\ Evidence!InputsFollow' /\ Evidence!AttachmentsFollow'
    BY <2>4, <2>5, <2>6, <2>7, UploadMoves
  <2>9. v4' \in Nat /\ Evidence!DecodersComeBack'
    BY <2>3, <2>4, DecodersFollow
  <2>10. v2' \in Seq([by : Captures, of : Captures, page : Pages, image : Images]) /\ Evidence!CapturesAreWithinLimits'
    BY <2>3, CapturesStay
  <2> QED
    BY <2>8, <2>9, <2>10 DEF Evidence!Domains
<1>5. CASE \E u \in Evidence!Uploads : Evidence!EndDecode(u)
  <2>1. PICK u \in Evidence!Uploads : Evidence!EndDecode(u)
    BY <1>5
  <2>2. v3[u] \in Evidence!Records /\ Evidence!Brings(u, v3[u]) /\ (u \notin v7 => Evidence!Follows(u, v3[u], v5, v6))
    BY DEF Evidence!Domains, Evidence!InputsFollow, Evidence!AttachmentsFollow
  <2>3. PICK stage \in {"storing", "refused"} :
            /\ v3' = [v3 EXCEPT ![u].at = stage]
            /\ v3[u].at = "decoded"
            /\ v4' = v4 - 1
            /\ v2' = v2 /\ v5' = v5 /\ v6' = v6 /\ v7' = v7
    BY <2>1 DEF Evidence!EndDecode, Evidence!At, Evidence!Fail
  <2> DEFINE r == [v3[u] EXCEPT !.at = stage]
  <2>4. /\ v3' = [v3 EXCEPT ![u] = r] /\ r \in Evidence!Records /\ r.at = stage
        /\ r.of = v3[u].of /\ r.page = v3[u].page /\ r.image = v3[u].image /\ r.file = v3[u].file
    BY <2>2, <2>3 DEF Evidence!Records, Evidence!Stages
  <2> HIDE DEF r
  <2>5. Evidence!Brings(u, r)
    BY <2>1, <2>2, <2>3, <2>4 DEF Evidence!Brings, Evidence!FilesOf, Evidence!EndDecode
  <2>6. /\ v7 \subseteq v7'
        /\ \A w \in Evidence!Uploads : w # u => \A n \in {1, 2} :
             (<<w, n>> \in v5' <=> <<w, n>> \in v5) /\ (<<w, n>> \in v6' <=> <<w, n>> \in v6)
    BY <2>3, FilesAre DEF Evidence!File
  <2>7. u \in v7' \/ Evidence!Follows(u, r, v5', v6')
    <3> SUFFICES ASSUME u \notin v7', NEW n \in Evidence!FilesOf(u)
                 PROVE  Evidence!FileFollows(u, n, r, v5', v6')
      BY DEF Evidence!Follows
    <3>1. Evidence!FileFollows(u, n, v3[u], v5, v6)
      BY <2>2, <2>6 DEF Evidence!Follows
    <3>2. (<<u, n>> \in v5' <=> <<u, n>> \in v5) /\ (<<u, n>> \in v6' <=> <<u, n>> \in v6)
      BY <2>3
    <3>3. n \in Nat /\ v3[u].file \in Nat /\ n \in {1, 2}
      BY <2>2, FilesAre DEF Evidence!Records
    <3>4. v3[u].file = 1
      BY <2>2, <2>3 DEF Evidence!Brings
    <3> QED
      BY <2>3, <2>4, <3>1, <3>2, <3>3, <3>4 DEF Evidence!FileFollows
  <2>8. v3' \in [Evidence!Uploads -> Evidence!Records] /\ Evidence!InputsFollow' /\ Evidence!AttachmentsFollow'
    BY <2>4, <2>5, <2>6, <2>7, UploadMoves
  <2>9. v4' \in Nat /\ Evidence!DecodersComeBack'
    BY <2>3, <2>4, DecodersFollow
  <2>10. v2' \in Seq([by : Captures, of : Captures, page : Pages, image : Images]) /\ Evidence!CapturesAreWithinLimits'
    BY <2>3, CapturesStay
  <2> QED
    BY <2>8, <2>9, <2>10 DEF Evidence!Domains
<1>6. CASE \E u \in Evidence!Uploads : Evidence!BeginPrompt(u)
  <2>1. PICK u \in Evidence!Uploads : Evidence!BeginPrompt(u)
    BY <1>6
  <2>2. v3[u] \in Evidence!Records /\ Evidence!Brings(u, v3[u]) /\ (u \notin v7 => Evidence!Follows(u, v3[u], v5, v6))
    BY DEF Evidence!Domains, Evidence!InputsFollow, Evidence!AttachmentsFollow
  <2>3. PICK stage \in {"storing", "refused"} :
            /\ v3' = [v3 EXCEPT ![u].at = stage]
            /\ v3[u].at = "idle"
            /\ v2' = v2 /\ v4' = v4 /\ v5' = v5 /\ v6' = v6 /\ v7' = v7
    BY <2>1 DEF Evidence!BeginPrompt, Evidence!At, Evidence!Fail
  <2> DEFINE r == [v3[u] EXCEPT !.at = stage]
  <2>4. /\ v3' = [v3 EXCEPT ![u] = r] /\ r \in Evidence!Records /\ r.at = stage
        /\ r.of = v3[u].of /\ r.page = v3[u].page /\ r.image = v3[u].image /\ r.file = v3[u].file
    BY <2>2, <2>3 DEF Evidence!Records, Evidence!Stages
  <2> HIDE DEF r
  <2>5. Evidence!Brings(u, r)
    BY <2>1, <2>2, <2>3, <2>4 DEF Evidence!Brings, Evidence!FilesOf, Evidence!BeginPrompt
  <2>6. /\ v7 \subseteq v7'
        /\ \A w \in Evidence!Uploads : w # u => \A n \in {1, 2} :
             (<<w, n>> \in v5' <=> <<w, n>> \in v5) /\ (<<w, n>> \in v6' <=> <<w, n>> \in v6)
    BY <2>3, FilesAre DEF Evidence!File
  <2>7. u \in v7' \/ Evidence!Follows(u, r, v5', v6')
    <3> SUFFICES ASSUME u \notin v7', NEW n \in Evidence!FilesOf(u)
                 PROVE  Evidence!FileFollows(u, n, r, v5', v6')
      BY DEF Evidence!Follows
    <3>1. Evidence!FileFollows(u, n, v3[u], v5, v6)
      BY <2>2, <2>6 DEF Evidence!Follows
    <3>2. (<<u, n>> \in v5' <=> <<u, n>> \in v5) /\ (<<u, n>> \in v6' <=> <<u, n>> \in v6)
      BY <2>3
    <3>3. n \in Nat /\ v3[u].file \in Nat /\ n \in {1, 2}
      BY <2>2, FilesAre DEF Evidence!Records
    <3>4. v3[u].file = 1
      BY <2>2, <2>3 DEF Evidence!Brings
    <3> QED
      BY <2>3, <2>4, <3>1, <3>2, <3>3, <3>4 DEF Evidence!FileFollows
  <2>8. v3' \in [Evidence!Uploads -> Evidence!Records] /\ Evidence!InputsFollow' /\ Evidence!AttachmentsFollow'
    BY <2>4, <2>5, <2>6, <2>7, UploadMoves
  <2>9. v4' \in Nat /\ Evidence!DecodersComeBack'
    BY <2>3, <2>4, DecodersFollow
  <2>10. v2' \in Seq([by : Captures, of : Captures, page : Pages, image : Images]) /\ Evidence!CapturesAreWithinLimits'
    BY <2>3, CapturesStay
  <2> QED
    BY <2>8, <2>9, <2>10 DEF Evidence!Domains
<1>7. CASE \E u \in Evidence!Uploads : Evidence!Put(u)
  <2>1. PICK u \in Evidence!Uploads : Evidence!Put(u)
    BY <1>7
  <2>2. v3[u] \in Evidence!Records /\ Evidence!Brings(u, v3[u]) /\ (u \notin v7 => Evidence!Follows(u, v3[u], v5, v6))
    BY DEF Evidence!Domains, Evidence!InputsFollow, Evidence!AttachmentsFollow
  <2>3. PICK stage \in {"inserting"} :
            /\ v3' = [v3 EXCEPT ![u].at = stage]
            /\ v3[u].at = "storing"
            /\ v5' = v5 \cup {Evidence!File(u)}
            /\ v2' = v2 /\ v4' = v4 /\ v6' = v6 /\ v7' = v7
    BY <2>1 DEF Evidence!Put, Evidence!At, Evidence!Fail
  <2> DEFINE r == [v3[u] EXCEPT !.at = stage]
  <2>4. /\ v3' = [v3 EXCEPT ![u] = r] /\ r \in Evidence!Records /\ r.at = stage
        /\ r.of = v3[u].of /\ r.page = v3[u].page /\ r.image = v3[u].image /\ r.file = v3[u].file
    BY <2>2, <2>3 DEF Evidence!Records, Evidence!Stages
  <2> HIDE DEF r
  <2>5. Evidence!Brings(u, r)
    BY <2>1, <2>2, <2>3, <2>4 DEF Evidence!Brings, Evidence!FilesOf, Evidence!Put
  <2>6. /\ v7 \subseteq v7'
        /\ \A w \in Evidence!Uploads : w # u => \A n \in {1, 2} :
             (<<w, n>> \in v5' <=> <<w, n>> \in v5) /\ (<<w, n>> \in v6' <=> <<w, n>> \in v6)
    BY <2>3, FilesAre DEF Evidence!File
  <2>7. u \in v7' \/ Evidence!Follows(u, r, v5', v6')
    <3> SUFFICES ASSUME u \notin v7', NEW n \in Evidence!FilesOf(u)
                 PROVE  Evidence!FileFollows(u, n, r, v5', v6')
      BY DEF Evidence!Follows
    <3>1. Evidence!FileFollows(u, n, v3[u], v5, v6)
      BY <2>2, <2>6 DEF Evidence!Follows
    <3>2. (<<u, n>> \in v5' <=> <<u, n>> \in v5 \/ n = v3[u].file) /\ (<<u, n>> \in v6' <=> <<u, n>> \in v6)
      <4>1. <<u, n>> = <<u, v3[u].file>> <=> n = v3[u].file
        OBVIOUS
      <4> QED
        BY <2>3, <4>1 DEF Evidence!File
    <3>3. n \in Nat /\ v3[u].file \in Nat /\ n \in {1, 2}
      BY <2>2, FilesAre DEF Evidence!Records
    <3> QED
      BY <2>3, <2>4, <3>1, <3>2, <3>3 DEF Evidence!FileFollows
  <2>8. v3' \in [Evidence!Uploads -> Evidence!Records] /\ Evidence!InputsFollow' /\ Evidence!AttachmentsFollow'
    BY <2>4, <2>5, <2>6, <2>7, UploadMoves
  <2>9. v4' \in Nat /\ Evidence!DecodersComeBack'
    BY <2>3, <2>4, DecodersFollow
  <2>10. v2' \in Seq([by : Captures, of : Captures, page : Pages, image : Images]) /\ Evidence!CapturesAreWithinLimits'
    BY <2>3, CapturesStay
  <2> QED
    BY <2>8, <2>9, <2>10 DEF Evidence!Domains
<1>8. CASE \E u \in Evidence!Uploads : Evidence!FailPut(u)
  <2>1. PICK u \in Evidence!Uploads : Evidence!FailPut(u)
    BY <1>8
  <2>2. v3[u] \in Evidence!Records /\ Evidence!Brings(u, v3[u]) /\ (u \notin v7 => Evidence!Follows(u, v3[u], v5, v6))
    BY DEF Evidence!Domains, Evidence!InputsFollow, Evidence!AttachmentsFollow
  <2>3. PICK stage \in {"removing"} :
            /\ v3' = [v3 EXCEPT ![u].at = stage]
            /\ v3[u].at = "storing"
            /\ (v5' = v5 /\ v7' = v7) \/ (v5' = v5 \cup {Evidence!File(u)} /\ v7' = v7 \cup {u})
            /\ v7 \subseteq v7'
            /\ v2' = v2 /\ v4' = v4 /\ v6' = v6
    BY <2>1 DEF Evidence!FailPut, Evidence!At, Evidence!Fail
  <2> DEFINE r == [v3[u] EXCEPT !.at = stage]
  <2>4. /\ v3' = [v3 EXCEPT ![u] = r] /\ r \in Evidence!Records /\ r.at = stage
        /\ r.of = v3[u].of /\ r.page = v3[u].page /\ r.image = v3[u].image /\ r.file = v3[u].file
    BY <2>2, <2>3 DEF Evidence!Records, Evidence!Stages
  <2> HIDE DEF r
  <2>5. Evidence!Brings(u, r)
    BY <2>1, <2>2, <2>3, <2>4 DEF Evidence!Brings, Evidence!FilesOf, Evidence!FailPut
  <2>6. /\ v7 \subseteq v7'
        /\ \A w \in Evidence!Uploads : w # u => \A n \in {1, 2} :
             (<<w, n>> \in v5' <=> <<w, n>> \in v5) /\ (<<w, n>> \in v6' <=> <<w, n>> \in v6)
    BY <2>3, FilesAre DEF Evidence!File
  <2>7. u \in v7' \/ Evidence!Follows(u, r, v5', v6')
    <3> SUFFICES ASSUME u \notin v7', NEW n \in Evidence!FilesOf(u)
                 PROVE  Evidence!FileFollows(u, n, r, v5', v6')
      BY DEF Evidence!Follows
    <3>1. Evidence!FileFollows(u, n, v3[u], v5, v6)
      BY <2>2, <2>6 DEF Evidence!Follows
    <3>2. (<<u, n>> \in v5' <=> <<u, n>> \in v5) /\ (<<u, n>> \in v6' <=> <<u, n>> \in v6)
      BY <2>3
    <3>3. n \in Nat /\ v3[u].file \in Nat /\ n \in {1, 2}
      BY <2>2, FilesAre DEF Evidence!Records
    <3> QED
      BY <2>3, <2>4, <3>1, <3>2, <3>3 DEF Evidence!FileFollows
  <2>8. v3' \in [Evidence!Uploads -> Evidence!Records] /\ Evidence!InputsFollow' /\ Evidence!AttachmentsFollow'
    BY <2>4, <2>5, <2>6, <2>7, UploadMoves
  <2>9. v4' \in Nat /\ Evidence!DecodersComeBack'
    BY <2>3, <2>4, DecodersFollow
  <2>10. v2' \in Seq([by : Captures, of : Captures, page : Pages, image : Images]) /\ Evidence!CapturesAreWithinLimits'
    BY <2>3, CapturesStay
  <2> QED
    BY <2>8, <2>9, <2>10 DEF Evidence!Domains
<1>9. CASE \E u \in Evidence!Uploads : Evidence!Insert(u)
  <2>1. PICK u \in Evidence!Uploads : Evidence!Insert(u)
    BY <1>9
  <2>2. v3[u] \in Evidence!Records /\ Evidence!Brings(u, v3[u]) /\ (u \notin v7 => Evidence!Follows(u, v3[u], v5, v6))
    BY DEF Evidence!Domains, Evidence!InputsFollow, Evidence!AttachmentsFollow
  <2> DEFINE file == v3[u].file
             stage == IF file + 1 \in Evidence!FilesOf(u) THEN "storing" ELSE "committing"
             r == [v3[u] EXCEPT !.file = file + 1, !.at = stage]
  <2>3. /\ v3' = [v3 EXCEPT ![u] = r] /\ v3[u].at = "inserting" /\ v6' = v6 \cup {Evidence!File(u)}
        /\ v2' = v2 /\ v4' = v4 /\ v5' = v5 /\ v7' = v7
    BY <2>1 DEF Evidence!Insert
  <2>4. /\ v3' = [v3 EXCEPT ![u] = r] /\ r \in Evidence!Records /\ r.at = stage
        /\ r.of = v3[u].of /\ r.page = v3[u].page /\ r.image = v3[u].image /\ r.file = file + 1
    <3>1. file \in Nat /\ stage \in Evidence!Stages
      BY <2>2 DEF Evidence!Records, Evidence!Stages
    <3> HIDE DEF file, stage
    <3>2. file + 1 \in Nat
      BY <3>1
    <3> DEFINE next == file + 1
    <3> HIDE DEF next
    <3>3. r = [v3[u] EXCEPT !.file = next, !.at = stage]
      BY DEF next
    <3>4. /\ r \in Evidence!Records /\ r.at = stage /\ r.file = next
          /\ r.of = v3[u].of /\ r.page = v3[u].page /\ r.image = v3[u].image
      <4> HIDE DEF r
      <4>1. next \in Nat
        BY <3>2 DEF next
      <4> QED
        BY <2>2, <3>1, <3>3, <4>1 DEF Evidence!Records
    <3> QED
      BY <2>3, <3>4 DEF next
  <2> HIDE DEF r
  <2>5. Evidence!Brings(u, r)
    BY <2>1, <2>2, <2>3, <2>4 DEF Evidence!Brings, Evidence!FilesOf, Evidence!Insert
  <2>6. /\ v7 \subseteq v7'
        /\ \A w \in Evidence!Uploads : w # u => \A n \in {1, 2} :
             (<<w, n>> \in v5' <=> <<w, n>> \in v5) /\ (<<w, n>> \in v6' <=> <<w, n>> \in v6)
    BY <2>3, FilesAre DEF Evidence!File
  <2>7. u \in v7' \/ Evidence!Follows(u, r, v5', v6')
    <3> SUFFICES ASSUME u \notin v7', NEW n \in Evidence!FilesOf(u)
                 PROVE  Evidence!FileFollows(u, n, r, v5', v6')
      BY DEF Evidence!Follows
    <3>1. Evidence!FileFollows(u, n, v3[u], v5, v6)
      BY <2>2, <2>6 DEF Evidence!Follows
    <3>2. (<<u, n>> \in v5' <=> <<u, n>> \in v5) /\ (<<u, n>> \in v6' <=> <<u, n>> \in v6 \/ n = v3[u].file)
      <4>1. <<u, n>> = <<u, v3[u].file>> <=> n = v3[u].file
        OBVIOUS
      <4> QED
        BY <2>3, <4>1 DEF Evidence!File
    <3>3. n \in Nat /\ v3[u].file \in Nat /\ n \in {1, 2}
      BY <2>2, FilesAre DEF Evidence!Records
    <3>4. /\ v3[u].file = file /\ file \in Nat
          /\ stage = "storing" \/ (stage = "committing" /\ n <= file)
      BY <2>2, <2>3, <3>3 DEF Evidence!Brings, Evidence!FilesOf
    <3> HIDE DEF file, stage
    <3> QED
      BY <2>3, <2>4, <3>1, <3>2, <3>3, <3>4 DEF Evidence!FileFollows
  <2>8. v3' \in [Evidence!Uploads -> Evidence!Records] /\ Evidence!InputsFollow' /\ Evidence!AttachmentsFollow'
    BY <2>4, <2>5, <2>6, <2>7, UploadMoves
  <2>9. v4' \in Nat /\ Evidence!DecodersComeBack'
    BY <2>3, <2>4, DecodersFollow
  <2>10. v2' \in Seq([by : Captures, of : Captures, page : Pages, image : Images]) /\ Evidence!CapturesAreWithinLimits'
    BY <2>3, CapturesStay
  <2> QED
    BY <2>8, <2>9, <2>10 DEF Evidence!Domains
<1>10. CASE \E u \in Evidence!Uploads : Evidence!FailInsert(u)
  <2>1. PICK u \in Evidence!Uploads : Evidence!FailInsert(u)
    BY <1>10
  <2>2. v3[u] \in Evidence!Records /\ Evidence!Brings(u, v3[u]) /\ (u \notin v7 => Evidence!Follows(u, v3[u], v5, v6))
    BY DEF Evidence!Domains, Evidence!InputsFollow, Evidence!AttachmentsFollow
  <2>3. PICK stage \in {"removing"} :
            /\ v3' = [v3 EXCEPT ![u].at = stage]
            /\ v3[u].at = "inserting"
            /\ (v5' = v5 \ {Evidence!File(u)} /\ v7' = v7) \/ (v5' = v5 /\ v7' = v7 \cup {u})
            /\ v7 \subseteq v7'
            /\ v2' = v2 /\ v4' = v4 /\ v6' = v6
    BY <2>1 DEF Evidence!FailInsert, Evidence!At, Evidence!Fail
  <2> DEFINE r == [v3[u] EXCEPT !.at = stage]
  <2>4. /\ v3' = [v3 EXCEPT ![u] = r] /\ r \in Evidence!Records /\ r.at = stage
        /\ r.of = v3[u].of /\ r.page = v3[u].page /\ r.image = v3[u].image /\ r.file = v3[u].file
    BY <2>2, <2>3 DEF Evidence!Records, Evidence!Stages
  <2> HIDE DEF r
  <2>5. Evidence!Brings(u, r)
    BY <2>1, <2>2, <2>3, <2>4 DEF Evidence!Brings, Evidence!FilesOf, Evidence!FailInsert
  <2>6. /\ v7 \subseteq v7'
        /\ \A w \in Evidence!Uploads : w # u => \A n \in {1, 2} :
             (<<w, n>> \in v5' <=> <<w, n>> \in v5) /\ (<<w, n>> \in v6' <=> <<w, n>> \in v6)
    BY <2>3, FilesAre DEF Evidence!File
  <2>7. u \in v7' \/ Evidence!Follows(u, r, v5', v6')
    <3> SUFFICES ASSUME u \notin v7', NEW n \in Evidence!FilesOf(u)
                 PROVE  Evidence!FileFollows(u, n, r, v5', v6')
      BY DEF Evidence!Follows
    <3>1. Evidence!FileFollows(u, n, v3[u], v5, v6)
      BY <2>2, <2>6 DEF Evidence!Follows
    <3>2. (<<u, n>> \in v5' <=> <<u, n>> \in v5 /\ n # v3[u].file) /\ (<<u, n>> \in v6' <=> <<u, n>> \in v6)
      <4>1. <<u, n>> = <<u, v3[u].file>> <=> n = v3[u].file
        OBVIOUS
      <4> QED
        BY <2>3, <4>1 DEF Evidence!File
    <3>3. n \in Nat /\ v3[u].file \in Nat /\ n \in {1, 2}
      BY <2>2, FilesAre DEF Evidence!Records
    <3> QED
      BY <2>3, <2>4, <3>1, <3>2, <3>3 DEF Evidence!FileFollows
  <2>8. v3' \in [Evidence!Uploads -> Evidence!Records] /\ Evidence!InputsFollow' /\ Evidence!AttachmentsFollow'
    BY <2>4, <2>5, <2>6, <2>7, UploadMoves
  <2>9. v4' \in Nat /\ Evidence!DecodersComeBack'
    BY <2>3, <2>4, DecodersFollow
  <2>10. v2' \in Seq([by : Captures, of : Captures, page : Pages, image : Images]) /\ Evidence!CapturesAreWithinLimits'
    BY <2>3, CapturesStay
  <2> QED
    BY <2>8, <2>9, <2>10 DEF Evidence!Domains
<1>11. CASE \E u \in Evidence!Uploads : Evidence!CommitCapture(u)
  <2>1. PICK u \in Evidence!Uploads : Evidence!CommitCapture(u)
    BY <1>11
  <2>2. v3[u] \in Evidence!Records /\ Evidence!Brings(u, v3[u]) /\ (u \notin v7 => Evidence!Follows(u, v3[u], v5, v6))
    BY DEF Evidence!Domains, Evidence!InputsFollow, Evidence!AttachmentsFollow
  <2>3. PICK stage \in {"done", "removing"} :
            /\ v3' = [v3 EXCEPT ![u].at = stage]
            /\ v3[u].at = "committing" /\ u \in Captures
            /\ v2' = v2 \/ (Evidence!AppendAllowed(u) /\ v2' = Append(v2, Capture(u)))
            /\ v4' = v4 /\ v5' = v5 /\ v6' = v6 /\ v7' = v7
    BY <2>1 DEF Evidence!CommitCapture, Evidence!At, Evidence!Fail, Capture
  <2> DEFINE r == [v3[u] EXCEPT !.at = stage]
  <2>4. /\ v3' = [v3 EXCEPT ![u] = r] /\ r \in Evidence!Records /\ r.at = stage
        /\ r.of = v3[u].of /\ r.page = v3[u].page /\ r.image = v3[u].image /\ r.file = v3[u].file
    BY <2>2, <2>3 DEF Evidence!Records, Evidence!Stages
  <2> HIDE DEF r
  <2>5. Evidence!Brings(u, r)
    BY <2>1, <2>2, <2>3, <2>4 DEF Evidence!Brings, Evidence!FilesOf, Evidence!CommitCapture
  <2>6. /\ v7 \subseteq v7'
        /\ \A w \in Evidence!Uploads : w # u => \A n \in {1, 2} :
             (<<w, n>> \in v5' <=> <<w, n>> \in v5) /\ (<<w, n>> \in v6' <=> <<w, n>> \in v6)
    BY <2>3, FilesAre DEF Evidence!File
  <2>7. u \in v7' \/ Evidence!Follows(u, r, v5', v6')
    <3> SUFFICES ASSUME u \notin v7', NEW n \in Evidence!FilesOf(u)
                 PROVE  Evidence!FileFollows(u, n, r, v5', v6')
      BY DEF Evidence!Follows
    <3>1. Evidence!FileFollows(u, n, v3[u], v5, v6)
      BY <2>2, <2>6 DEF Evidence!Follows
    <3>2. (<<u, n>> \in v5' <=> <<u, n>> \in v5) /\ (<<u, n>> \in v6' <=> <<u, n>> \in v6)
      BY <2>3
    <3>3. n \in Nat /\ v3[u].file \in Nat /\ n \in {1, 2}
      BY <2>2, FilesAre DEF Evidence!Records
    <3> QED
      BY <2>3, <2>4, <3>1, <3>2, <3>3 DEF Evidence!FileFollows
  <2>8. v3' \in [Evidence!Uploads -> Evidence!Records] /\ Evidence!InputsFollow' /\ Evidence!AttachmentsFollow'
    BY <2>4, <2>5, <2>6, <2>7, UploadMoves
  <2>9. v4' \in Nat /\ Evidence!DecodersComeBack'
    BY <2>3, <2>4, DecodersFollow
  <2>10. v2' \in Seq([by : Captures, of : Captures, page : Pages, image : Images]) /\ Evidence!CapturesAreWithinLimits'
    BY <2>2, <2>3, CaptureAppends, CapturesStay
  <2> QED
    BY <2>8, <2>9, <2>10 DEF Evidence!Domains
<1>12. CASE \E u \in Evidence!Uploads : Evidence!CommitPrompt(u)
  <2>1. PICK u \in Evidence!Uploads : Evidence!CommitPrompt(u)
    BY <1>12
  <2>2. v3[u] \in Evidence!Records /\ Evidence!Brings(u, v3[u]) /\ (u \notin v7 => Evidence!Follows(u, v3[u], v5, v6))
    BY DEF Evidence!Domains, Evidence!InputsFollow, Evidence!AttachmentsFollow
  <2>3. PICK stage \in {"done"} :
            /\ v3' = [v3 EXCEPT ![u].at = stage]
            /\ v3[u].at = "committing"
            /\ v2' = v2 /\ v4' = v4 /\ v5' = v5 /\ v6' = v6 /\ v7' = v7
    BY <2>1 DEF Evidence!CommitPrompt, Evidence!At, Evidence!Fail
  <2> DEFINE r == [v3[u] EXCEPT !.at = stage]
  <2>4. /\ v3' = [v3 EXCEPT ![u] = r] /\ r \in Evidence!Records /\ r.at = stage
        /\ r.of = v3[u].of /\ r.page = v3[u].page /\ r.image = v3[u].image /\ r.file = v3[u].file
    BY <2>2, <2>3 DEF Evidence!Records, Evidence!Stages
  <2> HIDE DEF r
  <2>5. Evidence!Brings(u, r)
    BY <2>1, <2>2, <2>3, <2>4 DEF Evidence!Brings, Evidence!FilesOf, Evidence!CommitPrompt
  <2>6. /\ v7 \subseteq v7'
        /\ \A w \in Evidence!Uploads : w # u => \A n \in {1, 2} :
             (<<w, n>> \in v5' <=> <<w, n>> \in v5) /\ (<<w, n>> \in v6' <=> <<w, n>> \in v6)
    BY <2>3, FilesAre DEF Evidence!File
  <2>7. u \in v7' \/ Evidence!Follows(u, r, v5', v6')
    <3> SUFFICES ASSUME u \notin v7', NEW n \in Evidence!FilesOf(u)
                 PROVE  Evidence!FileFollows(u, n, r, v5', v6')
      BY DEF Evidence!Follows
    <3>1. Evidence!FileFollows(u, n, v3[u], v5, v6)
      BY <2>2, <2>6 DEF Evidence!Follows
    <3>2. (<<u, n>> \in v5' <=> <<u, n>> \in v5) /\ (<<u, n>> \in v6' <=> <<u, n>> \in v6)
      BY <2>3
    <3>3. n \in Nat /\ v3[u].file \in Nat /\ n \in {1, 2}
      BY <2>2, FilesAre DEF Evidence!Records
    <3> QED
      BY <2>3, <2>4, <3>1, <3>2, <3>3 DEF Evidence!FileFollows
  <2>8. v3' \in [Evidence!Uploads -> Evidence!Records] /\ Evidence!InputsFollow' /\ Evidence!AttachmentsFollow'
    BY <2>4, <2>5, <2>6, <2>7, UploadMoves
  <2>9. v4' \in Nat /\ Evidence!DecodersComeBack'
    BY <2>3, <2>4, DecodersFollow
  <2>10. v2' \in Seq([by : Captures, of : Captures, page : Pages, image : Images]) /\ Evidence!CapturesAreWithinLimits'
    BY <2>3, CapturesStay
  <2> QED
    BY <2>8, <2>9, <2>10 DEF Evidence!Domains
<1>13. CASE \E u \in Evidence!Uploads : Evidence!FailCommit(u)
  <2>1. PICK u \in Evidence!Uploads : Evidence!FailCommit(u)
    BY <1>13
  <2>2. v3[u] \in Evidence!Records /\ Evidence!Brings(u, v3[u]) /\ (u \notin v7 => Evidence!Follows(u, v3[u], v5, v6))
    BY DEF Evidence!Domains, Evidence!InputsFollow, Evidence!AttachmentsFollow
  <2>3. PICK stage \in {"removing"} :
            /\ v3' = [v3 EXCEPT ![u].at = stage]
            /\ v3[u].at = "committing"
            /\ v2' = v2 /\ v4' = v4 /\ v5' = v5 /\ v6' = v6 /\ v7' = v7
    BY <2>1 DEF Evidence!FailCommit, Evidence!At, Evidence!Fail
  <2> DEFINE r == [v3[u] EXCEPT !.at = stage]
  <2>4. /\ v3' = [v3 EXCEPT ![u] = r] /\ r \in Evidence!Records /\ r.at = stage
        /\ r.of = v3[u].of /\ r.page = v3[u].page /\ r.image = v3[u].image /\ r.file = v3[u].file
    BY <2>2, <2>3 DEF Evidence!Records, Evidence!Stages
  <2> HIDE DEF r
  <2>5. Evidence!Brings(u, r)
    BY <2>1, <2>2, <2>3, <2>4 DEF Evidence!Brings, Evidence!FilesOf, Evidence!FailCommit
  <2>6. /\ v7 \subseteq v7'
        /\ \A w \in Evidence!Uploads : w # u => \A n \in {1, 2} :
             (<<w, n>> \in v5' <=> <<w, n>> \in v5) /\ (<<w, n>> \in v6' <=> <<w, n>> \in v6)
    BY <2>3, FilesAre DEF Evidence!File
  <2>7. u \in v7' \/ Evidence!Follows(u, r, v5', v6')
    <3> SUFFICES ASSUME u \notin v7', NEW n \in Evidence!FilesOf(u)
                 PROVE  Evidence!FileFollows(u, n, r, v5', v6')
      BY DEF Evidence!Follows
    <3>1. Evidence!FileFollows(u, n, v3[u], v5, v6)
      BY <2>2, <2>6 DEF Evidence!Follows
    <3>2. (<<u, n>> \in v5' <=> <<u, n>> \in v5) /\ (<<u, n>> \in v6' <=> <<u, n>> \in v6)
      BY <2>3
    <3>3. n \in Nat /\ v3[u].file \in Nat /\ n \in {1, 2}
      BY <2>2, FilesAre DEF Evidence!Records
    <3> QED
      BY <2>3, <2>4, <3>1, <3>2, <3>3 DEF Evidence!FileFollows
  <2>8. v3' \in [Evidence!Uploads -> Evidence!Records] /\ Evidence!InputsFollow' /\ Evidence!AttachmentsFollow'
    BY <2>4, <2>5, <2>6, <2>7, UploadMoves
  <2>9. v4' \in Nat /\ Evidence!DecodersComeBack'
    BY <2>3, <2>4, DecodersFollow
  <2>10. v2' \in Seq([by : Captures, of : Captures, page : Pages, image : Images]) /\ Evidence!CapturesAreWithinLimits'
    BY <2>3, CapturesStay
  <2> QED
    BY <2>8, <2>9, <2>10 DEF Evidence!Domains
<1>14. CASE \E u \in Evidence!Uploads : Evidence!LoseCommit(u)
  <2>1. PICK u \in Evidence!Uploads : Evidence!LoseCommit(u)
    BY <1>14
  <2>2. v3[u] \in Evidence!Records /\ Evidence!Brings(u, v3[u]) /\ (u \notin v7 => Evidence!Follows(u, v3[u], v5, v6))
    BY DEF Evidence!Domains, Evidence!InputsFollow, Evidence!AttachmentsFollow
  <2>3. PICK stage \in {"done", "removing"} :
            /\ v3' = [v3 EXCEPT ![u].at = stage]
            /\ v3[u].at = "committing" /\ u \in Captures
            /\ v2' = v2 \/ (Evidence!AppendAllowed(u) /\ v2' = Append(v2, Capture(u)))
            /\ v4' = v4 /\ v5' = v5 /\ v6' = v6 /\ v7' = v7 \cup {u}
    BY <2>1 DEF Evidence!LoseCommit, Evidence!At, Evidence!Fail, Capture
  <2> DEFINE r == [v3[u] EXCEPT !.at = stage]
  <2>4. /\ v3' = [v3 EXCEPT ![u] = r] /\ r \in Evidence!Records /\ r.at = stage
        /\ r.of = v3[u].of /\ r.page = v3[u].page /\ r.image = v3[u].image /\ r.file = v3[u].file
    BY <2>2, <2>3 DEF Evidence!Records, Evidence!Stages
  <2> HIDE DEF r
  <2>5. Evidence!Brings(u, r)
    BY <2>1, <2>2, <2>3, <2>4 DEF Evidence!Brings, Evidence!FilesOf, Evidence!LoseCommit
  <2>6. /\ v7 \subseteq v7'
        /\ \A w \in Evidence!Uploads : w # u => \A n \in {1, 2} :
             (<<w, n>> \in v5' <=> <<w, n>> \in v5) /\ (<<w, n>> \in v6' <=> <<w, n>> \in v6)
    BY <2>3, FilesAre DEF Evidence!File
  <2>7. u \in v7' \/ Evidence!Follows(u, r, v5', v6')
    <3> SUFFICES ASSUME u \notin v7', NEW n \in Evidence!FilesOf(u)
                 PROVE  Evidence!FileFollows(u, n, r, v5', v6')
      BY DEF Evidence!Follows
    <3>1. Evidence!FileFollows(u, n, v3[u], v5, v6)
      BY <2>2, <2>6 DEF Evidence!Follows
    <3>2. (<<u, n>> \in v5' <=> <<u, n>> \in v5) /\ (<<u, n>> \in v6' <=> <<u, n>> \in v6)
      BY <2>3
    <3>3. n \in Nat /\ v3[u].file \in Nat /\ n \in {1, 2}
      BY <2>2, FilesAre DEF Evidence!Records
    <3> QED
      BY <2>3, <2>4, <3>1, <3>2, <3>3 DEF Evidence!FileFollows
  <2>8. v3' \in [Evidence!Uploads -> Evidence!Records] /\ Evidence!InputsFollow' /\ Evidence!AttachmentsFollow'
    BY <2>4, <2>5, <2>6, <2>7, UploadMoves
  <2>9. v4' \in Nat /\ Evidence!DecodersComeBack'
    BY <2>3, <2>4, DecodersFollow
  <2>10. v2' \in Seq([by : Captures, of : Captures, page : Pages, image : Images]) /\ Evidence!CapturesAreWithinLimits'
    BY <2>2, <2>3, CaptureAppends, CapturesStay
  <2> QED
    BY <2>8, <2>9, <2>10 DEF Evidence!Domains
<1>15. CASE \E u \in Evidence!Uploads : Evidence!Remove(u)
  <2>1. PICK u \in Evidence!Uploads : Evidence!Remove(u)
    BY <1>15
  <2>2. v3[u] \in Evidence!Records /\ Evidence!Brings(u, v3[u]) /\ (u \notin v7 => Evidence!Follows(u, v3[u], v5, v6))
    BY DEF Evidence!Domains, Evidence!InputsFollow, Evidence!AttachmentsFollow
  <2>3. PICK stage \in {"refused"} :
            /\ v3' = [v3 EXCEPT ![u].at = stage]
            /\ v3[u].at = "removing"
            /\ v5' = v5 \ (Evidence!Files(u) \cap v6)
            /\ v6' = v6 \ (Evidence!Files(u) \cap v6)
            /\ v2' = v2 /\ v4' = v4 /\ v7' = v7
    BY <2>1 DEF Evidence!Remove, Evidence!At, Evidence!Fail
  <2> DEFINE r == [v3[u] EXCEPT !.at = stage]
  <2>4. /\ v3' = [v3 EXCEPT ![u] = r] /\ r \in Evidence!Records /\ r.at = stage
        /\ r.of = v3[u].of /\ r.page = v3[u].page /\ r.image = v3[u].image /\ r.file = v3[u].file
    BY <2>2, <2>3 DEF Evidence!Records, Evidence!Stages
  <2> HIDE DEF r
  <2>5. Evidence!Brings(u, r)
    BY <2>1, <2>2, <2>3, <2>4 DEF Evidence!Brings, Evidence!FilesOf, Evidence!Remove
  <2>6. /\ v7 \subseteq v7'
        /\ \A w \in Evidence!Uploads : w # u => \A n \in {1, 2} :
             (<<w, n>> \in v5' <=> <<w, n>> \in v5) /\ (<<w, n>> \in v6' <=> <<w, n>> \in v6)
    BY <2>3, FilesAre DEF Evidence!File
  <2>7. u \in v7' \/ Evidence!Follows(u, r, v5', v6')
    <3> SUFFICES ASSUME u \notin v7', NEW n \in Evidence!FilesOf(u)
                 PROVE  Evidence!FileFollows(u, n, r, v5', v6')
      BY DEF Evidence!Follows
    <3>1. Evidence!FileFollows(u, n, v3[u], v5, v6)
      BY <2>2, <2>6 DEF Evidence!Follows
    <3>2. (<<u, n>> \in v5' <=> <<u, n>> \in v5 /\ <<u, n>> \notin v6) /\ <<u, n>> \notin v6'
      <4>1. <<u, n>> \in Evidence!Files(u)
        BY DEF Evidence!Files
      <4> QED
        BY <2>3, <4>1
    <3>3. n \in Nat /\ v3[u].file \in Nat /\ n \in {1, 2}
      BY <2>2, FilesAre DEF Evidence!Records
    <3> QED
      BY <2>3, <2>4, <3>1, <3>2, <3>3 DEF Evidence!FileFollows
  <2>8. v3' \in [Evidence!Uploads -> Evidence!Records] /\ Evidence!InputsFollow' /\ Evidence!AttachmentsFollow'
    BY <2>4, <2>5, <2>6, <2>7, UploadMoves
  <2>9. v4' \in Nat /\ Evidence!DecodersComeBack'
    BY <2>3, <2>4, DecodersFollow
  <2>10. v2' \in Seq([by : Captures, of : Captures, page : Pages, image : Images]) /\ Evidence!CapturesAreWithinLimits'
    BY <2>3, CapturesStay
  <2> QED
    BY <2>8, <2>9, <2>10 DEF Evidence!Domains
<1>16. CASE \E u \in Evidence!Uploads : Evidence!FailRemove(u)
  <2>1. PICK u \in Evidence!Uploads : Evidence!FailRemove(u)
    BY <1>16
  <2>2. v3[u] \in Evidence!Records /\ Evidence!Brings(u, v3[u]) /\ (u \notin v7 => Evidence!Follows(u, v3[u], v5, v6))
    BY DEF Evidence!Domains, Evidence!InputsFollow, Evidence!AttachmentsFollow
  <2>3. PICK stage \in {"refused"} :
            /\ v3' = [v3 EXCEPT ![u].at = stage]
            /\ v3[u].at = "removing"
            /\ v5 \ Evidence!Files(u) \subseteq v5' /\ v5' \subseteq v5
            /\ v6 \ Evidence!Files(u) \subseteq v6' /\ v6' \subseteq v6
            /\ v7' = v7 \cup {u}
            /\ v2' = v2 /\ v4' = v4
    BY <2>1 DEF Evidence!FailRemove, Evidence!At, Evidence!Fail
  <2> DEFINE r == [v3[u] EXCEPT !.at = stage]
  <2>4. /\ v3' = [v3 EXCEPT ![u] = r] /\ r \in Evidence!Records /\ r.at = stage
        /\ r.of = v3[u].of /\ r.page = v3[u].page /\ r.image = v3[u].image /\ r.file = v3[u].file
    BY <2>2, <2>3 DEF Evidence!Records, Evidence!Stages
  <2> HIDE DEF r
  <2>5. Evidence!Brings(u, r)
    BY <2>1, <2>2, <2>3, <2>4 DEF Evidence!Brings, Evidence!FilesOf, Evidence!FailRemove
  <2>6. /\ v7 \subseteq v7'
        /\ \A w \in Evidence!Uploads : w # u => \A n \in {1, 2} :
             (<<w, n>> \in v5' <=> <<w, n>> \in v5) /\ (<<w, n>> \in v6' <=> <<w, n>> \in v6)
    BY <2>3, FilesAre DEF Evidence!File
  <2>7. u \in v7' \/ Evidence!Follows(u, r, v5', v6')
    <3> SUFFICES ASSUME u \notin v7', NEW n \in Evidence!FilesOf(u)
                 PROVE  Evidence!FileFollows(u, n, r, v5', v6')
      BY DEF Evidence!Follows
    <3>1. Evidence!FileFollows(u, n, v3[u], v5, v6)
      BY <2>2, <2>6 DEF Evidence!Follows
    <3>2. (<<u, n>> \in v5' <=> <<u, n>> \in v5) /\ (<<u, n>> \in v6' <=> <<u, n>> \in v6)
      BY <2>3
    <3>3. n \in Nat /\ v3[u].file \in Nat /\ n \in {1, 2}
      BY <2>2, FilesAre DEF Evidence!Records
    <3> QED
      BY <2>3, <2>4, <3>1, <3>2, <3>3 DEF Evidence!FileFollows
  <2>8. v3' \in [Evidence!Uploads -> Evidence!Records] /\ Evidence!InputsFollow' /\ Evidence!AttachmentsFollow'
    BY <2>4, <2>5, <2>6, <2>7, UploadMoves
  <2>9. v4' \in Nat /\ Evidence!DecodersComeBack'
    BY <2>3, <2>4, DecodersFollow
  <2>10. v2' \in Seq([by : Captures, of : Captures, page : Pages, image : Images]) /\ Evidence!CapturesAreWithinLimits'
    BY <2>3, CapturesStay
  <2> QED
    BY <2>8, <2>9, <2>10 DEF Evidence!Domains
<1>17. CASE UNCHANGED Evidence!comparisonVars
  <2>1. Evidence!Domains'
    BY <1>17 DEF Evidence!comparisonVars, Evidence!Domains, Evidence!Uploads
  <2>2. Evidence!InputsFollow'
    BY <1>17 DEF Evidence!comparisonVars, Evidence!InputsFollow, Evidence!Brings, Evidence!FilesOf,
           Evidence!Uploads
  <2>3. Evidence!AttachmentsFollow'
    <3> SUFFICES ASSUME NEW w \in Evidence!Uploads, w \notin v7'
                 PROVE  Evidence!Follows(w, v3'[w], v5', v6')
      BY DEF Evidence!AttachmentsFollow, Evidence!Uploads, Evidence!Follows, Evidence!FilesOf, Evidence!FileFollows
    <3> QED
      BY <1>17 DEF Evidence!comparisonVars, Evidence!AttachmentsFollow
  <2>4. Evidence!CapturesAreWithinLimits'
    BY <1>17 DEF Evidence!comparisonVars, Evidence!CapturesAreWithinLimits, Evidence!Befores
  <2>5. Evidence!DecodersComeBack'
    BY <1>17 DEF Evidence!comparisonVars, Evidence!DecodersComeBack, Evidence!Uploads
  <2> QED
    BY <2>1, <2>2, <2>3, <2>4, <2>5
<1> QED
  BY <1>1, <1>2, <1>3, <1>4, <1>5, <1>6, <1>7, <1>8, <1>9, <1>10, <1>11, <1>12, <1>13, <1>14, <1>15, <1>16,
     <1>17 DEF Evidence!Next

\* The captures keep their limits and fit one another, decoders come back, and files and rows
\* stand or fall with what refers to them, for any number of uploads and failures.
THEOREM UploadsAreWhole ==
  ASSUME IsFiniteSet(Captures \cup Prompts), Captures \cap Prompts = {}, None \notin Images,
         MaxComparisons \in Nat, MaxCaptures \in Nat
  PROVE  PartsSpec => []UploadsAreAllOrNothing
<1>1. PartsInit /\ part = "comparisons" => Evidence!Init
  BY DEF PartsInit
<1>2. [PartsNext]_all /\ part = "comparisons" => [Evidence!Next]_(Evidence!comparisonVars)
  BY DEF PartsNext, all, Evidence!comparisonVars
<1>3. [PartsNext]_all => (part = "comparisons" <=> (part = "comparisons")')
  BY PartStays
<1>4. EvidenceInv => Evidence!CapturesAreWithinLimits /\ Evidence!DecodersComeBack /\ Evidence!AttachmentsAreWhole
  BY DEF EvidenceInv, Evidence!AttachmentsFollow, Evidence!AttachmentsAreWhole, Evidence!Follows,
         Evidence!FileFollows, Evidence!Files
<1>5. (part = "comparisons" => EvidenceInv) => UploadsAreAllOrNothing
  BY <1>4 DEF UploadsAreAllOrNothing
<1> QED
  BY <1>1, <1>2, <1>3, <1>5, EvidenceInit, EvidenceStep, PTL DEF PartsSpec
-----------------------------------------------------------------------------
(***************************************************************************)
(* Signing in.                                                             *)
(***************************************************************************)
EntryInv == Entry!Domains /\ Entry!TokensAreOwn /\ Entry!PagesAreRemembered /\ Entry!ReadsStand

TokenTypes ==
  /\ v4 \in Nat /\ v3 \in [Entry!Cookies -> {None} \cup Nat] /\ v5 \in [Entry!Cookies -> Nat]
AccountTypes ==
  /\ v2 \in [Tabs -> {None} \cup Pages]
  /\ v8 \in [Entry!Kinds -> {None, "unnamed", "named"}] /\ v9 \in [Entry!Kinds -> Seq(BOOLEAN)]

Authenticating == {"update", "email", "create", "link"}

\* A tab that has read nothing of the account, or nothing of what was written.
Spared(s) == s.at \notin Authenticating \/ (v8'[s.kind] = v8[s.kind] /\ v9'[s.kind] = v9[s.kind])

\* A tab that is on its way no more leaves the tokens to the others.
LEMMA TokensStay ==
  ASSUME EntryInv, NEW t \in Tabs, NEW r \in Entry!TabStates, v1' = [v1 EXCEPT ![t] = r],
         v3' = v3, v4' = v4, v5' = v5, v6' = v6,
         r.token = v1[t].token \/ r.token = 0, r.at \notin {"authorizing", "installing", "refused"}
  PROVE  Entry!TokensAreOwn' /\ TokenTypes'
<1>1. v1 \in [Tabs -> Entry!TabStates] /\ TokenTypes
  BY DEF EntryInv, Entry!Domains, TokenTypes
<1>2. v1'[t] = r /\ \A o \in Tabs : o # t => v1'[o] = v1[o]
  BY <1>1
<1>3. r.token <= v4
  BY <1>1 DEF EntryInv, Entry!TokensAreOwn, TokenTypes
<1> QED
  BY <1>1, <1>2, <1>3 DEF EntryInv, Entry!TokensAreOwn, Entry!Away, Entry!Holds, Entry!LastTabIsLetIn, TokenTypes

\* A callback leaves the cookies of the other tabs alone.
LEMMA TokenComesBack ==
  ASSUME EntryInv, NEW t \in Tabs, NEW r \in Entry!TabStates, v1' = [v1 EXCEPT ![t] = r],
         v1[t].at \in {"authorizing", "installing"}, r.at \in {"identifying", "refused"},
         r.cookie = v1[t].cookie, r.token = v1[t].token,
         r.at = "refused" => v3[v1[t].cookie] # v1[t].token \/ v1[t].token \in v6,
         v3' = v3 \/ (v3[v1[t].cookie] = v1[t].token /\ v3' = [v3 EXCEPT ![v1[t].cookie] = None]),
         v4' = v4, v5' = v5, v6' = v6
  PROVE  Entry!TokensAreOwn' /\ TokenTypes'
<1>1. v1 \in [Tabs -> Entry!TabStates] /\ TokenTypes
  BY DEF EntryInv, Entry!Domains, TokenTypes
<1>2. v1'[t] = r /\ \A o \in Tabs : o # t => v1'[o] = v1[o]
  BY <1>1
<1>3. TokenTypes'
  BY <1>1 DEF TokenTypes
<1>4. ASSUME NEW o \in Tabs
      PROVE  /\ v1'[o].token <= v4'
             /\ Entry!Away(v1'[o]) \/ v1'[o].at = "refused" => v1'[o].cookie \in Entry!Cookies
             /\ v1'[o].at = "installing" => v1'[o].cookie = "installation"
             /\ Entry!Holds(v1'[o], v3', v5', v6')
             /\ v1'[o].at = "refused" => v1'[o].token \in v6' \/ v1'[o].token # v5'[v1'[o].cookie]
  <2>1. CASE o = t
    BY <1>2, <2>1 DEF EntryInv, Entry!TokensAreOwn, Entry!Away, Entry!Holds
  <2>2. CASE o # t
    <3>1. v1'[o] = v1[o] /\ (Entry!Away(v1[o]) => v1[o].token # v1[t].token)
      BY <1>2, <2>2 DEF EntryInv, Entry!TokensAreOwn, Entry!Away
    <3>2. Entry!Holds(v1[o], v3', v5', v6')
      BY <1>1, <3>1 DEF EntryInv, Entry!TokensAreOwn, Entry!Away, Entry!Holds, TokenTypes
    <3> QED
      BY <3>1, <3>2 DEF EntryInv, Entry!TokensAreOwn, Entry!LastTabIsLetIn
  <2> QED
    BY <2>1, <2>2
<1>5. ASSUME NEW o \in Tabs, NEW p \in Tabs, Entry!Away(v1'[o]), Entry!Away(v1'[p]), o # p
      PROVE  v1'[o].token # v1'[p].token
  BY <1>2, <1>5 DEF EntryInv, Entry!TokensAreOwn, Entry!Away
<1> QED
  BY <1>3, <1>4, <1>5 DEF Entry!TokensAreOwn, Entry!Away, Entry!Holds, Entry!LastTabIsLetIn

\* A token that is issued is newer than every other.
LEMMA TokenIsIssued ==
  ASSUME EntryInv, NEW t \in Tabs, NEW r \in Entry!TabStates, v1' = [v1 EXCEPT ![t] = r],
         NEW c \in Entry!Cookies, r.at \in {"authorizing", "installing"}, r.cookie = c, r.token = v4 + 1,
         r.at = "installing" => c = "installation",
         v4' = v4 + 1, v5' = [v5 EXCEPT ![c] = v4 + 1], v6' = v6,
         \/ v3' = [v3 EXCEPT ![c] = v4 + 1]
         \/ /\ v1[t].at = "installing" /\ v3[v1[t].cookie] = v1[t].token
            /\ v3' = [v3 EXCEPT !["installation"] = None, ![c] = v4 + 1]
  PROVE  Entry!TokensAreOwn' /\ TokenTypes'
<1>1. v1 \in [Tabs -> Entry!TabStates] /\ TokenTypes
  BY DEF EntryInv, Entry!Domains, TokenTypes
<1>2. v1'[t] = r /\ \A o \in Tabs : o # t => v1'[o] = v1[o]
  BY <1>1
<1>3. TokenTypes'
  BY <1>1 DEF TokenTypes, Entry!Cookies
<1>4. v3'[c] = v4 + 1 /\ v5'[c] = v4 + 1
  BY <1>1 DEF TokenTypes, Entry!Cookies
<1>5. ASSUME NEW o \in Tabs, o # t
      PROVE  /\ v1'[o] = v1[o] /\ v1[o].token \in Nat /\ v1[o].token <= v4
             /\ Entry!Away(v1[o]) \/ v1[o].at = "refused" => v1[o].cookie \in Entry!Cookies
             /\ v1[o].at = "installing" => v1[o].cookie = "installation"
             /\ Entry!Holds(v1[o], v3, v5, v6)
             /\ v1[o].at = "refused" => v1[o].token \in v6 \/ v1[o].token # v5[v1[o].cookie]
             /\ Entry!Away(v1[o]) /\ v1[t].at = "installing" => v1[o].token # v1[t].token
  BY <1>1, <1>2, <1>5 DEF EntryInv, Entry!TokensAreOwn, Entry!LastTabIsLetIn, Entry!Away, Entry!TabStates
<1>6. ASSUME NEW o \in Tabs
      PROVE  /\ v1'[o].token <= v4'
             /\ Entry!Away(v1'[o]) \/ v1'[o].at = "refused" => v1'[o].cookie \in Entry!Cookies
             /\ v1'[o].at = "installing" => v1'[o].cookie = "installation"
             /\ Entry!Holds(v1'[o], v3', v5', v6')
             /\ v1'[o].at = "refused" => v1'[o].token \in v6' \/ v1'[o].token # v5'[v1'[o].cookie]
  <2>1. CASE o = t
    BY <1>1, <1>2, <1>4, <2>1 DEF Entry!Holds, TokenTypes
  <2>2. CASE o # t
    <3>1. CASE v1[o].cookie = c
      BY <1>1, <1>4, <1>5, <2>2, <3>1 DEF Entry!Holds, TokenTypes
    <3>2. CASE v1[o].cookie # c
      <4>1. Entry!Away(v1[o]) \/ v1[o].at = "refused" => v5'[v1[o].cookie] = v5[v1[o].cookie]
        BY <1>1, <1>5, <2>2, <3>2 DEF TokenTypes
      <4>2. CASE v3' = [v3 EXCEPT ![c] = v4 + 1]
        BY <1>1, <1>5, <2>2, <3>2, <4>1, <4>2 DEF Entry!Holds, TokenTypes
      <4>3. CASE /\ v1[t].at = "installing" /\ v3[v1[t].cookie] = v1[t].token
                 /\ v3' = [v3 EXCEPT !["installation"] = None, ![c] = v4 + 1]
        <5>1. v3["installation"] = v1[t].token
          BY <4>3 DEF EntryInv, Entry!TokensAreOwn
        <5>2. CASE v1[o].cookie = "installation"
          BY <1>1, <1>5, <2>2, <3>2, <4>1, <4>3, <5>1, <5>2 DEF Entry!Holds, TokenTypes
        <5>3. CASE v1[o].cookie # "installation"
          BY <1>1, <1>5, <2>2, <3>2, <4>1, <4>3, <5>3 DEF Entry!Holds, TokenTypes
        <5> QED
          BY <5>2, <5>3
      <4> QED
        BY <4>2, <4>3
    <3> QED
      BY <3>1, <3>2
  <2> QED
    BY <2>1, <2>2
<1>7. ASSUME NEW o \in Tabs, NEW p \in Tabs, Entry!Away(v1'[o]), Entry!Away(v1'[p]), o # p
      PROVE  v1'[o].token # v1'[p].token
  <2>1. CASE o # t /\ p # t
    BY <1>2, <1>7, <2>1 DEF EntryInv, Entry!TokensAreOwn
  <2>2. CASE o = t \/ p = t
    BY <1>1, <1>2, <1>5, <1>7, <2>2 DEF TokenTypes
  <2> QED
    BY <2>1, <2>2
<1> QED
  BY <1>3, <1>6, <1>7 DEF Entry!TokensAreOwn, Entry!Away, Entry!Holds, Entry!LastTabIsLetIn

\* What the other tabs have read stands as long as the account does, or what they read of it.
LEMMA ReadsAreSpared ==
  ASSUME EntryInv, NEW t \in Tabs, NEW r \in Entry!TabStates,
         v1'[t] = r, \A o \in Tabs : o # t => v1'[o] = v1[o],
         t \in v10' \/ Entry!Stands(r, v8', v9'),
         \A o \in Tabs : o # t /\ o \notin v10' => o \notin v10 /\ Spared(v1[o])
  PROVE  Entry!ReadsStand'
<1> SUFFICES ASSUME NEW o \in Tabs, o \notin v10'
             PROVE  Entry!Stands(v1'[o], v8', v9')
  BY DEF Entry!ReadsStand, Entry!Stands
<1>1. CASE o = t
  BY <1>1
<1>2. CASE o # t
  <2>1. Entry!Stands(v1[o], v8, v9) /\ Spared(v1[o]) /\ v1'[o] = v1[o]
    BY <1>2 DEF EntryInv, Entry!ReadsStand
  <2> QED
    BY <2>1 DEF Entry!Stands, Spared, Authenticating
<1> QED
  BY <1>1, <1>2

LEMMA ReadsStay ==
  ASSUME EntryInv, NEW t \in Tabs, NEW r \in Entry!TabStates,
         v1'[t] = r, \A o \in Tabs : o # t => v1'[o] = v1[o], v8' = v8, v9' = v9,
         t \in v10' \/ Entry!Stands(r, v8', v9'), \A o \in Tabs : o # t /\ o \notin v10' => o \notin v10
  PROVE  Entry!ReadsStand'
BY ReadsAreSpared DEF Spared

LEMMA EntryInit == Entry!Init => EntryInv
<1> SUFFICES ASSUME Entry!Init
             PROVE  EntryInv
  OBVIOUS
<1> USE DEF Entry!Init, Entry!Idle
<1>1. Entry!Domains
  BY DEF Entry!Domains, Entry!TabStates, Entry!Stages, Entry!Kinds, Entry!Cookies
<1>2. Entry!TokensAreOwn
  BY DEF Entry!TokensAreOwn, Entry!Away, Entry!Holds, Entry!LastTabIsLetIn
<1>3. Entry!PagesAreRemembered
  BY DEF Entry!PagesAreRemembered
<1>4. Entry!ReadsStand
  BY DEF Entry!ReadsStand, Entry!Stands
<1> QED
  BY <1>1, <1>2, <1>3, <1>4 DEF EntryInv

LEMMA EntryStep == EntryInv /\ [Entry!Next]_(Entry!signInVars) => EntryInv'
<1> SUFFICES ASSUME EntryInv, [Entry!Next]_(Entry!signInVars)
             PROVE  EntryInv'
  OBVIOUS
<1> USE DEF EntryInv
<1>1. CASE \E t \in Tabs : Entry!StartDeveloper(t)
  <2>1. PICK t \in Tabs : Entry!StartDeveloper(t)
    BY <1>1
  <2>2. /\ v1 \in [Tabs -> Entry!TabStates] /\ v1[t] \in Entry!TabStates /\ v4 \in Nat
        /\ v1[t].at \in Entry!Stages /\ v1[t].kind \in Entry!Kinds /\ AccountTypes
    BY DEF Entry!Domains, Entry!TabStates, AccountTypes
  <2>0. PICK n \in Nat : n = v4 + 1
    BY <2>2
  <2>3. PICK page \in Pages \cup {None} :
            /\ v1' = [v1 EXCEPT ![t] = [Entry!Idle EXCEPT !.at = "authorizing", !.page = page,
                                           !.cookie = "authorization", !.token = n]]
            /\ v4' = v4 + 1 /\ v5' = [v5 EXCEPT !["authorization"] = v4 + 1] /\ v3' = [v3 EXCEPT !["authorization"] = v4 + 1]
            /\ v6' = v6
            /\ v2' = [v2 EXCEPT ![t] = page]
            /\ v8' = v8 /\ v9' = v9
            /\ v10' = v10
    BY <2>1, <2>0 DEF Entry!StartDeveloper, Entry!At, Entry!Issue, Entry!Remember, Entry!Clear, Entry!Matches, Authenticating
  <2> DEFINE r == [Entry!Idle EXCEPT !.at = "authorizing", !.page = page,
                                           !.cookie = "authorization", !.token = n]
  <2>4. /\ v1' = [v1 EXCEPT ![t] = r]
        /\ r \in Entry!TabStates
        /\ r.at = "authorizing" /\ r.cookie = "authorization" /\ r.token = n /\ r.page = page
    BY <2>2, <2>3 DEF Entry!TabStates, Entry!Stages, Entry!Kinds, Entry!Cookies, Entry!Idle, Entry!Domains
  <2> HIDE DEF r
  <2>5. v1' \in [Tabs -> Entry!TabStates] /\ v1'[t] = r /\ \A o \in Tabs : o # t => v1'[o] = v1[o]
    BY <2>2, <2>3, <2>4
  <2>6. Entry!TokensAreOwn' /\ TokenTypes'
    BY <2>0, <2>3, <2>4, TokenIsIssued DEF Entry!Cookies
  <2>7. Entry!ReadsStand'
    <3>1. t \in v10' \/ Entry!Stands(r, v8', v9')
      BY <2>2, <2>3, <2>4 DEF Entry!ReadsStand, Entry!Stands
    <3>2. ASSUME NEW o \in Tabs, o # t, o \notin v10'
          PROVE  o \notin v10
      BY <2>2, <2>3, <3>2
    <3> QED
      BY <2>3, <2>5, <3>1, <3>2, ReadsStay
  <2>8. Entry!PagesAreRemembered'
    <3> SUFFICES ASSUME NEW o \in Tabs
                 PROVE  /\ v1'[o].at # "astray"
                        /\ v1'[o].at = "idle" => v1'[o].kind = "developer"
                        /\ v1'[o].at = "home" \/ v1'[o].kind = "pm" \/ v2'[o] = v1'[o].page
      BY DEF Entry!PagesAreRemembered
    <3>1. CASE o # t
      BY <2>3, <2>5, <3>1 DEF Entry!PagesAreRemembered, Entry!Domains
    <3>2. CASE o = t
      BY <2>3, <2>4, <2>5, <3>2 DEF Entry!PagesAreRemembered, Entry!Domains
    <3> QED
      BY <3>1, <3>2
  <2>9. AccountTypes'
    BY <2>2, <2>3 DEF AccountTypes
  <2> QED
    BY <2>5, <2>6, <2>7, <2>8, <2>9 DEF Entry!Domains, TokenTypes, AccountTypes
<1>2. CASE \E t \in Tabs : Entry!StartPm(t)
  <2>1. PICK t \in Tabs : Entry!StartPm(t)
    BY <1>2
  <2>2. /\ v1 \in [Tabs -> Entry!TabStates] /\ v1[t] \in Entry!TabStates /\ v4 \in Nat
        /\ v1[t].at \in Entry!Stages /\ v1[t].kind \in Entry!Kinds /\ AccountTypes
    BY DEF Entry!Domains, Entry!TabStates, AccountTypes
  <2>0. PICK n \in Nat : n = v4 + 1
    BY <2>2
  <2> DEFINE r == [Entry!Idle EXCEPT !.at = "authorizing", !.kind = "pm",
                                   !.cookie = "slack", !.token = n]
  <2>3. /\ v1' = [v1 EXCEPT ![t] = r]
        /\ v4' = v4 + 1 /\ v5' = [v5 EXCEPT !["slack"] = v4 + 1] /\ v3' = [v3 EXCEPT !["slack"] = v4 + 1]
        /\ v6' = v6
        /\ v2' = v2
        /\ v8' = v8 /\ v9' = v9
        /\ v10' = v10
    BY <2>1, <2>0 DEF Entry!StartPm, Entry!At, Entry!Issue, Entry!Overtake, Entry!Merged, Authenticating
  <2>4. /\ v1' = [v1 EXCEPT ![t] = r]
        /\ r \in Entry!TabStates
        /\ r.at = "authorizing" /\ r.cookie = "slack" /\ r.token = n /\ r.kind = "pm"
    BY <2>2, <2>3 DEF Entry!TabStates, Entry!Stages, Entry!Kinds, Entry!Cookies, Entry!Idle, Entry!Domains
  <2> HIDE DEF r
  <2>5. v1' \in [Tabs -> Entry!TabStates] /\ v1'[t] = r /\ \A o \in Tabs : o # t => v1'[o] = v1[o]
    BY <2>2, <2>3, <2>4
  <2>6. Entry!TokensAreOwn' /\ TokenTypes'
    BY <2>0, <2>3, <2>4, TokenIsIssued DEF Entry!Cookies
  <2>7. Entry!ReadsStand'
    <3>1. t \in v10' \/ Entry!Stands(r, v8', v9')
      BY <2>2, <2>3, <2>4 DEF Entry!ReadsStand, Entry!Stands
    <3>2. ASSUME NEW o \in Tabs, o # t, o \notin v10'
          PROVE  o \notin v10
      BY <2>2, <2>3, <3>2
    <3> QED
      BY <2>3, <2>5, <3>1, <3>2, ReadsStay
  <2>8. Entry!PagesAreRemembered'
    <3> SUFFICES ASSUME NEW o \in Tabs
                 PROVE  /\ v1'[o].at # "astray"
                        /\ v1'[o].at = "idle" => v1'[o].kind = "developer"
                        /\ v1'[o].at = "home" \/ v1'[o].kind = "pm" \/ v2'[o] = v1'[o].page
      BY DEF Entry!PagesAreRemembered
    <3>1. CASE o # t
      BY <2>3, <2>5, <3>1 DEF Entry!PagesAreRemembered, Entry!Domains
    <3>2. CASE o = t
      BY <2>3, <2>4, <2>5, <3>2 DEF Entry!PagesAreRemembered, Entry!Domains
    <3> QED
      BY <3>1, <3>2
  <2>9. AccountTypes'
    BY <2>2, <2>3 DEF AccountTypes
  <2> QED
    BY <2>5, <2>6, <2>7, <2>8, <2>9 DEF Entry!Domains, TokenTypes, AccountTypes
<1>3. CASE \E t \in Tabs : Entry!PostToken(t)
  <2>1. PICK t \in Tabs : Entry!PostToken(t)
    BY <1>3
  <2>2. /\ v1 \in [Tabs -> Entry!TabStates] /\ v1[t] \in Entry!TabStates /\ v4 \in Nat
        /\ v1[t].at \in Entry!Stages /\ v1[t].kind \in Entry!Kinds /\ AccountTypes
    BY DEF Entry!Domains, Entry!TabStates, AccountTypes
  <2>3. PICK k \in Entry!Kinds :
            /\ v1' = [v1 EXCEPT ![t] = [v1[t] EXCEPT !.at = "lookup", !.kind = k]]
            /\ v1[t].at = "idle"
            /\ v3' = v3 /\ v4' = v4 /\ v5' = v5 /\ v6' = v6
            /\ v2' = v2
            /\ v8' = v8 /\ v9' = v9
            /\ v10' = v10 \ {t}
    BY <2>1 DEF Entry!PostToken, Entry!At, Entry!Issue, Entry!Remember, Entry!Clear, Entry!Matches, Authenticating
  <2> DEFINE r == [v1[t] EXCEPT !.at = "lookup", !.kind = k]
  <2>4. /\ v1' = [v1 EXCEPT ![t] = r]
        /\ r \in Entry!TabStates
        /\ r.at = "lookup" /\ r.page = v1[t].page /\ r.token = v1[t].token
    BY <2>2, <2>3 DEF Entry!TabStates, Entry!Stages, Entry!Kinds, Entry!Cookies, Entry!Idle, Entry!Domains
  <2> HIDE DEF r
  <2>5. v1' \in [Tabs -> Entry!TabStates] /\ v1'[t] = r /\ \A o \in Tabs : o # t => v1'[o] = v1[o]
    BY <2>2, <2>3, <2>4
  <2>6. Entry!TokensAreOwn' /\ TokenTypes'
    BY <2>3, <2>4, TokensStay
  <2>7. Entry!ReadsStand'
    <3>1. t \in v10' \/ Entry!Stands(r, v8', v9')
      BY <2>2, <2>3, <2>4 DEF Entry!ReadsStand, Entry!Stands
    <3>2. ASSUME NEW o \in Tabs, o # t, o \notin v10'
          PROVE  o \notin v10
      BY <2>2, <2>3, <3>2
    <3> QED
      BY <2>3, <2>5, <3>1, <3>2, ReadsStay
  <2>8. Entry!PagesAreRemembered'
    <3> SUFFICES ASSUME NEW o \in Tabs
                 PROVE  /\ v1'[o].at # "astray"
                        /\ v1'[o].at = "idle" => v1'[o].kind = "developer"
                        /\ v1'[o].at = "home" \/ v1'[o].kind = "pm" \/ v2'[o] = v1'[o].page
      BY DEF Entry!PagesAreRemembered
    <3>1. CASE o # t
      BY <2>3, <2>5, <3>1 DEF Entry!PagesAreRemembered, Entry!Domains
    <3>2. CASE o = t
      BY <2>3, <2>4, <2>5, <3>2 DEF Entry!PagesAreRemembered, Entry!Domains
    <3> QED
      BY <3>1, <3>2
  <2>9. AccountTypes'
    BY <2>2, <2>3 DEF AccountTypes
  <2> QED
    BY <2>5, <2>6, <2>7, <2>8, <2>9 DEF Entry!Domains, TokenTypes, AccountTypes
<1>4. CASE \E t \in Tabs : Entry!Arrive(t)
  <2>1. PICK t \in Tabs : Entry!Arrive(t)
    BY <1>4
  <2>2. /\ v1 \in [Tabs -> Entry!TabStates] /\ v1[t] \in Entry!TabStates /\ v4 \in Nat
        /\ v1[t].at \in Entry!Stages /\ v1[t].kind \in Entry!Kinds /\ AccountTypes
    BY DEF Entry!Domains, Entry!TabStates, AccountTypes
  <2> DEFINE r == [Entry!Idle EXCEPT !.at = IF v2[t] = v1[t].page \/ v1[t].kind = "pm" THEN "home" ELSE "astray"]
  <2>3. /\ v1' = [v1 EXCEPT ![t] = r]
        /\ v1[t].at = "signed"
        /\ v2' = [v2 EXCEPT ![t] = None]
        /\ v3' = v3 /\ v4' = v4 /\ v5' = v5 /\ v6' = v6
        /\ v8' = v8 /\ v9' = v9
        /\ v10' = v10
    BY <2>1 DEF Entry!Arrive, Entry!At, Entry!Issue, Entry!Overtake, Entry!Merged, Authenticating
  <2>4. /\ v1' = [v1 EXCEPT ![t] = r]
        /\ r \in Entry!TabStates
        /\ r.at = "home" /\ r.token = 0
    BY <2>2, <2>3 DEF Entry!TabStates, Entry!Stages, Entry!Kinds, Entry!Cookies, Entry!Idle, Entry!Domains, Entry!PagesAreRemembered
  <2> HIDE DEF r
  <2>5. v1' \in [Tabs -> Entry!TabStates] /\ v1'[t] = r /\ \A o \in Tabs : o # t => v1'[o] = v1[o]
    BY <2>2, <2>3, <2>4
  <2>6. Entry!TokensAreOwn' /\ TokenTypes'
    BY <2>3, <2>4, TokensStay
  <2>7. Entry!ReadsStand'
    <3>1. t \in v10' \/ Entry!Stands(r, v8', v9')
      BY <2>2, <2>3, <2>4 DEF Entry!ReadsStand, Entry!Stands
    <3>2. ASSUME NEW o \in Tabs, o # t, o \notin v10'
          PROVE  o \notin v10
      BY <2>2, <2>3, <3>2
    <3> QED
      BY <2>3, <2>5, <3>1, <3>2, ReadsStay
  <2>8. Entry!PagesAreRemembered'
    <3> SUFFICES ASSUME NEW o \in Tabs
                 PROVE  /\ v1'[o].at # "astray"
                        /\ v1'[o].at = "idle" => v1'[o].kind = "developer"
                        /\ v1'[o].at = "home" \/ v1'[o].kind = "pm" \/ v2'[o] = v1'[o].page
      BY DEF Entry!PagesAreRemembered
    <3>1. CASE o # t
      BY <2>3, <2>5, <3>1 DEF Entry!PagesAreRemembered, Entry!Domains
    <3>2. CASE o = t
      BY <2>3, <2>4, <2>5, <3>2 DEF Entry!PagesAreRemembered, Entry!Domains
    <3> QED
      BY <3>1, <3>2
  <2>9. AccountTypes'
    BY <2>2, <2>3 DEF AccountTypes
  <2> QED
    BY <2>5, <2>6, <2>7, <2>8, <2>9 DEF Entry!Domains, TokenTypes, AccountTypes
<1>5. CASE \E t \in Tabs : Entry!Callback(t)
  <2>1. PICK t \in Tabs : Entry!Callback(t)
    BY <1>5
  <2>2. /\ v1 \in [Tabs -> Entry!TabStates] /\ v1[t] \in Entry!TabStates /\ v4 \in Nat
        /\ v1[t].at \in Entry!Stages /\ v1[t].kind \in Entry!Kinds /\ AccountTypes
    BY DEF Entry!Domains, Entry!TabStates, AccountTypes
  <2>3. PICK stage \in {"identifying", "refused"} :
            /\ v1' = [v1 EXCEPT ![t] = [v1[t] EXCEPT !.at = stage]]
            /\ v1[t].at = "authorizing"
            /\ stage = "refused" => v3[v1[t].cookie] # v1[t].token \/ v1[t].token \in v6
            /\ v3' = v3 \/ (v3[v1[t].cookie] = v1[t].token /\ v3' = [v3 EXCEPT ![v1[t].cookie] = None])
            /\ v4' = v4 /\ v5' = v5 /\ v6' = v6
            /\ v2' = v2
            /\ v8' = v8 /\ v9' = v9
            /\ v10' = v10
    BY <2>1 DEF Entry!Callback, Entry!At, Entry!Issue, Entry!Remember, Entry!Clear, Entry!Matches, Authenticating
  <2> DEFINE r == [v1[t] EXCEPT !.at = stage]
  <2>4. /\ v1' = [v1 EXCEPT ![t] = r]
        /\ r \in Entry!TabStates
        /\ r.at = stage
        /\ r.kind = v1[t].kind /\ r.page = v1[t].page /\ r.cookie = v1[t].cookie /\ r.token = v1[t].token
    BY <2>2, <2>3 DEF Entry!TabStates, Entry!Stages, Entry!Kinds, Entry!Cookies, Entry!Idle, Entry!Domains
  <2> HIDE DEF r
  <2>5. v1' \in [Tabs -> Entry!TabStates] /\ v1'[t] = r /\ \A o \in Tabs : o # t => v1'[o] = v1[o]
    BY <2>2, <2>3, <2>4
  <2>6. Entry!TokensAreOwn' /\ TokenTypes'
    BY <2>2, <2>3, <2>4, TokenComesBack
  <2>7. Entry!ReadsStand'
    <3>1. t \in v10' \/ Entry!Stands(r, v8', v9')
      BY <2>2, <2>3, <2>4 DEF Entry!ReadsStand, Entry!Stands
    <3>2. ASSUME NEW o \in Tabs, o # t, o \notin v10'
          PROVE  o \notin v10
      BY <2>2, <2>3, <3>2
    <3> QED
      BY <2>3, <2>5, <3>1, <3>2, ReadsStay
  <2>8. Entry!PagesAreRemembered'
    <3> SUFFICES ASSUME NEW o \in Tabs
                 PROVE  /\ v1'[o].at # "astray"
                        /\ v1'[o].at = "idle" => v1'[o].kind = "developer"
                        /\ v1'[o].at = "home" \/ v1'[o].kind = "pm" \/ v2'[o] = v1'[o].page
      BY DEF Entry!PagesAreRemembered
    <3>1. CASE o # t
      BY <2>3, <2>5, <3>1 DEF Entry!PagesAreRemembered, Entry!Domains
    <3>2. CASE o = t
      BY <2>3, <2>4, <2>5, <3>2 DEF Entry!PagesAreRemembered, Entry!Domains
    <3> QED
      BY <3>1, <3>2
  <2>9. AccountTypes'
    BY <2>2, <2>3 DEF AccountTypes
  <2> QED
    BY <2>5, <2>6, <2>7, <2>8, <2>9 DEF Entry!Domains, TokenTypes, AccountTypes
<1>6. CASE \E t \in Tabs : Entry!IdentifyDeveloper(t)
  <2>1. PICK t \in Tabs : Entry!IdentifyDeveloper(t)
    BY <1>6
  <2>2. /\ v1 \in [Tabs -> Entry!TabStates] /\ v1[t] \in Entry!TabStates /\ v4 \in Nat
        /\ v1[t].at \in Entry!Stages /\ v1[t].kind \in Entry!Kinds /\ AccountTypes
    BY DEF Entry!Domains, Entry!TabStates, AccountTypes
  <2>3. PICK stage \in {"lookup", "failed", "install"} :
            /\ v1' = [v1 EXCEPT ![t] = [v1[t] EXCEPT !.listed = TRUE, !.at = stage]]
            /\ v1[t].at = "identifying"
            /\ v3' = v3 /\ v4' = v4 /\ v5' = v5 /\ v6' = v6
            /\ v2' = v2
            /\ v8' = v8 /\ v9' = v9
            /\ v10' = v10 \ {t}
    BY <2>1 DEF Entry!IdentifyDeveloper, Entry!At, Entry!Issue, Entry!Remember, Entry!Clear, Entry!Matches, Authenticating
  <2> DEFINE r == [v1[t] EXCEPT !.listed = TRUE, !.at = stage]
  <2>4. /\ v1' = [v1 EXCEPT ![t] = r]
        /\ r \in Entry!TabStates
        /\ r.at = stage
        /\ r.kind = v1[t].kind /\ r.page = v1[t].page /\ r.cookie = v1[t].cookie /\ r.token = v1[t].token
    BY <2>2, <2>3 DEF Entry!TabStates, Entry!Stages, Entry!Kinds, Entry!Cookies, Entry!Idle, Entry!Domains
  <2> HIDE DEF r
  <2>5. v1' \in [Tabs -> Entry!TabStates] /\ v1'[t] = r /\ \A o \in Tabs : o # t => v1'[o] = v1[o]
    BY <2>2, <2>3, <2>4
  <2>6. Entry!TokensAreOwn' /\ TokenTypes'
    BY <2>3, <2>4, TokensStay
  <2>7. Entry!ReadsStand'
    <3>1. t \in v10' \/ Entry!Stands(r, v8', v9')
      BY <2>2, <2>3, <2>4 DEF Entry!ReadsStand, Entry!Stands
    <3>2. ASSUME NEW o \in Tabs, o # t, o \notin v10'
          PROVE  o \notin v10
      BY <2>2, <2>3, <3>2
    <3> QED
      BY <2>3, <2>5, <3>1, <3>2, ReadsStay
  <2>8. Entry!PagesAreRemembered'
    <3> SUFFICES ASSUME NEW o \in Tabs
                 PROVE  /\ v1'[o].at # "astray"
                        /\ v1'[o].at = "idle" => v1'[o].kind = "developer"
                        /\ v1'[o].at = "home" \/ v1'[o].kind = "pm" \/ v2'[o] = v1'[o].page
      BY DEF Entry!PagesAreRemembered
    <3>1. CASE o # t
      BY <2>3, <2>5, <3>1 DEF Entry!PagesAreRemembered, Entry!Domains
    <3>2. CASE o = t
      BY <2>3, <2>4, <2>5, <3>2 DEF Entry!PagesAreRemembered, Entry!Domains
    <3> QED
      BY <3>1, <3>2
  <2>9. AccountTypes'
    BY <2>2, <2>3 DEF AccountTypes
  <2> QED
    BY <2>5, <2>6, <2>7, <2>8, <2>9 DEF Entry!Domains, TokenTypes, AccountTypes
<1>7. CASE \E t \in Tabs : Entry!IdentifyPm(t)
  <2>1. PICK t \in Tabs : Entry!IdentifyPm(t)
    BY <1>7
  <2>2. /\ v1 \in [Tabs -> Entry!TabStates] /\ v1[t] \in Entry!TabStates /\ v4 \in Nat
        /\ v1[t].at \in Entry!Stages /\ v1[t].kind \in Entry!Kinds /\ AccountTypes
    BY DEF Entry!Domains, Entry!TabStates, AccountTypes
  <2>3. PICK stage \in {"lookup"} :
            /\ v1' = [v1 EXCEPT ![t] = [v1[t] EXCEPT !.at = stage]]
            /\ v1[t].at = "identifying"
            /\ v3' = v3 /\ v4' = v4 /\ v5' = v5 /\ v6' = v6
            /\ v2' = v2
            /\ v8' = v8 /\ v9' = v9
            /\ v10' = v10 \ {t}
    BY <2>1 DEF Entry!IdentifyPm, Entry!At, Entry!Issue, Entry!Remember, Entry!Clear, Entry!Matches, Authenticating
  <2> DEFINE r == [v1[t] EXCEPT !.at = stage]
  <2>4. /\ v1' = [v1 EXCEPT ![t] = r]
        /\ r \in Entry!TabStates
        /\ r.at = stage
        /\ r.kind = v1[t].kind /\ r.page = v1[t].page /\ r.cookie = v1[t].cookie /\ r.token = v1[t].token
    BY <2>2, <2>3 DEF Entry!TabStates, Entry!Stages, Entry!Kinds, Entry!Cookies, Entry!Idle, Entry!Domains
  <2> HIDE DEF r
  <2>5. v1' \in [Tabs -> Entry!TabStates] /\ v1'[t] = r /\ \A o \in Tabs : o # t => v1'[o] = v1[o]
    BY <2>2, <2>3, <2>4
  <2>6. Entry!TokensAreOwn' /\ TokenTypes'
    BY <2>3, <2>4, TokensStay
  <2>7. Entry!ReadsStand'
    <3>1. t \in v10' \/ Entry!Stands(r, v8', v9')
      BY <2>2, <2>3, <2>4 DEF Entry!ReadsStand, Entry!Stands
    <3>2. ASSUME NEW o \in Tabs, o # t, o \notin v10'
          PROVE  o \notin v10
      BY <2>2, <2>3, <3>2
    <3> QED
      BY <2>3, <2>5, <3>1, <3>2, ReadsStay
  <2>8. Entry!PagesAreRemembered'
    <3> SUFFICES ASSUME NEW o \in Tabs
                 PROVE  /\ v1'[o].at # "astray"
                        /\ v1'[o].at = "idle" => v1'[o].kind = "developer"
                        /\ v1'[o].at = "home" \/ v1'[o].kind = "pm" \/ v2'[o] = v1'[o].page
      BY DEF Entry!PagesAreRemembered
    <3>1. CASE o # t
      BY <2>3, <2>5, <3>1 DEF Entry!PagesAreRemembered, Entry!Domains
    <3>2. CASE o = t
      BY <2>3, <2>4, <2>5, <3>2 DEF Entry!PagesAreRemembered, Entry!Domains
    <3> QED
      BY <3>1, <3>2
  <2>9. AccountTypes'
    BY <2>2, <2>3 DEF AccountTypes
  <2> QED
    BY <2>5, <2>6, <2>7, <2>8, <2>9 DEF Entry!Domains, TokenTypes, AccountTypes
<1>8. CASE \E t \in Tabs : Entry!FailIdentify(t)
  <2>1. PICK t \in Tabs : Entry!FailIdentify(t)
    BY <1>8
  <2>2. /\ v1 \in [Tabs -> Entry!TabStates] /\ v1[t] \in Entry!TabStates /\ v4 \in Nat
        /\ v1[t].at \in Entry!Stages /\ v1[t].kind \in Entry!Kinds /\ AccountTypes
    BY DEF Entry!Domains, Entry!TabStates, AccountTypes
  <2>3. PICK stage \in {"failed"} :
            /\ v1' = [v1 EXCEPT ![t] = [v1[t] EXCEPT !.at = stage]]
            /\ v1[t].at = "identifying"
            /\ v3' = v3 /\ v4' = v4 /\ v5' = v5 /\ v6' = v6
            /\ v2' = v2
            /\ v8' = v8 /\ v9' = v9
            /\ v10' = v10
    BY <2>1 DEF Entry!FailIdentify, Entry!At, Entry!Issue, Entry!Remember, Entry!Clear, Entry!Matches, Authenticating
  <2> DEFINE r == [v1[t] EXCEPT !.at = stage]
  <2>4. /\ v1' = [v1 EXCEPT ![t] = r]
        /\ r \in Entry!TabStates
        /\ r.at = stage
        /\ r.kind = v1[t].kind /\ r.page = v1[t].page /\ r.cookie = v1[t].cookie /\ r.token = v1[t].token
    BY <2>2, <2>3 DEF Entry!TabStates, Entry!Stages, Entry!Kinds, Entry!Cookies, Entry!Idle, Entry!Domains
  <2> HIDE DEF r
  <2>5. v1' \in [Tabs -> Entry!TabStates] /\ v1'[t] = r /\ \A o \in Tabs : o # t => v1'[o] = v1[o]
    BY <2>2, <2>3, <2>4
  <2>6. Entry!TokensAreOwn' /\ TokenTypes'
    BY <2>3, <2>4, TokensStay
  <2>7. Entry!ReadsStand'
    <3>1. t \in v10' \/ Entry!Stands(r, v8', v9')
      BY <2>2, <2>3, <2>4 DEF Entry!ReadsStand, Entry!Stands
    <3>2. ASSUME NEW o \in Tabs, o # t, o \notin v10'
          PROVE  o \notin v10
      BY <2>2, <2>3, <3>2
    <3> QED
      BY <2>3, <2>5, <3>1, <3>2, ReadsStay
  <2>8. Entry!PagesAreRemembered'
    <3> SUFFICES ASSUME NEW o \in Tabs
                 PROVE  /\ v1'[o].at # "astray"
                        /\ v1'[o].at = "idle" => v1'[o].kind = "developer"
                        /\ v1'[o].at = "home" \/ v1'[o].kind = "pm" \/ v2'[o] = v1'[o].page
      BY DEF Entry!PagesAreRemembered
    <3>1. CASE o # t
      BY <2>3, <2>5, <3>1 DEF Entry!PagesAreRemembered, Entry!Domains
    <3>2. CASE o = t
      BY <2>3, <2>4, <2>5, <3>2 DEF Entry!PagesAreRemembered, Entry!Domains
    <3> QED
      BY <3>1, <3>2
  <2>9. AccountTypes'
    BY <2>2, <2>3 DEF AccountTypes
  <2> QED
    BY <2>5, <2>6, <2>7, <2>8, <2>9 DEF Entry!Domains, TokenTypes, AccountTypes
<1>9. CASE \E t \in Tabs : Entry!Install(t)
  <2>1. PICK t \in Tabs : Entry!Install(t)
    BY <1>9
  <2>2. /\ v1 \in [Tabs -> Entry!TabStates] /\ v1[t] \in Entry!TabStates /\ v4 \in Nat
        /\ v1[t].at \in Entry!Stages /\ v1[t].kind \in Entry!Kinds /\ AccountTypes
    BY DEF Entry!Domains, Entry!TabStates, AccountTypes
  <2>0. PICK n \in Nat : n = v4 + 1
    BY <2>2
  <2> DEFINE r == [v1[t] EXCEPT !.at = "installing", !.cookie = "installation", !.token = n]
  <2>3. /\ v1' = [v1 EXCEPT ![t] = r]
        /\ v1[t].at = "install"
        /\ v4' = v4 + 1 /\ v5' = [v5 EXCEPT !["installation"] = v4 + 1] /\ v3' = [v3 EXCEPT !["installation"] = v4 + 1]
        /\ v6' = v6
        /\ v2' = v2
        /\ v8' = v8 /\ v9' = v9
        /\ v10' = v10
    BY <2>1, <2>0 DEF Entry!Install, Entry!At, Entry!Issue, Entry!Overtake, Entry!Merged, Authenticating
  <2>4. /\ v1' = [v1 EXCEPT ![t] = r]
        /\ r \in Entry!TabStates
        /\ r.at = "installing" /\ r.cookie = "installation" /\ r.token = n
        /\ r.kind = v1[t].kind /\ r.page = v1[t].page
    BY <2>2, <2>3 DEF Entry!TabStates, Entry!Stages, Entry!Kinds, Entry!Cookies, Entry!Idle, Entry!Domains
  <2> HIDE DEF r
  <2>5. v1' \in [Tabs -> Entry!TabStates] /\ v1'[t] = r /\ \A o \in Tabs : o # t => v1'[o] = v1[o]
    BY <2>2, <2>3, <2>4
  <2>6. Entry!TokensAreOwn' /\ TokenTypes'
    BY <2>0, <2>3, <2>4, TokenIsIssued DEF Entry!Cookies
  <2>7. Entry!ReadsStand'
    <3>1. t \in v10' \/ Entry!Stands(r, v8', v9')
      BY <2>2, <2>3, <2>4 DEF Entry!ReadsStand, Entry!Stands
    <3>2. ASSUME NEW o \in Tabs, o # t, o \notin v10'
          PROVE  o \notin v10
      BY <2>2, <2>3, <3>2
    <3> QED
      BY <2>3, <2>5, <3>1, <3>2, ReadsStay
  <2>8. Entry!PagesAreRemembered'
    <3> SUFFICES ASSUME NEW o \in Tabs
                 PROVE  /\ v1'[o].at # "astray"
                        /\ v1'[o].at = "idle" => v1'[o].kind = "developer"
                        /\ v1'[o].at = "home" \/ v1'[o].kind = "pm" \/ v2'[o] = v1'[o].page
      BY DEF Entry!PagesAreRemembered
    <3>1. CASE o # t
      BY <2>3, <2>5, <3>1 DEF Entry!PagesAreRemembered, Entry!Domains
    <3>2. CASE o = t
      BY <2>3, <2>4, <2>5, <3>2 DEF Entry!PagesAreRemembered, Entry!Domains
    <3> QED
      BY <3>1, <3>2
  <2>9. AccountTypes'
    BY <2>2, <2>3 DEF AccountTypes
  <2> QED
    BY <2>5, <2>6, <2>7, <2>8, <2>9 DEF Entry!Domains, TokenTypes, AccountTypes
<1>10. CASE \E t \in Tabs : Entry!ContinueDeveloper(t)
  <2>1. PICK t \in Tabs : Entry!ContinueDeveloper(t)
    BY <1>10
  <2>2. /\ v1 \in [Tabs -> Entry!TabStates] /\ v1[t] \in Entry!TabStates /\ v4 \in Nat
        /\ v1[t].at \in Entry!Stages /\ v1[t].kind \in Entry!Kinds /\ AccountTypes
    BY DEF Entry!Domains, Entry!TabStates, AccountTypes
  <2>0. PICK n \in Nat : n = v4 + 1
    BY <2>2
  <2>3. PICK r \in Entry!TabStates :
            /\ v1' = [v1 EXCEPT ![t] = r] /\ r.kind = v1[t].kind /\ r.page = v1[t].page
            /\ v1[t].at = "installing" /\ v2' = v2 /\ v6' = v6 /\ v8' = v8 /\ v9' = v9 /\ v10' = v10
            /\ \/ /\ r.at = "authorizing" /\ r.cookie = "authorization" /\ r.token = v4 + 1
                  /\ v3[v1[t].cookie] = v1[t].token
                  /\ v3' = [v3 EXCEPT !["installation"] = None, !["authorization"] = v4 + 1]
                  /\ v4' = v4 + 1 /\ v5' = [v5 EXCEPT !["authorization"] = v4 + 1]
               \/ /\ r.at = "refused" /\ r.cookie = v1[t].cookie /\ r.token = v1[t].token
                  /\ v3[v1[t].cookie] # v1[t].token \/ v1[t].token \in v6
                  /\ v3' = v3 /\ v4' = v4 /\ v5' = v5
    <3> DEFINE a == [v1[t] EXCEPT !.at = "authorizing", !.via = TRUE, !.cookie = "authorization", !.token = n]
               b == [v1[t] EXCEPT !.at = "refused"]
    <3>1. /\ a \in Entry!TabStates /\ a.kind = v1[t].kind /\ a.page = v1[t].page
          /\ a.at = "authorizing" /\ a.cookie = "authorization" /\ a.token = n
          /\ b \in Entry!TabStates /\ b.kind = v1[t].kind /\ b.page = v1[t].page
          /\ b.at = "refused" /\ b.cookie = v1[t].cookie /\ b.token = v1[t].token
      BY <2>0, <2>2 DEF Entry!TabStates, Entry!Stages, Entry!Kinds, Entry!Cookies, Entry!Idle, Entry!Domains
    <3>2. CASE v3[v1[t].cookie] = v1[t].token /\ v1[t].token \notin v6
      <4>1. v1' = [v1 EXCEPT ![t] = a]
        BY <2>0, <2>1, <3>2 DEF Entry!ContinueDeveloper, Entry!Matches
      <4> HIDE DEF a, b
      <4> QED
        BY <2>0, <2>1, <3>1, <3>2, <4>1 DEF Entry!ContinueDeveloper, Entry!Matches, Entry!Issue
    <3>3. CASE v3[v1[t].cookie] # v1[t].token \/ v1[t].token \in v6
      <4>1. v1' = [v1 EXCEPT ![t] = b]
        BY <2>1, <3>3 DEF Entry!ContinueDeveloper, Entry!Matches, Entry!At
      <4> HIDE DEF a, b
      <4> QED
        BY <2>1, <3>1, <3>3, <4>1 DEF Entry!ContinueDeveloper, Entry!Matches
    <3> QED
      BY <3>2, <3>3
  <2>4. r \in Entry!TabStates /\ r.at \in {"authorizing", "refused"}
    BY <2>3
  <2>5. v1' \in [Tabs -> Entry!TabStates] /\ v1'[t] = r /\ \A o \in Tabs : o # t => v1'[o] = v1[o]
    BY <2>2, <2>3, <2>4
  <2>6. Entry!TokensAreOwn' /\ TokenTypes'
    <3>1. CASE r.at = "authorizing"
      BY <2>3, <3>1, TokenIsIssued DEF Entry!Cookies
    <3>2. CASE r.at = "refused"
      BY <2>3, <3>2, TokenComesBack
    <3> QED
      BY <2>4, <3>1, <3>2
  <2>7. Entry!ReadsStand'
    <3>1. t \in v10' \/ Entry!Stands(r, v8', v9')
      BY <2>2, <2>3, <2>4 DEF Entry!ReadsStand, Entry!Stands
    <3>2. ASSUME NEW o \in Tabs, o # t, o \notin v10'
          PROVE  o \notin v10
      BY <2>2, <2>3, <3>2
    <3> QED
      BY <2>3, <2>5, <3>1, <3>2, ReadsStay
  <2>8. Entry!PagesAreRemembered'
    <3> SUFFICES ASSUME NEW o \in Tabs
                 PROVE  /\ v1'[o].at # "astray"
                        /\ v1'[o].at = "idle" => v1'[o].kind = "developer"
                        /\ v1'[o].at = "home" \/ v1'[o].kind = "pm" \/ v2'[o] = v1'[o].page
      BY DEF Entry!PagesAreRemembered
    <3>1. CASE o # t
      BY <2>3, <2>5, <3>1 DEF Entry!PagesAreRemembered, Entry!Domains
    <3>2. CASE o = t
      BY <2>3, <2>4, <2>5, <3>2 DEF Entry!PagesAreRemembered, Entry!Domains
    <3> QED
      BY <3>1, <3>2
  <2>9. AccountTypes'
    BY <2>2, <2>3 DEF AccountTypes
  <2> QED
    BY <2>5, <2>6, <2>7, <2>8, <2>9 DEF Entry!Domains, TokenTypes, AccountTypes
<1>11. CASE \E t \in Tabs : Entry!FindIdentity(t)
  <2>1. PICK t \in Tabs : Entry!FindIdentity(t)
    BY <1>11
  <2>2. /\ v1 \in [Tabs -> Entry!TabStates] /\ v1[t] \in Entry!TabStates /\ v4 \in Nat
        /\ v1[t].at \in Entry!Stages /\ v1[t].kind \in Entry!Kinds /\ AccountTypes
    BY DEF Entry!Domains, Entry!TabStates, AccountTypes
  <2>3. PICK r \in Entry!TabStates :
            /\ v1' = [v1 EXCEPT ![t] = r] /\ r.kind = v1[t].kind /\ r.page = v1[t].page /\ r.cookie = v1[t].cookie /\ r.token = v1[t].token
            /\ v1[t].at = "lookup" /\ v3' = v3 /\ v4' = v4 /\ v5' = v5 /\ v6' = v6
            /\ v2' = v2 /\ v8' = v8 /\ v9' = v9 /\ v10' = v10
            /\ \/ r.at = "email" /\ v9[r.kind] = <<>>
               \/ r.at = "update" /\ r.row \in DOMAIN v9[r.kind] /\ r.known = v9[r.kind][r.row]
    <3>1. CASE v9[v1[t].kind] = <<>>
      <4> DEFINE a == [v1[t] EXCEPT !.at = "email"]
      <4>1. /\ v1' = [v1 EXCEPT ![t] = a] /\ a \in Entry!TabStates /\ a.at = "email" /\ a.kind = v1[t].kind
            /\ a.page = v1[t].page /\ a.cookie = v1[t].cookie /\ a.token = v1[t].token
        BY <2>1, <2>2, <3>1 DEF Entry!FindIdentity, Entry!At, Entry!TabStates, Entry!Stages
      <4> HIDE DEF a
      <4> QED
        BY <2>1, <3>1, <4>1 DEF Entry!FindIdentity
    <3>2. CASE v9[v1[t].kind] # <<>>
      <4>1. PICK i \in DOMAIN v9[v1[t].kind] :
              v1' = [v1 EXCEPT ![t].at = "update", ![t].row = i, ![t].known = v9[v1[t].kind][i]]
        BY <2>1, <3>2 DEF Entry!FindIdentity
      <4> DEFINE found == v9[v1[t].kind][i]
                 a == [v1[t] EXCEPT !.at = "update", !.row = i, !.known = found]
      <4>2. found \in BOOLEAN /\ i \in Nat
        BY <2>2, <4>1 DEF AccountTypes
      <4>3. v1' = [v1 EXCEPT ![t] = a]
        BY <2>2, <4>1
      <4>4. /\ a \in Entry!TabStates /\ a.at = "update" /\ a.kind = v1[t].kind /\ a.row = i /\ a.known = found
            /\ a.page = v1[t].page /\ a.cookie = v1[t].cookie /\ a.token = v1[t].token
        <5> HIDE DEF found
        <5> QED
          BY <2>2, <4>2 DEF Entry!TabStates, Entry!Stages
      <4> HIDE DEF a
      <4> QED
        BY <2>1, <3>2, <4>1, <4>3, <4>4 DEF Entry!FindIdentity
    <3> QED
      BY <3>1, <3>2
  <2>4. r \in Entry!TabStates /\ r.at \in {"email", "update"}
    BY <2>3
  <2>5. v1' \in [Tabs -> Entry!TabStates] /\ v1'[t] = r /\ \A o \in Tabs : o # t => v1'[o] = v1[o]
    BY <2>2, <2>3, <2>4
  <2>6. Entry!TokensAreOwn' /\ TokenTypes'
    BY <2>3, <2>4, TokensStay
  <2>7. Entry!ReadsStand'
    <3>1. t \in v10' \/ Entry!Stands(r, v8', v9')
      BY <2>2, <2>3, <2>4 DEF Entry!ReadsStand, Entry!Stands
    <3>2. ASSUME NEW o \in Tabs, o # t, o \notin v10'
          PROVE  o \notin v10
      BY <2>2, <2>3, <3>2
    <3> QED
      BY <2>3, <2>5, <3>1, <3>2, ReadsStay
  <2>8. Entry!PagesAreRemembered'
    <3> SUFFICES ASSUME NEW o \in Tabs
                 PROVE  /\ v1'[o].at # "astray"
                        /\ v1'[o].at = "idle" => v1'[o].kind = "developer"
                        /\ v1'[o].at = "home" \/ v1'[o].kind = "pm" \/ v2'[o] = v1'[o].page
      BY DEF Entry!PagesAreRemembered
    <3>1. CASE o # t
      BY <2>3, <2>5, <3>1 DEF Entry!PagesAreRemembered, Entry!Domains
    <3>2. CASE o = t
      BY <2>3, <2>4, <2>5, <3>2 DEF Entry!PagesAreRemembered, Entry!Domains
    <3> QED
      BY <3>1, <3>2
  <2>9. AccountTypes'
    BY <2>2, <2>3 DEF AccountTypes
  <2> QED
    BY <2>5, <2>6, <2>7, <2>8, <2>9 DEF Entry!Domains, TokenTypes, AccountTypes
<1>12. CASE \E t \in Tabs : Entry!UpdateIdentity(t)
  <2>1. PICK t \in Tabs : Entry!UpdateIdentity(t)
    BY <1>12
  <2>2. /\ v1 \in [Tabs -> Entry!TabStates] /\ v1[t] \in Entry!TabStates /\ v4 \in Nat
        /\ v1[t].at \in Entry!Stages /\ v1[t].kind \in Entry!Kinds /\ AccountTypes
    BY DEF Entry!Domains, Entry!TabStates, AccountTypes
  <2> DEFINE r == [v1[t] EXCEPT !.at = "signed"]
  <2>3. /\ v1' = [v1 EXCEPT ![t] = r]
        /\ v1[t].at = "update"
        /\ v3' = v3 /\ v4' = v4 /\ v5' = v5 /\ v6' = v6
        /\ v2' = v2
        /\ v9' = [v9 EXCEPT ![v1[t].kind][v1[t].row] = v1[t].known \/ v1[t].listed]
        /\ v8' = [v8 EXCEPT ![v1[t].kind] = "named"]
        /\ v10' = v10 \cup {o \in Tabs \ {t} : v1[o].kind = v1[t].kind /\ v1[o].at \in Authenticating}
    BY <2>1 DEF Entry!UpdateIdentity, Entry!At, Entry!Issue, Entry!Overtake, Entry!Merged, Authenticating
  <2>4. /\ v1' = [v1 EXCEPT ![t] = r]
        /\ r \in Entry!TabStates
        /\ r.at = "signed"
        /\ r.kind = v1[t].kind /\ r.page = v1[t].page /\ r.cookie = v1[t].cookie /\ r.token = v1[t].token
    BY <2>2, <2>3 DEF Entry!TabStates, Entry!Stages, Entry!Kinds, Entry!Cookies, Entry!Idle, Entry!Domains
  <2> HIDE DEF r
  <2>5. v1' \in [Tabs -> Entry!TabStates] /\ v1'[t] = r /\ \A o \in Tabs : o # t => v1'[o] = v1[o]
    BY <2>2, <2>3, <2>4
  <2>6. Entry!TokensAreOwn' /\ TokenTypes'
    BY <2>3, <2>4, TokensStay
  <2>7. Entry!ReadsStand'
    <3>1. t \in v10' \/ Entry!Stands(r, v8', v9')
      BY <2>2, <2>3, <2>4 DEF Entry!ReadsStand, Entry!Stands
    <3>2. ASSUME NEW o \in Tabs, o # t, o \notin v10'
          PROVE  o \notin v10 /\ Spared(v1[o])
      BY <2>2, <2>3, <3>2 DEF Spared, Entry!Domains, Entry!TabStates
    <3> QED
      BY <2>5, <3>1, <3>2, ReadsAreSpared
  <2>8. Entry!PagesAreRemembered'
    <3> SUFFICES ASSUME NEW o \in Tabs
                 PROVE  /\ v1'[o].at # "astray"
                        /\ v1'[o].at = "idle" => v1'[o].kind = "developer"
                        /\ v1'[o].at = "home" \/ v1'[o].kind = "pm" \/ v2'[o] = v1'[o].page
      BY DEF Entry!PagesAreRemembered
    <3>1. CASE o # t
      BY <2>3, <2>5, <3>1 DEF Entry!PagesAreRemembered, Entry!Domains
    <3>2. CASE o = t
      BY <2>3, <2>4, <2>5, <3>2 DEF Entry!PagesAreRemembered, Entry!Domains
    <3> QED
      BY <3>1, <3>2
  <2>9. AccountTypes'
    <3> DEFINE k == v1[t].kind
               n == v1[t].row
               e == v1[t].known \/ v1[t].listed
    <3>1. e \in BOOLEAN
      BY ZenonT(10)
    <3>2. v9[k] \in Seq(BOOLEAN) /\ k \in Entry!Kinds
      BY <2>2 DEF AccountTypes
    <3>3. v9' = [v9 EXCEPT ![k][n] = e] /\ v8' = [v8 EXCEPT ![k] = "named"] /\ v2' = v2
      BY <2>3
    <3> HIDE DEF e, k, n
    <3>4. [v9[k] EXCEPT ![n] = e] \in Seq(BOOLEAN)
      <4>1. CASE n \in 1..Len(v9[k])
        BY <3>1, <3>2, <4>1, ExceptSeq
      <4>2. CASE n \notin 1..Len(v9[k])
        <5>1. [v9[k] EXCEPT ![n] = e] = v9[k]
          BY <3>2, <4>2
        <5> QED
          BY <3>2, <5>1
      <4> QED
        BY <4>1, <4>2
    <3> QED
      BY <2>2, <3>2, <3>3, <3>4 DEF AccountTypes
  <2> QED
    BY <2>5, <2>6, <2>7, <2>8, <2>9 DEF Entry!Domains, TokenTypes, AccountTypes
<1>13. CASE \E t \in Tabs : Entry!FindByEmail(t)
  <2>1. PICK t \in Tabs : Entry!FindByEmail(t)
    BY <1>13
  <2>2. /\ v1 \in [Tabs -> Entry!TabStates] /\ v1[t] \in Entry!TabStates /\ v4 \in Nat
        /\ v1[t].at \in Entry!Stages /\ v1[t].kind \in Entry!Kinds /\ AccountTypes
    BY DEF Entry!Domains, Entry!TabStates, AccountTypes
  <2>3. PICK stage \in {"link", "create"} :
            /\ v1' = [v1 EXCEPT ![t] = [v1[t] EXCEPT !.at = stage]]
            /\ v1[t].at = "email"
            /\ stage = "create" => v8[v1[t].kind] = None
            /\ v3' = v3 /\ v4' = v4 /\ v5' = v5 /\ v6' = v6
            /\ v2' = v2
            /\ v8' = v8 /\ v9' = v9
            /\ v10' = v10
    BY <2>1 DEF Entry!FindByEmail, Entry!At, Entry!Issue, Entry!Remember, Entry!Clear, Entry!Matches, Authenticating
  <2> DEFINE r == [v1[t] EXCEPT !.at = stage]
  <2>4. /\ v1' = [v1 EXCEPT ![t] = r]
        /\ r \in Entry!TabStates
        /\ r.at = stage
        /\ r.kind = v1[t].kind /\ r.page = v1[t].page /\ r.cookie = v1[t].cookie /\ r.token = v1[t].token
    BY <2>2, <2>3 DEF Entry!TabStates, Entry!Stages, Entry!Kinds, Entry!Cookies, Entry!Idle, Entry!Domains
  <2> HIDE DEF r
  <2>5. v1' \in [Tabs -> Entry!TabStates] /\ v1'[t] = r /\ \A o \in Tabs : o # t => v1'[o] = v1[o]
    BY <2>2, <2>3, <2>4
  <2>6. Entry!TokensAreOwn' /\ TokenTypes'
    BY <2>3, <2>4, TokensStay
  <2>7. Entry!ReadsStand'
    <3>1. t \in v10' \/ Entry!Stands(r, v8', v9')
      BY <2>2, <2>3, <2>4 DEF Entry!ReadsStand, Entry!Stands
    <3>2. ASSUME NEW o \in Tabs, o # t, o \notin v10'
          PROVE  o \notin v10
      BY <2>2, <2>3, <3>2
    <3> QED
      BY <2>3, <2>5, <3>1, <3>2, ReadsStay
  <2>8. Entry!PagesAreRemembered'
    <3> SUFFICES ASSUME NEW o \in Tabs
                 PROVE  /\ v1'[o].at # "astray"
                        /\ v1'[o].at = "idle" => v1'[o].kind = "developer"
                        /\ v1'[o].at = "home" \/ v1'[o].kind = "pm" \/ v2'[o] = v1'[o].page
      BY DEF Entry!PagesAreRemembered
    <3>1. CASE o # t
      BY <2>3, <2>5, <3>1 DEF Entry!PagesAreRemembered, Entry!Domains
    <3>2. CASE o = t
      BY <2>3, <2>4, <2>5, <3>2 DEF Entry!PagesAreRemembered, Entry!Domains
    <3> QED
      BY <3>1, <3>2
  <2>9. AccountTypes'
    BY <2>2, <2>3 DEF AccountTypes
  <2> QED
    BY <2>5, <2>6, <2>7, <2>8, <2>9 DEF Entry!Domains, TokenTypes, AccountTypes
<1>14. CASE \E t \in Tabs : Entry!CreateUser(t)
  <2>1. PICK t \in Tabs : Entry!CreateUser(t)
    BY <1>14
  <2>2. /\ v1 \in [Tabs -> Entry!TabStates] /\ v1[t] \in Entry!TabStates /\ v4 \in Nat
        /\ v1[t].at \in Entry!Stages /\ v1[t].kind \in Entry!Kinds /\ AccountTypes
    BY DEF Entry!Domains, Entry!TabStates, AccountTypes
  <2>3. PICK r \in Entry!TabStates :
            /\ v1' = [v1 EXCEPT ![t] = r] /\ r.kind = v1[t].kind /\ r.page = v1[t].page /\ r.cookie = v1[t].cookie /\ r.token = v1[t].token
            /\ v1[t].at = "create" /\ v3' = v3 /\ v4' = v4 /\ v5' = v5 /\ v6' = v6
            /\ v2' = v2 /\ v9' = v9
            /\ \/ /\ r.at = "link" /\ v8' = [v8 EXCEPT ![v1[t].kind] = "named"]
                  /\ v10' = v10 \cup {o \in Tabs \ {t} : v1[o].kind = v1[t].kind /\ v1[o].at \in Authenticating}
               \/ r.at = "broken" /\ v8[v1[t].kind] # None /\ v8' = v8 /\ v10' = v10
    <3> DEFINE a == [v1[t] EXCEPT !.at = IF v8[v1[t].kind] = None THEN "link" ELSE "broken"]
    <3>1. /\ v1' = [v1 EXCEPT ![t] = a] /\ a \in Entry!TabStates /\ a.kind = v1[t].kind
          /\ a.page = v1[t].page /\ a.cookie = v1[t].cookie /\ a.token = v1[t].token
          /\ a.at = IF v8[v1[t].kind] = None THEN "link" ELSE "broken"
      BY <2>1, <2>2 DEF Entry!CreateUser, Entry!At, Entry!TabStates, Entry!Stages
    <3> HIDE DEF a
    <3> QED
      BY <2>1, <3>1 DEF Entry!CreateUser, Entry!Overtake, Authenticating
  <2>4. r \in Entry!TabStates /\ r.at \in {"link", "broken"}
    BY <2>3
  <2>5. v1' \in [Tabs -> Entry!TabStates] /\ v1'[t] = r /\ \A o \in Tabs : o # t => v1'[o] = v1[o]
    BY <2>2, <2>3, <2>4
  <2>6. Entry!TokensAreOwn' /\ TokenTypes'
    BY <2>3, <2>4, TokensStay
  <2>7. Entry!ReadsStand'
    <3>1. t \in v10' \/ Entry!Stands(r, v8', v9')
      BY <2>2, <2>3, <2>4 DEF Entry!ReadsStand, Entry!Stands
    <3>2. ASSUME NEW o \in Tabs, o # t, o \notin v10'
          PROVE  o \notin v10 /\ Spared(v1[o])
      BY <2>2, <2>3, <3>2 DEF Spared, Entry!Domains, Entry!TabStates
    <3> QED
      BY <2>5, <3>1, <3>2, ReadsAreSpared
  <2>8. Entry!PagesAreRemembered'
    <3> SUFFICES ASSUME NEW o \in Tabs
                 PROVE  /\ v1'[o].at # "astray"
                        /\ v1'[o].at = "idle" => v1'[o].kind = "developer"
                        /\ v1'[o].at = "home" \/ v1'[o].kind = "pm" \/ v2'[o] = v1'[o].page
      BY DEF Entry!PagesAreRemembered
    <3>1. CASE o # t
      BY <2>3, <2>5, <3>1 DEF Entry!PagesAreRemembered, Entry!Domains
    <3>2. CASE o = t
      BY <2>3, <2>4, <2>5, <3>2 DEF Entry!PagesAreRemembered, Entry!Domains
    <3> QED
      BY <3>1, <3>2
  <2>9. AccountTypes'
    BY <2>2, <2>3 DEF AccountTypes
  <2> QED
    BY <2>5, <2>6, <2>7, <2>8, <2>9 DEF Entry!Domains, TokenTypes, AccountTypes
<1>15. CASE \E t \in Tabs : Entry!CreateIdentity(t)
  <2>1. PICK t \in Tabs : Entry!CreateIdentity(t)
    BY <1>15
  <2>2. /\ v1 \in [Tabs -> Entry!TabStates] /\ v1[t] \in Entry!TabStates /\ v4 \in Nat
        /\ v1[t].at \in Entry!Stages /\ v1[t].kind \in Entry!Kinds /\ AccountTypes
    BY DEF Entry!Domains, Entry!TabStates, AccountTypes
  <2>3. PICK r \in Entry!TabStates :
            /\ v1' = [v1 EXCEPT ![t] = r] /\ r.kind = v1[t].kind /\ r.page = v1[t].page /\ r.cookie = v1[t].cookie /\ r.token = v1[t].token
            /\ v1[t].at = "link" /\ v3' = v3 /\ v4' = v4 /\ v5' = v5 /\ v6' = v6 /\ v2' = v2
            /\ \/ /\ r.at = "signed" /\ v8' = [v8 EXCEPT ![v1[t].kind] = "named"]
                  /\ v9' = [v9 EXCEPT ![v1[t].kind] = Append(@, v1[t].listed)]
                  /\ v10' = v10 \cup {o \in Tabs \ {t} : v1[o].kind = v1[t].kind /\ v1[o].at \in Authenticating}
               \/ r.at = "broken" /\ v9[v1[t].kind] # <<>> /\ v8' = v8 /\ v9' = v9 /\ v10' = v10
    <3> DEFINE a == [v1[t] EXCEPT !.at = IF v1[t].kind = "pm" /\ v9["pm"] # <<>> THEN "broken" ELSE "signed"]
    <3>1. /\ v1' = [v1 EXCEPT ![t] = a] /\ a \in Entry!TabStates /\ a.kind = v1[t].kind
          /\ a.page = v1[t].page /\ a.cookie = v1[t].cookie /\ a.token = v1[t].token
          /\ a.at = IF v1[t].kind = "pm" /\ v9["pm"] # <<>> THEN "broken" ELSE "signed"
      BY <2>1, <2>2 DEF Entry!CreateIdentity, Entry!At, Entry!TabStates, Entry!Stages
    <3> HIDE DEF a
    <3> QED
      BY <2>1, <3>1 DEF Entry!CreateIdentity, Entry!Overtake, Authenticating
  <2>4. r \in Entry!TabStates /\ r.at \in {"signed", "broken"}
    BY <2>3
  <2>5. v1' \in [Tabs -> Entry!TabStates] /\ v1'[t] = r /\ \A o \in Tabs : o # t => v1'[o] = v1[o]
    BY <2>2, <2>3, <2>4
  <2>6. Entry!TokensAreOwn' /\ TokenTypes'
    BY <2>3, <2>4, TokensStay
  <2>7. Entry!ReadsStand'
    <3>1. t \in v10' \/ Entry!Stands(r, v8', v9')
      BY <2>2, <2>3, <2>4 DEF Entry!ReadsStand, Entry!Stands
    <3>2. ASSUME NEW o \in Tabs, o # t, o \notin v10'
          PROVE  o \notin v10 /\ Spared(v1[o])
      BY <2>2, <2>3, <3>2 DEF Spared, Entry!Domains, Entry!TabStates
    <3> QED
      BY <2>5, <3>1, <3>2, ReadsAreSpared
  <2>8. Entry!PagesAreRemembered'
    <3> SUFFICES ASSUME NEW o \in Tabs
                 PROVE  /\ v1'[o].at # "astray"
                        /\ v1'[o].at = "idle" => v1'[o].kind = "developer"
                        /\ v1'[o].at = "home" \/ v1'[o].kind = "pm" \/ v2'[o] = v1'[o].page
      BY DEF Entry!PagesAreRemembered
    <3>1. CASE o # t
      BY <2>3, <2>5, <3>1 DEF Entry!PagesAreRemembered, Entry!Domains
    <3>2. CASE o = t
      BY <2>3, <2>4, <2>5, <3>2 DEF Entry!PagesAreRemembered, Entry!Domains
    <3> QED
      BY <3>1, <3>2
  <2>9. AccountTypes'
    <3> DEFINE k == v1[t].kind
               e == v1[t].listed
    <3>1. e \in BOOLEAN /\ v9[k] \in Seq(BOOLEAN) /\ k \in Entry!Kinds
      BY <2>2 DEF AccountTypes, Entry!TabStates
    <3>2. Append(v9[k], e) \in Seq(BOOLEAN)
      <4> HIDE DEF e, k
      <4> QED
        BY <3>1, AppendProperties
    <3> QED
      BY <2>2, <2>3, <3>1, <3>2 DEF AccountTypes
  <2> QED
    BY <2>5, <2>6, <2>7, <2>8, <2>9 DEF Entry!Domains, TokenTypes, AccountTypes
<1>16. CASE Entry!Lapse
  <2>1. Entry!Domains'
    BY <1>16 DEF Entry!Lapse, Entry!Domains
  <2>2. Entry!TokensAreOwn'
    BY <1>16 DEF Entry!Lapse, Entry!Domains, Entry!TokensAreOwn, Entry!Away, Entry!Holds,
           Entry!LastTabIsLetIn
  <2>3. Entry!PagesAreRemembered'
    BY <1>16 DEF Entry!Lapse, Entry!PagesAreRemembered
  <2>4. Entry!ReadsStand'
    BY <1>16 DEF Entry!Lapse, Entry!ReadsStand, Entry!Stands
  <2> QED
    BY <2>1, <2>2, <2>3, <2>4
<1>17. CASE Entry!Uninstall
  <2>1. Entry!Domains'
    BY <1>17 DEF Entry!Uninstall, Entry!Domains
  <2>2. Entry!TokensAreOwn'
    BY <1>17 DEF Entry!Uninstall, Entry!Domains, Entry!TokensAreOwn, Entry!Away, Entry!Holds,
           Entry!LastTabIsLetIn
  <2>3. Entry!PagesAreRemembered'
    BY <1>17 DEF Entry!Uninstall, Entry!PagesAreRemembered
  <2>4. Entry!ReadsStand'
    BY <1>17 DEF Entry!Uninstall, Entry!ReadsStand, Entry!Stands
  <2> QED
    BY <2>1, <2>2, <2>3, <2>4
<1>18. CASE Entry!Invite
  <2>1. Entry!Domains'
    BY <1>18 DEF Entry!Invite, Entry!Domains
  <2>2. Entry!TokensAreOwn'
    BY <1>18 DEF Entry!Invite, Entry!Domains, Entry!TokensAreOwn, Entry!Away, Entry!Holds,
           Entry!LastTabIsLetIn
  <2>3. Entry!PagesAreRemembered'
    BY <1>18 DEF Entry!Invite, Entry!PagesAreRemembered
  <2>4. Entry!ReadsStand'
    <3> SUFFICES ASSUME NEW o \in Tabs, o \notin v10'
                 PROVE  Entry!Stands(v1'[o], v8', v9')
      BY DEF Entry!ReadsStand, Entry!Stands
    <3>1. Entry!Stands(v1[o], v8, v9)
      BY <1>18 DEF Entry!Invite, Entry!ReadsStand
    <3>2. o \notin v10 /\ v1'[o] = v1[o] /\ v9' = v9 /\ ~(v1[o].kind = "pm" /\ v1[o].at \in {"email", "create"})
      BY <1>18 DEF Entry!Invite
    <3>3. v1[o].kind = "pm" \/ v8'[v1[o].kind] = v8[v1[o].kind]
      BY <1>18 DEF Entry!Invite, Entry!Domains, Entry!TabStates
    <3> QED
      BY <3>1, <3>2, <3>3 DEF Entry!Stands
  <2> QED
    BY <2>1, <2>2, <2>3, <2>4
<1>19. CASE UNCHANGED Entry!signInVars
  <2>1. Entry!Domains'
    BY <1>19 DEF Entry!signInVars, Entry!Domains
  <2>2. Entry!TokensAreOwn'
    BY <1>19 DEF Entry!signInVars, Entry!Domains, Entry!TokensAreOwn, Entry!Away, Entry!Holds,
           Entry!LastTabIsLetIn
  <2>3. Entry!PagesAreRemembered'
    BY <1>19 DEF Entry!signInVars, Entry!PagesAreRemembered
  <2>4. Entry!ReadsStand'
    BY <1>19 DEF Entry!signInVars, Entry!ReadsStand, Entry!Stands
  <2> QED
    BY <2>1, <2>2, <2>3, <2>4
<1> QED
  BY <1>1, <1>2, <1>3, <1>4, <1>5, <1>6, <1>7, <1>8, <1>9, <1>10, <1>11, <1>12, <1>13, <1>14, <1>15, <1>16,
     <1>17, <1>18, <1>19 DEF Entry!Next

\* The last of the tabs that sign in is let through and comes back to where it started, and
\* a sign-in fails only if it was overtaken, for any tabs, pages and tokens.
THEOREM NobodyIsLost == PartsSpec => []SignInsLoseNobody
<1>1. PartsInit /\ part = "signIn" => Entry!Init
  BY DEF PartsInit
<1>2. [PartsNext]_all /\ part = "signIn" => [Entry!Next]_(Entry!signInVars)
  BY DEF PartsNext, all, Entry!signInVars
<1>3. [PartsNext]_all => (part = "signIn" <=> (part = "signIn")')
  BY PartStays
<1>4. EntryInv => Entry!LastTabIsLetIn /\ Entry!ReturnsWhereItStarted /\ Entry!OnlyRacesFail
  BY DEF EntryInv, Entry!TokensAreOwn, Entry!PagesAreRemembered, Entry!ReadsStand, Entry!Stands,
         Entry!ReturnsWhereItStarted, Entry!OnlyRacesFail
<1>5. (part = "signIn" => EntryInv) => SignInsLoseNobody
  BY <1>4 DEF SignInsLoseNobody
<1> QED
  BY <1>1, <1>2, <1>3, <1>5, EntryInit, EntryStep, PTL DEF PartsSpec
-----------------------------------------------------------------------------
(***************************************************************************)
(* The pull requests of a session.                                         *)
(***************************************************************************)
PullsInv == Pulls!Domains /\ Pulls!CallsComeBeforePulls /\ Pulls!DeliveriesAreOfPulls /\ Pulls!RowsShowTheLatest

\* What opens, or changes, a pull request sends a delivery that shows it.
LEMMA PullIsShown ==
  ASSUME PullsInv, NEW n \in Nat, NEW pull \in Pulls!Pulls, v5' \in Seq(Pulls!Pulls), DOMAIN v5' = DOMAIN v5 \cup {n},
         v5'[n] = pull, \A m \in DOMAIN v5 : m # n => v5'[m] = v5[m],
         v7' = v7 \cup Pulls!Sent(n, pull), v4' = v4, v6' = v6
  PROVE  v7' \in SUBSET Pulls!Deliveries /\ Pulls!DeliveriesAreOfPulls'
<1> DEFINE d == Pulls!Delivery(n, pull)
<1>1. /\ d \in Pulls!Deliveries /\ d.number = n /\ d.origin = v6 /\ d.pull = pull /\ d.at = v4
      /\ v4 \in Nat \ {0} /\ v7 \in SUBSET Pulls!Deliveries
  BY DEF PullsInv, Pulls!Domains, Pulls!Delivery, Pulls!Deliveries
<1>2. v7' = v7 \cup {d} \/ (v7' = v7 /\ v6' # Pulls!Ours)
  BY DEF Pulls!Sent, Pulls!Ours
<1> HIDE DEF d
<1>3. ASSUME NEW e \in v7'
      PROVE  e.number \in DOMAIN v5' /\ e.at <= v4' /\ e.at # 0 /\ (v6' = Pulls!Ours => e.origin = Pulls!Ours)
  BY <1>1, <1>2 DEF PullsInv, Pulls!DeliveriesAreOfPulls
<1>4. ASSUME NEW m \in DOMAIN v5', v6' = Pulls!Ours
      PROVE  \E e \in v7' : Pulls!IsLast(e, v7', m) /\ e.pull = v5'[m]
  <2> v7' = v7 \cup {d}
    BY <1>2, <1>4
  <2>1. CASE m = n
    <3>1. Pulls!IsLast(d, v7', m)
      BY <1>1, <1>2, <1>3, <2>1 DEF Pulls!IsLast
    <3> QED
      BY <1>1, <1>2, <2>1, <3>1
  <2>2. CASE m # n
    <3>1. PICK e \in v7 : Pulls!IsLast(e, v7, m) /\ e.pull = v5[m]
      BY <1>4, <2>2 DEF PullsInv, Pulls!DeliveriesAreOfPulls
    <3>2. Pulls!IsLast(e, v7', m) /\ e.pull = v5'[m] /\ e \in v7'
      BY <1>1, <1>2, <2>2, <3>1 DEF Pulls!IsLast
    <3> QED
      BY <3>2
  <2> QED
    BY <2>1, <2>2
<1> QED
  BY <1>1, <1>2, <1>3, <1>4 DEF Pulls!DeliveriesAreOfPulls

LEMMA PullOpens ==
  ASSUME PullsInv, NEW q \in Requests, Pulls!OpenPull(q), v4' = v4, v6' = v6
  PROVE  /\ v5' \in Seq(Pulls!Pulls) /\ v7' \in SUBSET Pulls!Deliveries /\ Pulls!DeliveriesAreOfPulls'
         /\ Len(v5) + 1 \in Nat /\ DOMAIN v5' = DOMAIN v5 \cup {Len(v5) + 1}
         /\ v5'[Len(v5) + 1].by = q /\ \A m \in DOMAIN v5 : v5'[m] = v5[m]
<1> DEFINE pull == Pulls!Opened(q)
           n == Len(v5) + 1
<1>1. pull \in Pulls!Pulls /\ pull.by = q /\ v5 \in Seq(Pulls!Pulls)
  BY DEF Pulls!Opened, Pulls!Pulls, PullsInv, Pulls!Domains
<1>2. v5' = Append(v5, pull) /\ v7' = v7 \cup Pulls!Sent(n, pull)
  BY DEF Pulls!OpenPull
<1> HIDE DEF pull
<1>3. /\ v5' \in Seq(Pulls!Pulls) /\ n \in Nat /\ DOMAIN v5' = DOMAIN v5 \cup {n} /\ n \notin DOMAIN v5
      /\ v5'[n] = pull /\ \A m \in DOMAIN v5 : v5'[m] = v5[m]
  BY <1>1, <1>2
<1> HIDE DEF n
<1>4. v7' \in SUBSET Pulls!Deliveries /\ Pulls!DeliveriesAreOfPulls'
  BY <1>1, <1>2, <1>3, PullIsShown
<1> QED
  BY <1>1, <1>3, <1>4 DEF n

\* A change is of the pull request of the call that opened it.
LEMMA PullChanges ==
  ASSUME PullsInv, NEW n \in DOMAIN v5, Pulls!Change(n)
  PROVE  /\ v5' \in Seq(Pulls!Pulls) /\ v7' \in SUBSET Pulls!Deliveries /\ Pulls!DeliveriesAreOfPulls'
         /\ DOMAIN v5' = DOMAIN v5 /\ \A m \in DOMAIN v5 : v5'[m].by = v5[m].by
<1>1. v5 \in Seq(Pulls!Pulls) /\ n \in Nat /\ n \in 1..Len(v5) /\ v5[n] \in Pulls!Pulls
  BY DEF PullsInv, Pulls!Domains
<1>2. PICK pull \in Pulls!Changed(v5[n]) :
        v5' = [v5 EXCEPT ![n] = pull] /\ v7' = v7 \cup Pulls!Sent(n, pull) /\ v4' = v4 /\ v6' = v6
  BY DEF Pulls!Change
<1>3. ASSUME NEW p \in Pulls!Pulls, NEW c \in Pulls!Changed(p)
      PROVE  c \in Pulls!Pulls /\ c.by = p.by
  <2> DEFINE other == ~p.draft
  <2>1. other \in BOOLEAN /\ [p EXCEPT !.draft = ~@] = [p EXCEPT !.draft = other]
    OBVIOUS
  <2> HIDE DEF other
  <2>2. \/ c = p \/ c = [p EXCEPT !.state = "open"] \/ c = [p EXCEPT !.draft = other]
        \/ c = [p EXCEPT !.state = "closed"] \/ c = [p EXCEPT !.state = "closed", !.merged = TRUE]
    <3> HIDE DEF Pulls!HasOpen
    <3>1. CASE p.merged
      BY <2>1, <3>1 DEF Pulls!Changed
    <3>2. CASE ~p.merged /\ p.state = "closed"
      BY <2>1, <3>2 DEF Pulls!Changed
    <3>3. CASE ~p.merged /\ p.state # "closed"
      BY <2>1, <3>3 DEF Pulls!Changed
    <3> QED
      BY <3>1, <3>2, <3>3
  <2> QED
    BY <2>1, <2>2 DEF Pulls!Pulls
<1>4. pull \in Pulls!Pulls /\ pull.by = v5[n].by
  BY <1>1, <1>2, <1>3
<1>5. /\ v5' \in Seq(Pulls!Pulls) /\ DOMAIN v5' = DOMAIN v5 /\ v5'[n] = pull
      /\ \A m \in DOMAIN v5 : m # n => v5'[m] = v5[m]
  BY <1>1, <1>2, <1>4, ExceptSeq
<1>6. DOMAIN v5' = DOMAIN v5 \cup {n}
  BY <1>5
<1>7. v7' \in SUBSET Pulls!Deliveries /\ Pulls!DeliveriesAreOfPulls'
  BY <1>1, <1>2, <1>4, <1>5, <1>6, PullIsShown
<1>8. \A m \in DOMAIN v5 : v5'[m].by = v5[m].by
  BY <1>4, <1>5
<1> QED
  BY <1>5, <1>7, <1>8

\* Rows nobody writes stay with their pull requests.
LEMMA RowsStayLatest ==
  ASSUME PullsInv, v8' = v8, DOMAIN v5 \subseteq DOMAIN v5', v7 \subseteq v7', v6' = Pulls!Ours => v6 = Pulls!Ours
  PROVE  Pulls!RowsShowTheLatest'
BY DEF PullsInv, Pulls!RowsShowTheLatest, Pulls!ShowsLatest

\* A delivery updates the row it is the latest for, and is remembered by every row of its number.
Remembered(r, d) == [(IF Pulls!Applies(d, r) THEN Pulls!Updated(r, d) ELSE r) EXCEPT !.seen = @ \cup {d}]

LEMMA RowIsHandled ==
  ASSUME PullsInv, NEW d \in v7, NEW r \in Pulls!Rows,
         \A e \in r.seen : e.at \in Nat, v6 = Pulls!Ours => Pulls!ShowsLatest(r), r.number = d.number
  PROVE  /\ Remembered(r, d) \in Pulls!Rows /\ Remembered(r, d).number = r.number
         /\ Remembered(r, d).seen = r.seen \cup {d}
         /\ v6 = Pulls!Ours => Pulls!ShowsLatest(Remembered(r, d))
<1> DEFINE w == Remembered(r, d)
           status == Pulls!ResolveReviewRequestStatus(d.pull)
<1>1. d \in Pulls!Deliveries /\ d.at \in Nat /\ d.at # 0
  BY DEF PullsInv, Pulls!Domains, Pulls!DeliveriesAreOfPulls, Pulls!Deliveries
<1>2. status \in {"open", "draft", "closed", "merged"}
  BY DEF Pulls!ResolveReviewRequestStatus
<1>3. v6 = Pulls!Ours => d.origin = Pulls!Ours
  BY DEF PullsInv, Pulls!DeliveriesAreOfPulls
<1>4. Pulls!Updated(r, d) = [r EXCEPT !.status = status, !.statusUpdatedAt = d.at]
  BY DEF Pulls!Updated
<1> HIDE DEF status
<1>5. CASE Pulls!Applies(d, r)
  <2>1. /\ w \in Pulls!Rows /\ w.number = r.number /\ w.seen = r.seen \cup {d}
        /\ w.status = status /\ w.statusUpdatedAt = d.at
    BY <1>1, <1>2, <1>4, <1>5 DEF Pulls!Rows, Remembered
  <2> HIDE DEF w
  <2>2. v6 = Pulls!Ours => \A e \in r.seen : e.at <= d.at
    BY <1>1, <1>5 DEF Pulls!Applies, Pulls!ShowsLatest, PullsInv, Pulls!DeliveriesAreOfPulls, Pulls!Rows
  <2> QED
    BY <1>1, <2>1, <2>2 DEF Pulls!ShowsLatest, status, w
<1>6. CASE ~Pulls!Applies(d, r)
  <2>1. /\ w \in Pulls!Rows /\ w.number = r.number /\ w.seen = r.seen \cup {d}
        /\ w.status = r.status /\ w.statusUpdatedAt = r.statusUpdatedAt
    BY <1>1, <1>6 DEF Pulls!Rows, Remembered
  <2> HIDE DEF w
  <2>2. v6 = Pulls!Ours => r.statusUpdatedAt # 0 /\ ~(r.statusUpdatedAt <= d.at)
    BY <1>3, <1>6 DEF Pulls!Applies
  <2> QED
    BY <1>1, <2>1, <2>2 DEF Pulls!ShowsLatest, Pulls!Rows, w
<1> QED
  BY <1>5, <1>6

LEMMA PullsInit == Pulls!Init => PullsInv
BY DEF Pulls!Init, PullsInv, Pulls!Domains, Pulls!Origins, Pulls!Ours, Pulls!CallsComeBeforePulls,
    Pulls!PublishedScreenshotsStay, Pulls!DeliveriesAreOfPulls, Pulls!RowsShowTheLatest

LEMMA PullsStep == PullsInv /\ [Pulls!Next]_(Pulls!pullVars) => PullsInv'
<1> SUFFICES ASSUME PullsInv, [Pulls!Next]_(Pulls!pullVars)
             PROVE  PullsInv'
  OBVIOUS
<1> USE DEF PullsInv
<1>1. CASE Pulls!ChangeReadiness
  <2>1. Pulls!Domains'
    BY <1>1 DEF Pulls!ChangeReadiness, Pulls!Lose, Pulls!Domains, Pulls!InFlight
  <2>2. Pulls!CallsComeBeforePulls'
    BY <1>1 DEF Pulls!ChangeReadiness, Pulls!Lose, Pulls!CallsComeBeforePulls,
           Pulls!PublishedScreenshotsStay, Pulls!Domains, Pulls!InFlight
  <2>3. Pulls!DeliveriesAreOfPulls'
    BY <1>1 DEF Pulls!ChangeReadiness, Pulls!Lose, Pulls!DeliveriesAreOfPulls, Pulls!Domains,
           Pulls!Deliveries
  <2>4. Pulls!RowsShowTheLatest'
    BY <1>1 DEF Pulls!ChangeReadiness, Pulls!Lose, Pulls!RowsShowTheLatest, Pulls!ShowsLatest
  <2> QED
    BY <2>1, <2>2, <2>3, <2>4
<1>2. CASE Pulls!Crash
  <2>1. Pulls!Domains'
    BY <1>2 DEF Pulls!Crash, Pulls!Lose, Pulls!Domains, Pulls!InFlight
  <2>2. Pulls!CallsComeBeforePulls'
    BY <1>2 DEF Pulls!Crash, Pulls!Lose, Pulls!CallsComeBeforePulls, Pulls!PublishedScreenshotsStay,
           Pulls!Domains, Pulls!InFlight
  <2>3. Pulls!DeliveriesAreOfPulls'
    BY <1>2 DEF Pulls!Crash, Pulls!Lose, Pulls!DeliveriesAreOfPulls, Pulls!Domains, Pulls!Deliveries
  <2>4. Pulls!RowsShowTheLatest'
    BY <1>2 DEF Pulls!Crash, Pulls!Lose, Pulls!RowsShowTheLatest, Pulls!ShowsLatest
  <2> QED
    BY <2>1, <2>2, <2>3, <2>4
<1>3. CASE Pulls!Tick
  <2>1. Pulls!Domains'
    BY <1>3 DEF Pulls!Tick, Pulls!Lose, Pulls!Domains, Pulls!InFlight
  <2>2. Pulls!CallsComeBeforePulls'
    BY <1>3 DEF Pulls!Tick, Pulls!Lose, Pulls!CallsComeBeforePulls, Pulls!PublishedScreenshotsStay,
           Pulls!Domains, Pulls!InFlight
  <2>3. Pulls!DeliveriesAreOfPulls'
    BY <1>3 DEF Pulls!Tick, Pulls!Lose, Pulls!DeliveriesAreOfPulls, Pulls!Domains, Pulls!Deliveries
  <2>4. Pulls!RowsShowTheLatest'
    BY <1>3 DEF Pulls!Tick, Pulls!Lose, Pulls!RowsShowTheLatest, Pulls!ShowsLatest
  <2> QED
    BY <2>1, <2>2, <2>3, <2>4
<1>4. CASE Pulls!Rename \/ Pulls!Uninstall \/ Pulls!Reinstall
  <2>1. /\ v6' # Pulls!Ours /\ v6' \in Pulls!Origins
        /\ v2' = v2 /\ v3' = v3 /\ v4' = v4 /\ v5' = v5 /\ v7' = v7 /\ v8' = v8 /\ v9' = v9
    BY <1>4 DEF Pulls!Rename, Pulls!Uninstall, Pulls!Reinstall, Pulls!Ours, Pulls!Domains, Pulls!Origins
  <2>2. Pulls!Domains'
    BY <2>1 DEF Pulls!Domains
  <2>3. Pulls!CallsComeBeforePulls'
    BY <2>1 DEF Pulls!CallsComeBeforePulls, Pulls!PublishedScreenshotsStay
  <2>4. Pulls!DeliveriesAreOfPulls' /\ Pulls!RowsShowTheLatest'
    BY <2>1 DEF Pulls!DeliveriesAreOfPulls, Pulls!RowsShowTheLatest
  <2> QED
    BY <2>2, <2>3, <2>4
<1>5. CASE \E q \in Requests : Pulls!Check(q)
  <2>1. Pulls!Domains'
    <3>1. PICK q \in Requests, stage \in {"storing", "refused"} : v2' = [v2 EXCEPT ![q].at = stage]
      BY <1>5 DEF Pulls!Check, Pulls!At
    <3> QED
      BY <1>5, <3>1 DEF Pulls!Check, Pulls!Domains, Pulls!InFlight
  <2>2. Pulls!CallsComeBeforePulls'
    BY <1>5 DEF Pulls!Check, Pulls!At, Pulls!Lose, Pulls!CallsComeBeforePulls,
           Pulls!PublishedScreenshotsStay, Pulls!Domains, Pulls!InFlight
  <2>3. Pulls!DeliveriesAreOfPulls'
    BY <1>5 DEF Pulls!Check, Pulls!At, Pulls!Lose, Pulls!DeliveriesAreOfPulls, Pulls!Domains,
           Pulls!Deliveries
  <2>4. Pulls!RowsShowTheLatest'
    BY <1>5 DEF Pulls!Check, Pulls!At, Pulls!Lose, Pulls!RowsShowTheLatest, Pulls!ShowsLatest
  <2> QED
    BY <2>1, <2>2, <2>3, <2>4
<1>6. CASE \E q \in Requests : Pulls!StoreScreenshots(q)
  <2>1. Pulls!Domains'
    BY <1>6 DEF Pulls!StoreScreenshots, Pulls!At, Pulls!Lose, Pulls!Domains, Pulls!InFlight
  <2>2. Pulls!CallsComeBeforePulls'
    BY <1>6 DEF Pulls!StoreScreenshots, Pulls!At, Pulls!Lose, Pulls!CallsComeBeforePulls,
           Pulls!PublishedScreenshotsStay, Pulls!Domains, Pulls!InFlight
  <2>3. Pulls!DeliveriesAreOfPulls'
    BY <1>6 DEF Pulls!StoreScreenshots, Pulls!At, Pulls!Lose, Pulls!DeliveriesAreOfPulls, Pulls!Domains,
           Pulls!Deliveries
  <2>4. Pulls!RowsShowTheLatest'
    BY <1>6 DEF Pulls!StoreScreenshots, Pulls!At, Pulls!Lose, Pulls!RowsShowTheLatest, Pulls!ShowsLatest
  <2> QED
    BY <2>1, <2>2, <2>3, <2>4
<1>7. CASE \E q \in Requests : Pulls!Push(q)
  <2>1. Pulls!Domains'
    BY <1>7 DEF Pulls!Push, Pulls!At, Pulls!Lose, Pulls!Domains, Pulls!InFlight
  <2>2. Pulls!CallsComeBeforePulls'
    BY <1>7 DEF Pulls!Push, Pulls!At, Pulls!Lose, Pulls!CallsComeBeforePulls,
           Pulls!PublishedScreenshotsStay, Pulls!Domains, Pulls!InFlight
  <2>3. Pulls!DeliveriesAreOfPulls'
    BY <1>7 DEF Pulls!Push, Pulls!At, Pulls!Lose, Pulls!DeliveriesAreOfPulls, Pulls!Domains,
           Pulls!Deliveries
  <2>4. Pulls!RowsShowTheLatest'
    BY <1>7 DEF Pulls!Push, Pulls!At, Pulls!Lose, Pulls!RowsShowTheLatest, Pulls!ShowsLatest
  <2> QED
    BY <2>1, <2>2, <2>3, <2>4
<1>8. CASE \E q \in Requests : Pulls!CreateReviewRequest(q)
  <2>1. PICK q \in Requests : Pulls!CreateReviewRequest(q)
    BY <1>8
  <2> DEFINE r == [at |-> "committing", number |-> Len(v5) + 1]
  <2>2. /\ v2[q].at = "opening" /\ v2' = [v2 EXCEPT ![q] = r] /\ v3' = v3 /\ v4' = v4 /\ v6' = v6 /\ v8' = v8 /\ v9' = v9
        /\ r.at = "committing" /\ r.number = Len(v5) + 1
    BY <2>1 DEF Pulls!CreateReviewRequest
  <2>3. /\ v5' \in Seq(Pulls!Pulls) /\ v7' \in SUBSET Pulls!Deliveries /\ Pulls!DeliveriesAreOfPulls'
        /\ Len(v5) + 1 \in Nat /\ DOMAIN v5' = DOMAIN v5 \cup {Len(v5) + 1}
        /\ v5'[Len(v5) + 1].by = q /\ \A m \in DOMAIN v5 : v5'[m] = v5[m]
    BY <2>1, PullOpens DEF Pulls!CreateReviewRequest
  <2>4. r \in [at : {"idle", "refused", "done"} \cup Pulls!InFlight, number : Nat]
    BY <2>3 DEF Pulls!InFlight
  <2> HIDE DEF r
  <2>5. Pulls!Domains'
    BY <2>2, <2>3, <2>4 DEF Pulls!Domains
  <2>6. Pulls!CallsComeBeforePulls'
    BY <2>2, <2>3 DEF Pulls!CallsComeBeforePulls, Pulls!PublishedScreenshotsStay, Pulls!Domains
  <2>7. v7 \subseteq v7'
    BY <2>1 DEF Pulls!CreateReviewRequest, Pulls!OpenPull
  <2>8. Pulls!RowsShowTheLatest'
    BY <2>2, <2>3, <2>7, RowsStayLatest
  <2> QED
    BY <2>3, <2>5, <2>6, <2>8
<1>9. CASE \E q \in Requests : Pulls!FailReviewRequest(q)
  <2>1. PICK q \in Requests : Pulls!FailReviewRequest(q)
    BY <1>9
  <2> DEFINE r == [v2[q] EXCEPT !.at = "refused"]
  <2>2. /\ v2[q].at = "opening" /\ v2' = [v2 EXCEPT ![q] = r] /\ v3' = v3 \ {q} /\ v4' = v4 /\ v6' = v6 /\ v8' = v8
        /\ r.at = "refused" /\ r \in [at : {"idle", "refused", "done"} \cup Pulls!InFlight, number : Nat]
    BY <2>1 DEF Pulls!FailReviewRequest, Pulls!At, Pulls!Domains
  <2> HIDE DEF r
  <2>3. CASE v5' = v5 /\ v7' = v7 /\ v9' = v9
    BY <2>2, <2>3 DEF Pulls!Domains, Pulls!CallsComeBeforePulls, Pulls!PublishedScreenshotsStay,
        Pulls!DeliveriesAreOfPulls, Pulls!RowsShowTheLatest, Pulls!ShowsLatest
  <2>4. CASE Pulls!OpenPull(q) /\ v9' = v9 \cup {Len(v5) + 1}
    <3>1. /\ v5' \in Seq(Pulls!Pulls) /\ v7' \in SUBSET Pulls!Deliveries /\ Pulls!DeliveriesAreOfPulls'
          /\ Len(v5) + 1 \in Nat /\ DOMAIN v5' = DOMAIN v5 \cup {Len(v5) + 1}
          /\ v5'[Len(v5) + 1].by = q /\ \A m \in DOMAIN v5 : v5'[m] = v5[m]
      BY <2>2, <2>4, PullOpens
    <3>2. Pulls!Domains'
      BY <2>2, <3>1 DEF Pulls!Domains
    <3>3. Pulls!CallsComeBeforePulls'
      BY <2>2, <2>4, <3>1 DEF Pulls!CallsComeBeforePulls, Pulls!PublishedScreenshotsStay, Pulls!Domains
    <3>4. v7 \subseteq v7'
      BY <2>4 DEF Pulls!OpenPull
    <3>5. Pulls!RowsShowTheLatest'
      BY <2>2, <3>1, <3>4, RowsStayLatest
    <3> QED
      BY <3>1, <3>2, <3>3, <3>5
  <2> QED
    BY <2>1, <2>3, <2>4 DEF Pulls!FailReviewRequest
<1>10. CASE \E q \in Requests : Pulls!Commit(q)
  <2>1. PICK q \in Requests : Pulls!Commit(q)
    BY <1>10
  <2> DEFINE r == [number |-> v2[q].number, status |-> "open", statusUpdatedAt |-> 0, seen |-> {}]
             c == [v2[q] EXCEPT !.at = "done"]
  <2>2. /\ v2[q].at = "committing" /\ v8' = Append(v8, r) /\ v2' = [v2 EXCEPT ![q] = c] /\ r \in Pulls!Rows /\ r.seen = {}
        /\ r.statusUpdatedAt = 0 /\ r.number = v2[q].number
        /\ c.at = "done" /\ c \in [at : {"idle", "refused", "done"} \cup Pulls!InFlight, number : Nat]
        /\ v3' = v3 /\ v4' = v4 /\ v5' = v5 /\ v6' = v6 /\ v7' = v7 /\ v9' = v9
    BY <2>1 DEF Pulls!Commit, Pulls!At, Pulls!Domains, Pulls!Rows
  <2> HIDE DEF r, c
  <2>3. /\ v8 \in Seq(Pulls!Rows) /\ v8' \in Seq(Pulls!Rows) /\ DOMAIN v8' = DOMAIN v8 \cup {Len(v8) + 1}
        /\ v8'[Len(v8) + 1] = r /\ \A i \in DOMAIN v8 : v8'[i] = v8[i]
    BY <2>2 DEF Pulls!Domains
  <2>4. Pulls!Domains' /\ Pulls!DeliveriesAreOfPulls'
    BY <2>2, <2>3 DEF Pulls!Domains, Pulls!DeliveriesAreOfPulls
  <2>5. Pulls!CallsComeBeforePulls'
    BY <2>2 DEF Pulls!CallsComeBeforePulls, Pulls!PublishedScreenshotsStay, Pulls!Domains
  <2>6. r.number \in DOMAIN v5 /\ Pulls!ShowsLatest(r)
    BY <2>2 DEF Pulls!CallsComeBeforePulls, Pulls!ShowsLatest
  <2>7. Pulls!RowsShowTheLatest'
    BY <2>2, <2>3, <2>6 DEF Pulls!RowsShowTheLatest, Pulls!ShowsLatest
  <2> QED
    BY <2>4, <2>5, <2>7
<1>11. CASE \E q \in Requests : Pulls!FailCommit(q)
  <2>1. Pulls!Domains'
    BY <1>11 DEF Pulls!FailCommit, Pulls!At, Pulls!Lose, Pulls!Domains, Pulls!InFlight
  <2>2. Pulls!CallsComeBeforePulls'
    BY <1>11 DEF Pulls!FailCommit, Pulls!At, Pulls!Lose, Pulls!CallsComeBeforePulls,
           Pulls!PublishedScreenshotsStay, Pulls!Domains, Pulls!InFlight
  <2>3. Pulls!DeliveriesAreOfPulls'
    BY <1>11 DEF Pulls!FailCommit, Pulls!At, Pulls!Lose, Pulls!DeliveriesAreOfPulls, Pulls!Domains,
           Pulls!Deliveries
  <2>4. Pulls!RowsShowTheLatest'
    BY <1>11 DEF Pulls!FailCommit, Pulls!At, Pulls!Lose, Pulls!RowsShowTheLatest, Pulls!ShowsLatest
  <2> QED
    BY <2>1, <2>2, <2>3, <2>4
<1>12. CASE \E n \in DOMAIN v5 : Pulls!Change(n)
  <2>1. PICK n \in DOMAIN v5 : Pulls!Change(n)
    BY <1>12
  <2>2. v2' = v2 /\ v3' = v3 /\ v4' = v4 /\ v6' = v6 /\ v8' = v8 /\ v9' = v9 /\ v7 \subseteq v7'
    BY <2>1 DEF Pulls!Change
  <2>3. /\ v5' \in Seq(Pulls!Pulls) /\ v7' \in SUBSET Pulls!Deliveries /\ Pulls!DeliveriesAreOfPulls'
        /\ DOMAIN v5' = DOMAIN v5 /\ \A m \in DOMAIN v5 : v5'[m].by = v5[m].by
    BY <2>1, PullChanges
  <2>4. Pulls!Domains'
    BY <2>2, <2>3 DEF Pulls!Domains
  <2>5. Pulls!CallsComeBeforePulls'
    BY <2>2, <2>3 DEF Pulls!CallsComeBeforePulls, Pulls!PublishedScreenshotsStay
  <2>6. Pulls!RowsShowTheLatest'
    BY <2>2, <2>3, RowsStayLatest
  <2> QED
    BY <2>3, <2>4, <2>5, <2>6
<1>13. CASE \E d \in v7 : Pulls!Handle(d)
  <2>1. PICK d \in v7 : Pulls!Handle(d)
    BY <1>13
  <2> DEFINE Handled(r) ==
               LET row == IF Pulls!Applies(d, r) THEN Pulls!Updated(r, d) ELSE r
               IN  IF d.number = row.number THEN [row EXCEPT !.seen = @ \cup {d}] ELSE row
  <2>2. /\ v8' = [i \in DOMAIN v8 |-> Handled(v8[i])]
        /\ v2' = v2 /\ v3' = v3 /\ v4' = v4 /\ v5' = v5 /\ v6' = v6 /\ v7' = v7 /\ v9' = v9
    BY <2>1 DEF Pulls!Handle
  <2>3. v8 \in Seq(Pulls!Rows) /\ DOMAIN v8 = 1..Len(v8) /\ Len(v8) \in Nat /\ v7 \in SUBSET Pulls!Deliveries
    BY DEF Pulls!Domains
  <2>4. ASSUME NEW i \in DOMAIN v8
        PROVE  /\ Handled(v8[i]) \in Pulls!Rows /\ Handled(v8[i]).number = v8[i].number
               /\ Handled(v8[i]).seen \in {v8[i].seen, v8[i].seen \cup {d}}
               /\ Handled(v8[i]).seen = v8[i].seen \/ d.number = v8[i].number
               /\ v6 = Pulls!Ours => Pulls!ShowsLatest(Handled(v8[i]))
    <3>1. /\ v8[i] \in Pulls!Rows /\ (v6 = Pulls!Ours => Pulls!ShowsLatest(v8[i]))
          /\ \A e \in v8[i].seen : e.at \in Nat
      BY <2>3 DEF Pulls!RowsShowTheLatest, Pulls!Deliveries
    <3>2. CASE d.number = v8[i].number
      <4>1. Pulls!Updated(v8[i], d).number = v8[i].number
        BY <3>1 DEF Pulls!Updated, Pulls!Rows
      <4>2. Handled(v8[i]) = Remembered(v8[i], d)
        BY <3>2, <4>1 DEF Remembered
      <4> HIDE DEF Handled
      <4> QED
        BY <3>1, <3>2, <4>2, RowIsHandled
    <3>3. CASE d.number # v8[i].number
      <4>1. Handled(v8[i]) = v8[i]
        BY <3>3 DEF Pulls!Applies
      <4> HIDE DEF Handled
      <4> QED
        BY <3>1, <4>1
    <3> QED
      BY <3>2, <3>3
  <2> HIDE DEF Handled
  <2>5. DOMAIN v8' = DOMAIN v8 /\ \A i \in DOMAIN v8 : v8'[i] = Handled(v8[i])
    BY <2>2
  <2>6. v8' \in Seq(Pulls!Rows)
    <3>1. v8' \in [1..Len(v8) -> Pulls!Rows]
      BY <2>2, <2>3, <2>4
    <3> QED
      BY <2>3, <3>1, SeqDef
  <2>7. Pulls!Domains'
    BY <2>2, <2>6 DEF Pulls!Domains
  <2>8. Pulls!CallsComeBeforePulls' /\ Pulls!DeliveriesAreOfPulls'
    BY <2>2 DEF Pulls!CallsComeBeforePulls, Pulls!PublishedScreenshotsStay, Pulls!DeliveriesAreOfPulls
  <2>9. Pulls!RowsShowTheLatest'
    <3> SUFFICES ASSUME NEW i \in DOMAIN v8
                 PROVE  /\ Handled(v8[i]).number \in DOMAIN v5
                        /\ \A e \in Handled(v8[i]).seen : e \in v7 /\ e.number = Handled(v8[i]).number
                        /\ v6 = Pulls!Ours => Pulls!ShowsLatest(Handled(v8[i]))
      BY <2>2, <2>5 DEF Pulls!RowsShowTheLatest, Pulls!ShowsLatest
    <3> QED
      BY <2>4 DEF Pulls!RowsShowTheLatest
  <2> QED
    BY <2>7, <2>8, <2>9
<1>14. CASE UNCHANGED Pulls!pullVars
  <2>1. Pulls!Domains'
    BY <1>14 DEF Pulls!pullVars, Pulls!Domains, Pulls!InFlight
  <2>2. Pulls!CallsComeBeforePulls'
    BY <1>14 DEF Pulls!pullVars, Pulls!CallsComeBeforePulls, Pulls!PublishedScreenshotsStay, Pulls!Domains,
           Pulls!InFlight
  <2>3. Pulls!DeliveriesAreOfPulls'
    BY <1>14 DEF Pulls!pullVars, Pulls!DeliveriesAreOfPulls, Pulls!Domains, Pulls!Deliveries
  <2>4. Pulls!RowsShowTheLatest'
    BY <1>14 DEF Pulls!pullVars, Pulls!RowsShowTheLatest, Pulls!ShowsLatest
  <2> QED
    BY <2>1, <2>2, <2>3, <2>4
<1> QED
  BY <1>1, <1>2, <1>3, <1>4, <1>5, <1>6, <1>7, <1>8, <1>9, <1>10, <1>11, <1>12, <1>13, <1>14 DEF Pulls!Next


\* A row whose pull request's last delivery was handled shows it as it is.
LEMMA LatestIsCurrent == PullsInv => Pulls!StatusIsCurrent
<1> SUFFICES ASSUME PullsInv, NEW i \in DOMAIN v8, v6 = Pulls!Ours,
                    NEW x \in Pulls!Last(v8[i].number), x \in v8[i].seen,
                    \A d, e \in Pulls!Last(v8[i].number) : d.pull = e.pull
             PROVE  v8[i].status = Pulls!ResolveReviewRequestStatus(v5[v8[i].number])
  BY DEF Pulls!StatusIsCurrent
<1> DEFINE n == v8[i].number
<1>1. v7 \subseteq Pulls!Deliveries /\ \A d \in v7 : d.at \in Nat
  BY DEF PullsInv, Pulls!Domains, Pulls!Deliveries
<1>2. /\ n \in DOMAIN v5 /\ Pulls!ShowsLatest(v8[i])
      /\ \A d \in v8[i].seen : d \in v7 /\ d.number = n
  BY DEF PullsInv, Pulls!RowsShowTheLatest
<1>3. x \in v7 /\ x.number = n /\ \A e \in v7 : e.number = n => e.at <= x.at
  BY DEF Pulls!Last, Pulls!Of
<1>4. PICK d \in v8[i].seen :
        v8[i].status = Pulls!ResolveReviewRequestStatus(d.pull) /\ \A e \in v8[i].seen : e.at <= d.at
  BY <1>2 DEF Pulls!ShowsLatest
<1>5. PICK w \in v7 : Pulls!IsLast(w, v7, n) /\ w.pull = v5[n]
  BY <1>2 DEF PullsInv, Pulls!DeliveriesAreOfPulls
<1>6. d \in Pulls!Last(n)
  <2>1. d \in v7 /\ d.number = n /\ x.at <= d.at
    BY <1>2, <1>4
  <2>2. \A e \in v7 : e.number = n => e.at <= d.at
    BY <1>1, <1>3, <2>1
  <2> QED
    BY <2>1, <2>2 DEF Pulls!Last, Pulls!Of
<1>7. w \in Pulls!Last(n)
  BY <1>5 DEF Pulls!IsLast, Pulls!Last, Pulls!Of
<1>8. d.pull = w.pull
  BY <1>6, <1>7
<1> QED
  BY <1>4, <1>5, <1>8

\* A row shows what its pull request is once the last delivery was handled, in whatever order and
\* however often they came, and the screenshots it links to stay, for any calls and bounds.
THEOREM PullRequestsAreCurrent == PartsSpec => []PullRequestsAreFollowed
<1>1. PartsInit /\ part = "pullRequests" => Pulls!Init
  BY DEF PartsInit
<1>2. [PartsNext]_all /\ part = "pullRequests" => [Pulls!Next]_(Pulls!pullVars)
  BY DEF PartsNext, all, Pulls!pullVars
<1>3. [PartsNext]_all => (part = "pullRequests" <=> (part = "pullRequests")')
  BY PartStays
<1>4. PullsInv => Pulls!StatusIsCurrent /\ Pulls!PublishedScreenshotsStay
  BY LatestIsCurrent DEF PullsInv, Pulls!CallsComeBeforePulls
<1>5. (part = "pullRequests" => PullsInv) => PullRequestsAreFollowed
  BY <1>4 DEF PullRequestsAreFollowed
<1> QED
  BY <1>1, <1>2, <1>3, <1>5, PullsInit, PullsStep, PTL DEF PartsSpec
=============================================================================
