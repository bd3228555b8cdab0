---------------------------- MODULE WorktreeChanges ----------------------------
(***************************************************************************)
(* The files of a session's worktree over one prompt turn after another:   *)
(* what DiffService makes of them, what PromptRunner concludes from its    *)
(* fingerprints, and what WorktreeService commits and pushes meanwhile.    *)
(* A file's content is a number, 0 before anyone touched it.               *)
(***************************************************************************)
EXTENDS Naturals

CONSTANTS
  None, Paths,
  Quoted,      \* files whose name git status writes in quotes: a space, an accent
  Sensitive,   \* files that SensitiveFilesPolicy names
  MaxContent,  \* bound: contents of a file
  MaxRepairs   \* MAX_VALIDATION_REPAIR_ATTEMPTS

VARIABLES
  content,    \* per file: what the worktree has
  committed,  \* per file: what the branch's head has
  staged,     \* per file: what the index has
  pushing,    \* "no", "added" or "accepted": where pushBranch is
  turnAt,     \* "idle", "harness", "collect", "checks" or "report"
  fixes,      \* repairs asked for in this turn
  initial,    \* initialDiff, and the contents it was of
  beforeFix,  \* beforeRepairFingerprint, or None
  validated,  \* the contents of the last checks of this turn, or None
  reported,   \* how the last turn ended: "unchanged", "checked" or None
  shownDiff,  \* the files with contents in the git.diff of that turn
  disturbed   \* the branch was committed to during this turn

changesVars == <<content, committed, staged, pushing, turnAt, fixes, initial, beforeFix, validated, reported,
                 shownDiff, disturbed>>
gitVars == <<committed, staged, pushing>>
turnVars == <<turnAt, fixes, initial, beforeFix, validated, reported, shownDiff, disturbed>>

\* Whether it is there is all that matters of a sensitive file.
Contents(f) == IF f \in Sensitive THEN 0..1 ELSE 0..MaxContent
Clean == [f \in Paths |-> 0]
NoTurn == [fingerprint |-> None, of |-> Clean]

Init ==
  /\ content = Clean /\ committed = Clean /\ staged = Clean
  /\ pushing = "no"
  /\ turnAt = "idle"
  /\ fixes = 0
  /\ initial = NoTurn
  /\ beforeFix = None
  /\ validated = None
  /\ reported = None
  /\ shownDiff = {}
  /\ disturbed = FALSE
-----------------------------------------------------------------------------
(***************************************************************************)
(* DiffService.                                                            *)
(***************************************************************************)
\* listChangedFiles: what differs from the head, in the index or in the worktree.
ChangedFiles == {f \in Paths : content[f] # committed[f] \/ staged[f] # committed[f]}

\* The two letters of git status.
StatusCode(f) == <<staged[f] # committed[f], content[f] # staged[f]>>

\* createSnapshot hashes every file it finds; a name in quotes is of no file.
Fingerprint ==
  [f \in ChangedFiles |-> [status |-> StatusCode(f), hash |-> IF f \in Quoted THEN None ELSE content[f]]]

\* collect renders what is not sensitive.
Shown == ChangedFiles \ (Sensitive \cup Quoted)
-----------------------------------------------------------------------------
(***************************************************************************)
(* PromptRunner.                                                           *)
(***************************************************************************)
Begin ==
  /\ turnAt = "idle"
  /\ turnAt' = "harness"
  /\ initial' = [fingerprint |-> Fingerprint, of |-> content]
  /\ reported' = None
  /\ shownDiff' = {}
  /\ UNCHANGED <<content, gitVars, fixes, beforeFix, validated, disturbed>>

\* The harness writes a file, or takes back what it wrote.
Write(f, what) ==
  /\ turnAt = "harness"
  /\ content[f] # what /\ what \in Contents(f)
  /\ content' = [content EXCEPT ![f] = what]
  /\ UNCHANGED <<gitVars, turnVars>>

ExitHarness ==
  /\ turnAt = "harness"
  /\ turnAt' = "collect"
  /\ UNCHANGED <<content, gitVars, fixes, initial, beforeFix, validated, reported, shownDiff, disturbed>>

\* The turn is over, and what it remembered is gone.
EndTurn(how) ==
  /\ turnAt' = "idle"
  /\ initial' = NoTurn /\ fixes' = 0 /\ beforeFix' = None /\ validated' = None
  /\ disturbed' = FALSE
  /\ reported' = how
  /\ UNCHANGED <<content, gitVars>>

\* The harness fails or is cancelled, an event is rejected, the agent stops: nothing is
\* concluded from the turn.
BreakTurn == turnAt # "idle" /\ EndTurn(None) /\ UNCHANGED shownDiff

\* Mutant of RepairChangedNothing: any attempt is taken for the last.
RepairChangedAnything == beforeFix # None

RepairChangedNothing == beforeFix # None /\ Fingerprint = beforeFix

\* agent.done: unchanged since the turn began, a repair in vain, or something to check.
Collect ==
  /\ turnAt = "collect"
  /\ IF Fingerprint = initial.fingerprint
     THEN EndTurn("unchanged") /\ UNCHANGED shownDiff
     ELSE /\ turnAt' = IF RepairChangedNothing THEN "report" ELSE "checks"
          /\ beforeFix' = None
          /\ UNCHANGED <<content, gitVars, fixes, initial, validated, reported, shownDiff, disturbed>>

\* hasRepairableCheckFailure decides whether the harness is asked again.
RunChecks ==
  /\ turnAt = "checks"
  /\ validated' = content
  /\ \/ turnAt' = "report" /\ UNCHANGED <<fixes, beforeFix>>
     \/ /\ fixes < MaxRepairs
        /\ fixes' = fixes + 1
        /\ beforeFix' = Fingerprint
        /\ turnAt' = "harness"
  /\ UNCHANGED <<content, gitVars, initial, reported, shownDiff, disturbed>>

\* git.diff, then checks.result.
Report ==
  /\ turnAt = "report"
  /\ shownDiff' = Shown
  /\ EndTurn("checked")
-----------------------------------------------------------------------------
(***************************************************************************)
(* pushBranch, which takes no lock that a prompt takes.                    *)
(***************************************************************************)
AddAll ==
  /\ pushing = "no"
  /\ staged' = content
  /\ pushing' = "added"
  /\ UNCHANGED <<content, committed, turnVars>>

\* Mutant of Refused: the files that changed since are looked at instead of the index.
RefusedByStatus == \E f \in Sensitive : content[f] # staged[f]

Refused == \E f \in Sensitive : staged[f] # committed[f]

\* A refusal resets the index.
Inspect ==
  /\ pushing = "added"
  /\ IF Refused THEN pushing' = "no" /\ staged' = committed ELSE pushing' = "accepted" /\ staged' = staged
  /\ UNCHANGED <<content, committed, turnVars>>

Commit ==
  /\ pushing = "accepted"
  /\ pushing' = "no"
  /\ committed' = staged
  /\ disturbed' = (disturbed \/ (turnAt # "idle" /\ staged # committed))
  /\ UNCHANGED <<content, staged, turnAt, fixes, initial, beforeFix, validated, reported, shownDiff>>

\* git fails, or the agent stops in the middle: the index stays as it is.
BreakPush ==
  /\ pushing # "no"
  /\ pushing' = "no"
  /\ UNCHANGED <<content, committed, staged, turnVars>>

Next ==
  \/ Begin \/ ExitHarness \/ BreakTurn \/ Collect \/ RunChecks \/ Report
  \/ \E f \in Paths, what \in 0..MaxContent : Write(f, what)
  \/ AddAll \/ Inspect \/ Commit \/ BreakPush

ChangesSpec == Init /\ [][Next]_changesVars
-----------------------------------------------------------------------------
\* A turn that is reported as one that changed no file has changed none that git status
\* names plainly, unless its files were committed meanwhile: as far as these go, the outcome
\* of the validation before it still stands.
UnchangedStep ==
  reported' # reported /\ reported' = "unchanged" /\ ~disturbed =>
    \A f \in Paths \ Quoted : content[f] = initial.of[f]

\* The checks that a turn reports are of the files that git status names plainly as its last
\* repair left them, unless they were committed meanwhile.
CheckedStep ==
  reported' # reported /\ reported' = "checked" /\ ~disturbed =>
    \A f \in Paths \ Quoted : validated[f] = content[f]

\* Expected to fail: a worktree that is found as the turn found it is as it was, so that
\* only a prompt that makes no file changes keeps the outcome of an earlier validation
\* (CONTEXT.md:44).
UnchangedIsFound ==
  turnAt = "collect" /\ ~disturbed /\ Fingerprint = initial.fingerprint => content = initial.of

\* What a sensitive file holds is in no commit and in no diff that leaves the computer,
\* however a push is interrupted and whatever the harness writes during one.
SecretsStayLocal == \A f \in Sensitive : committed[f] = 0 /\ f \notin shownDiff
-----------------------------------------------------------------------------
(***************************************************************************)
(* What the proofs rest on.                                                *)
(***************************************************************************)
Content == {0} \cup (0..1) \cup (0..MaxContent)
Worktrees == [Paths -> Content]

FilesOK ==
  /\ content \in Worktrees /\ committed \in Worktrees /\ staged \in Worktrees
  /\ initial.of \in Worktrees

\* A push goes on only with an index that holds nothing of a sensitive file.
SecretsInv ==
  /\ FilesOK
  /\ \A f \in Sensitive \cap Paths : committed[f] = 0 /\ f \notin shownDiff
  /\ pushing = "accepted" => \A f \in Sensitive \cap Paths : staged[f] = 0

\* A fingerprint tells the files that are named plainly: it has the hash of each, or the
\* file was as committed.
Tells(fingerprint, of) ==
  \A f \in Paths \ Quoted : IF f \in DOMAIN fingerprint THEN fingerprint[f].hash = of[f] ELSE of[f] = committed[f]

\* What the turn remembers are fingerprints of the files it started from and of the files
\* it checked last, unless the branch has changed since.
TurnInv ==
  /\ FilesOK
  /\ turnAt \in {"idle", "checks", "report"} => beforeFix = None
  /\ turnAt # "idle" /\ ~disturbed => Tells(initial.fingerprint, initial.of)
  /\ turnAt # "idle" /\ beforeFix # None /\ ~disturbed => validated \in Worktrees /\ Tells(beforeFix, validated)
  /\ turnAt = "report" /\ ~disturbed => \A f \in Paths \ Quoted : validated[f] = content[f]
=============================================================================
