------------------------------- MODULE HostChecks -------------------------------
(***************************************************************************)
(* The validation of a prompt's changes on the developer's computer: the   *)
(* project's commands one after the other, each a shell in a process group *)
(* of its own, retried once when a package could not be extracted, and the *)
(* preview last.  What a command starts may outlive its shell, keep its    *)
(* pipes open, not heed a signal, or leave the group.                      *)
(***************************************************************************)
EXTENDS Naturals, Sequences, FiniteSets

CONSTANTS
  Labels,      \* the checks that are commands, in their order
  MaxChildren  \* bound: commands that leave a process beside their shell

VARIABLES
  configured,   \* the checks that have a command
  results,      \* the status of each check that is over, in order
  at,           \* "idle", "between" commands, "running" one, "rejected", or "over"
  runs,         \* the commands that were started, in order
  retrying      \* the current check has its second attempt

checksVars == <<configured, results, at, runs, retrying>>

Current == Len(runs)
Check == Labels[Len(results) + 1]
Commands == Len(Labels)

Init ==
  /\ configured = {}
  /\ results = <<>>
  /\ at = "idle"
  /\ runs = <<>>
  /\ retrying = FALSE
-----------------------------------------------------------------------------
(***************************************************************************)
(* The processes: a shell, and one that it starts or that takes its place  *)
(* in the background.                                                      *)
(***************************************************************************)
Fresh(child, writes) ==
  [of |-> Len(results) + 1, shell |-> "alive", child |-> child, parent |-> child # "none", writes |-> writes,
   ended |-> "no"]   \* the timer: "no", "terminated", "killed", "noneLeft" or "denied"

Parents == Cardinality({i \in 1..Current : runs[i].parent})

\* Somebody holds the pipes of the i-th command.
Written(i) == runs[i].shell = "alive" \/ (runs[i].child # "none" /\ runs[i].writes)
Grouped(i) == runs[i].shell = "alive" \/ runs[i].child = "grouped"

ExitShell(i) ==
  /\ runs[i].shell = "alive"
  /\ \E how \in {"ok", "failed"} : runs' = [runs EXCEPT ![i].shell = how]
  /\ UNCHANGED <<configured, results, at, retrying>>

ExitChild(i) ==
  /\ runs[i].child # "none"
  /\ runs' = [runs EXCEPT ![i].child = "none"]
  /\ UNCHANGED <<configured, results, at, retrying>>
-----------------------------------------------------------------------------
(***************************************************************************)
(* HostCheckCommandExecutor.                                               *)
(***************************************************************************)
Spawn ==
  /\ at = "between" /\ Len(results) < Commands /\ Check \in configured
  /\ \E child \in {"none", "grouped", "apart"}, writes \in BOOLEAN :
       /\ IF child = "none" THEN ~writes ELSE Parents < MaxChildren
       /\ runs' = Append(runs, Fresh(child, writes))
  /\ at' = "running"
  /\ UNCHANGED <<configured, results, retrying>>

\* 'error': there is no sh, or no such directory.  The checks that follow are not run.
FailSpawn ==
  /\ at = "between" /\ Len(results) < Commands /\ Check \in configured
  /\ at' = "rejected"
  /\ UNCHANGED <<configured, results, runs, retrying>>

\* Ten minutes, and the command has not closed: SIGTERM, which each of the group may heed
\* or not, the shell with a status of its own choice.
Terminate ==
  /\ at = "running" /\ runs[Current].ended = "no"
  /\ IF ~Grouped(Current)
       THEN runs' = [runs EXCEPT ![Current].ended = "noneLeft"]
       ELSE \E shell \in {"alive", "ok", "failed"}, child \in {runs[Current].child, "none"} :
              /\ runs[Current].shell # "alive" => shell = runs[Current].shell
              /\ runs[Current].child # "grouped" => child = runs[Current].child
              /\ runs' = [runs EXCEPT ![Current].ended = "terminated", ![Current].shell = shell, ![Current].child = child]
  /\ UNCHANGED <<configured, results, at, retrying>>

Killed(run) ==
  [run EXCEPT !.ended = "killed", !.shell = IF @ = "alive" THEN "failed" ELSE @,
              !.child = IF @ = "grouped" THEN "none" ELSE @]

\* Two seconds later, whether the command has closed since or not.
Kill(i) ==
  /\ runs[i].ended = "terminated"
  /\ runs' = [runs EXCEPT ![i] = Killed(@)]
  /\ UNCHANGED <<configured, results, at, retrying>>

\* The system refuses a signal: the command fails, if it has not been answered yet.
Deny(i) ==
  /\ Grouped(i)
  /\ \/ runs[i].ended = "terminated"
     \/ i = Current /\ at = "running" /\ runs[i].ended = "no"
  /\ runs' = [runs EXCEPT ![i].ended = "denied"]
  /\ at' = IF i = Current /\ at = "running" THEN "rejected" ELSE at
  /\ UNCHANGED <<configured, results, retrying>>
-----------------------------------------------------------------------------
(***************************************************************************)
(* ChecksRunner.                                                           *)
(***************************************************************************)
Begin ==
  /\ at = "idle"
  /\ configured' \in SUBSET {Labels[i] : i \in 1..Commands}
  /\ at' = "between"
  /\ UNCHANGED <<results, runs, retrying>>

\* Mutant of Closed: 'exit' instead of 'close'.
ClosedByExit == runs[Current].shell # "alive"

\* 'close': the shell has exited and nobody holds its pipes.
Closed == runs[Current].shell # "alive" /\ ~Written(Current)

Status == IF runs[Current].shell = "ok" THEN "passed" ELSE "failed"

\* The output tells of a package that could not be extracted, or does not.
Close ==
  /\ at = "running" /\ Closed
  /\ at' = "between"
  /\ \/ Status = "failed" /\ ~retrying /\ retrying' = TRUE /\ UNCHANGED results
     \/ retrying' = FALSE /\ results' = Append(results, Status)
  /\ UNCHANGED <<configured, runs>>

Skip ==
  /\ at = "between" /\ Len(results) < Commands /\ Check \notin configured
  /\ results' = Append(results, "skipped")
  /\ UNCHANGED <<configured, at, runs, retrying>>

\* runPreviewCheck: there is no preview, it answers with an error, or with a page.
CheckPreview ==
  /\ at = "between" /\ Len(results) = Commands
  /\ \E status \in {"passed", "failed"} : results' = Append(results, status)
  /\ at' = "over"
  /\ UNCHANGED <<configured, runs, retrying>>

Next ==
  \/ Begin \/ Spawn \/ FailSpawn \/ Terminate \/ Close \/ Skip \/ CheckPreview
  \/ \E i \in 1..Current : ExitShell(i) \/ ExitChild(i) \/ Kill(i) \/ Deny(i)

\* Timers fire, closed commands are noticed, and fetch has limits of its own.
Fairness ==
  /\ WF_checksVars(Spawn) /\ WF_checksVars(Terminate) /\ WF_checksVars(Close)
  /\ WF_checksVars(Skip) /\ WF_checksVars(CheckPreview)
  /\ WF_checksVars(\E i \in 1..Current : Kill(i))

ChecksSpec == Init /\ [][Next]_checksVars /\ Fairness
-----------------------------------------------------------------------------
Ok == at = "over" /\ \A i \in 1..Len(results) : results[i] = "passed"

\* Once the timer of a command is done with it, nobody of its group is alive, also when the
\* shell heeded the first signal, the command was answered and the next one runs already.
TimedOutGroupIsGone == \A i \in 1..Current : runs[i].ended \in {"killed", "noneLeft"} => ~Grouped(i)

\* The output of a command that was answered is whole: nobody is left who could add to it,
\* and a failed extraction that was reported late is not overlooked.
OutputIsWhole == \A i \in 1..Current : i < Current \/ at \in {"between", "over"} => ~Written(i)

\* What passes the validation ran every command, and the last run of each of them is what
\* its status tells of.
PassesAreOfTheLastRun ==
  /\ Ok => configured = {Labels[i] : i \in 1..Commands}
  /\ \A k \in 1..Len(results) : k <= Commands /\ Labels[k] \in configured =>
       \E i \in 1..Current :
         /\ runs[i].of = k /\ \A j \in 1..Current : runs[j].of = k => j <= i
         /\ results[k] = "passed" <=> runs[i].shell = "ok"

\* A command ends, whatever it started, unless that left the group and holds its pipes.
ValidationEnds ==
  at \in {"running", "between"} ~>
    \/ at \in {"over", "rejected"}
    \/ at = "running" /\ runs[Current].child = "apart" /\ runs[Current].writes
-----------------------------------------------------------------------------
(***************************************************************************)
(* What the proofs rest on.                                                *)
(***************************************************************************)
Runs ==
  [of : Nat, shell : {"alive", "ok", "failed"}, child : {"none", "grouped", "apart"}, parent : BOOLEAN,
   writes : BOOLEAN, ended : {"no", "terminated", "killed", "noneLeft", "denied"}]

Domains ==
  /\ configured \subseteq {Labels[i] : i \in 1..Commands}
  /\ results \in Seq({"passed", "failed", "skipped"})
  /\ at \in {"idle", "between", "running", "rejected", "over"}
  /\ runs \in Seq(Runs)
  /\ retrying \in BOOLEAN

\* One command runs at a time, for the check whose result is the next.
RunsAreInTurn ==
  /\ at = "idle" => results = <<>> /\ runs = <<>>
  /\ at \in {"between", "running"} => Len(results) <= Commands
  /\ at = "running" =>
       /\ Current > 0 /\ runs[Current].of = Len(results) + 1
       /\ Len(results) < Commands /\ Check \in configured
  /\ \A i \in 1..Current : runs[i].of <= Len(results) + 1
  /\ \A i \in 1..Current : runs[i].of <= Len(results) => runs[i].shell # "alive"

\* A check without a command is the only one that is skipped.
ResultsAreOfTheChecks ==
  /\ at = "over" => Len(results) = Commands + 1
  /\ \A k \in 1..Len(results) : k <= Commands /\ results[k] # "skipped" => Labels[k] \in configured
  /\ \A k \in 1..Len(results) : k <= Commands /\ Labels[k] \in configured =>
       \E i \in 1..Current :
         /\ runs[i].of = k /\ \A j \in 1..Current : runs[j].of = k => j <= i
         /\ results[k] = "passed" <=> runs[i].shell = "ok"

\* What may become of a command that was started, by itself or by its timer.
Ages(run, older) ==
  /\ older \in Runs
  /\ older.of = run.of /\ older.writes = run.writes
  /\ run.shell # "alive" => older.shell = run.shell
  /\ older.child \in {run.child, "none"}
  /\ older.ended \in {"killed", "noneLeft"} => older.shell # "alive" /\ older.child # "grouped"
=============================================================================
