------------------------------ MODULE PromptTurn ------------------------------
(***************************************************************************)
(* The turns of one session on the agent: PromptRunner, the screenshots of  *)
(* PromptAttachmentDownloader, and CodexHarnessAdapter with its process and *)
(* its queue of events.  Prompts take no lock: two turns of a session may   *)
(* overlap, and share the harness, its temporary directory and the          *)
(* directory of the screenshots.                                            *)
(***************************************************************************)
EXTENDS Naturals, Sequences

CONSTANTS
  Prompts, None,
  MaxMessages,  \* bound: messages the harness writes in a run
  MaxRepairs    \* MAX_VALIDATION_REPAIR_ATTEMPTS

VARIABLES
  stage,      \* per prompt: where its turn is
  repairs,    \* per prompt: repairs asked for
  active,     \* activeRuns of the session: the prompt whose process it is
  process,    \* per prompt: "none", "runs" or "exited", with its pipes open still
  killed,     \* prompts whose process was sent a signal
  message,    \* per prompt: pendingCodexMessage
  queue,      \* per prompt: AgentHarnessEventQueue's values
  pushed,     \* per prompt: events pushed in this run
  taken,      \* per prompt: the events of this run that were published, in order
  end,        \* per prompt: the queue is "open", "closed" or "failed"
  temporary,  \* the harness's temporary directory exists
  shots,      \* the directory of the screenshots: "none", "there", or "left" by an rm that failed
  late        \* prompts with a download that goes on after another failed

turnVars == <<stage, repairs>>
runVars == <<active, process, killed, message, queue, pushed, taken, end, temporary>>
fileVars == <<shots, late>>
vars == <<turnVars, runVars, fileVars>>

Init ==
  /\ stage = [p \in Prompts |-> "idle"]
  /\ repairs = [p \in Prompts |-> 0]
  /\ active = None
  /\ process = [p \in Prompts |-> "none"]
  /\ killed = {}
  /\ message = [p \in Prompts |-> FALSE]
  /\ queue = [p \in Prompts |-> <<>>]
  /\ pushed = [p \in Prompts |-> 0]
  /\ taken = [p \in Prompts |-> <<>>]
  /\ end = [p \in Prompts |-> "closed"]
  /\ temporary = FALSE
  /\ shots = "none"
  /\ late = {}

At(p, where) == stage[p] = where
To(p, where) == stage' = [stage EXCEPT ![p] = where]

\* cleanup: the directory is removed, unless rm fails, as when a download that goes on
\* writes into it meanwhile.
Removed == shots' = "none"
RemovalFails == shots # "none" /\ shots' = "left"
-----------------------------------------------------------------------------
(***************************************************************************)
(* Before the harness: the worktree's fingerprint and the screenshots.     *)
(***************************************************************************)
\* AGENT_RUNNING is published and the fingerprint taken, unless one of them fails.
Begin(p) ==
  /\ At(p, "idle")
  /\ \/ To(p, "download") \/ To(p, "ended")
  /\ UNCHANGED <<repairs, runVars, fileVars>>

\* What an earlier turn left is removed; without screenshots that is all.  A failure
\* ends the turn.
ClearScreenshots(p) ==
  /\ At(p, "download")
  /\ \/ Removed /\ (To(p, "mkdir") \/ To(p, "harness"))
     \/ RemovalFails /\ To(p, "ended")
  /\ UNCHANGED <<repairs, runVars, late>>

MakeDirectory(p) ==
  /\ At(p, "mkdir")
  /\ shots' = IF shots = "none" THEN "there" ELSE shots
  /\ To(p, "fetch")
  /\ UNCHANGED <<repairs, runVars, late>>

\* A file is written into the directory, which another turn may have removed.
Fetch(p) ==
  /\ At(p, "fetch")
  /\ IF shots # "none" THEN To(p, "harness") ELSE To(p, "undo")
  /\ UNCHANGED <<repairs, runVars, fileVars>>

\* Promise.all rejects with the first failure; the other downloads go on.
FetchFails(p) ==
  /\ At(p, "fetch")
  /\ late' \in {late, late \cup {p}}
  /\ To(p, "undo")
  /\ UNCHANGED <<repairs, runVars, shots>>

\* A download that goes on writes into a directory that is there, or fails.
LateFile(p) ==
  /\ p \in late
  /\ late' = late \ {p}
  /\ shots' = shots
  /\ UNCHANGED <<turnVars, runVars>>

UndoDownload(p) ==
  /\ At(p, "undo")
  /\ Removed \/ RemovalFails
  /\ To(p, "ended")
  /\ UNCHANGED <<repairs, runVars, late>>
-----------------------------------------------------------------------------
(***************************************************************************)
(* The harness.                                                            *)
(***************************************************************************)
\* runPrompt: one run per session at a time; another is refused.
Refuse(p) ==
  /\ At(p, "harness") /\ active # None
  /\ To(p, "interrupted")
  /\ UNCHANGED <<repairs, runVars, fileVars>>

Spawn(p) ==
  /\ At(p, "harness") /\ active = None
  /\ active' = p
  /\ temporary' = TRUE
  /\ process' = [process EXCEPT ![p] = "runs"]
  /\ killed' = killed \ {p}
  /\ message' = [message EXCEPT ![p] = FALSE]
  /\ queue' = [queue EXCEPT ![p] = <<>>]
  /\ pushed' = [pushed EXCEPT ![p] = 0]
  /\ taken' = [taken EXCEPT ![p] = <<>>]
  /\ end' = [end EXCEPT ![p] = "open"]
  /\ To(p, "reading")
  /\ UNCHANGED <<repairs, fileVars>>

\* The command cannot be run: the queue fails.
SpawnFails(p) ==
  /\ process[p] = "runs" /\ pushed[p] = 0
  /\ process' = [process EXCEPT ![p] = "none"]
  /\ active' = None
  /\ temporary' = FALSE
  /\ end' = [end EXCEPT ![p] = "failed"]
  /\ UNCHANGED <<turnVars, killed, message, queue, pushed, taken, fileVars>>

\* A line with a message of the agent: shown at once, and kept for the end.
Message(p) ==
  /\ process[p] = "runs" /\ pushed[p] < MaxMessages
  /\ queue' = [queue EXCEPT ![p] = Append(@, "progress")]
  /\ pushed' = [pushed EXCEPT ![p] = @ + 1]
  /\ message' = [message EXCEPT ![p] = TRUE]
  /\ UNCHANGED <<turnVars, active, process, killed, taken, end, temporary, fileVars>>

\* External: the process ends; the pipes close when those it started end as well.
Exit(p) ==
  /\ process[p] = "runs"
  /\ process' = [process EXCEPT ![p] = "exited"]
  /\ UNCHANGED <<turnVars, active, killed, message, queue, pushed, taken, end, temporary, fileVars>>

\* finish: the last message again, as final if the exit code is 0, then done.
Close(p) ==
  /\ process[p] = "exited"
  /\ \E last \in IF p \in killed THEN {"progress"} ELSE {"final", "progress"} :
       LET words == IF message[p] THEN <<last, "done">> ELSE <<"done">> IN
       /\ queue' = [queue EXCEPT ![p] = @ \o words]
       /\ pushed' = [pushed EXCEPT ![p] = @ + Len(words)]
  /\ process' = [process EXCEPT ![p] = "none"]
  /\ message' = [message EXCEPT ![p] = FALSE]
  /\ active' = None
  /\ temporary' = FALSE
  /\ end' = [end EXCEPT ![p] = "closed"]
  /\ UNCHANGED <<turnVars, killed, taken, fileVars>>

\* The next event is taken and published; publishing may fail.
Read(p) ==
  /\ At(p, "reading") /\ queue[p] # <<>>
  /\ queue' = [queue EXCEPT ![p] = Tail(@)]
  /\ taken' = [taken EXCEPT ![p] = Append(@, Head(queue[p]))]
  /\ To(p, "reading") \/ To(p, "interrupted")
  /\ UNCHANGED <<repairs, active, process, killed, message, pushed, end, temporary, fileVars>>

\* A queue that was closed or failed gives its values first.
ReadEnd(p) ==
  /\ At(p, "reading") /\ queue[p] = <<>> /\ end[p] # "open"
  /\ To(p, IF end[p] = "failed" THEN "interrupted" ELSE "ran")
  /\ UNCHANGED <<repairs, runVars, fileVars>>

\* Mutant of CancelRun: the session is free before the process has ended.
CancelRunAndForget ==
  /\ killed' = IF active = None THEN killed ELSE killed \cup {active}
  /\ active' = None

\* cancel: SIGTERM, and SIGKILL a second later, to whatever run the session has.
CancelRun ==
  /\ killed' = IF active # None /\ process[active] = "runs" THEN killed \cup {active} ELSE killed
  /\ active' = active

\* A turn that was refused or interrupted cancels the session's run: its own, or
\* that of the turn that got there first.
Interrupt(p) ==
  /\ At(p, "interrupted")
  /\ CancelRun
  /\ To(p, "cleanup")
  /\ UNCHANGED <<repairs, process, message, queue, pushed, taken, end, temporary, fileVars>>

\* agent.cancel.
Cancel ==
  /\ active # None
  /\ CancelRun
  /\ UNCHANGED <<turnVars, process, message, queue, pushed, taken, end, temporary, fileVars>>
-----------------------------------------------------------------------------
(***************************************************************************)
(* After the harness: fingerprint, checks, repairs.                        *)
(***************************************************************************)
\* A run that failed ends the turn; without changes there is nothing to check, and a
\* repair that changed nothing ends the repairs.
Ran(p) ==
  /\ At(p, "ran")
  /\ \/ To(p, "cleanup")
     \/ To(p, "checks") /\ p \notin killed
     \/ To(p, "answer") /\ repairs[p] > 0 /\ p \notin killed
  /\ UNCHANGED <<repairs, runVars, fileVars>>

\* build, test and lint, one after the other, once more after a failed extraction of
\* packages; a failure is given back to the harness, a limited number of times.
Checks(p) ==
  /\ At(p, "checks")
  /\ \/ To(p, "answer") /\ repairs' = repairs
     \/ To(p, "cleanup") /\ repairs' = repairs
     \/ /\ repairs[p] < MaxRepairs
        /\ repairs' = [repairs EXCEPT ![p] = @ + 1]
        /\ To(p, "harness")
  /\ UNCHANGED <<runVars, fileVars>>

\* git.diff and checks.result are published.
Answer(p) ==
  /\ At(p, "answer")
  /\ To(p, "cleanup")
  /\ UNCHANGED <<repairs, runVars, fileVars>>

\* finally: the screenshots are removed, however the turn ended; that rm failed is logged.
Cleanup(p) ==
  /\ At(p, "cleanup")
  /\ Removed \/ RemovalFails
  /\ To(p, "ended")
  /\ UNCHANGED <<repairs, runVars, late>>

Progress(p) ==
  \/ ClearScreenshots(p) \/ MakeDirectory(p) \/ Fetch(p) \/ FetchFails(p) \/ UndoDownload(p)
  \/ Refuse(p) \/ Spawn(p) \/ Read(p) \/ ReadEnd(p) \/ Interrupt(p)
  \/ Ran(p) \/ Checks(p) \/ Answer(p) \/ Cleanup(p)

Run(p) == Exit(p) \/ Close(p)

Next ==
  \/ \E p \in Prompts :
       Begin(p) \/ Progress(p) \/ Run(p) \/ LateFile(p) \/ SpawnFails(p) \/ Message(p)
  \/ Cancel

\* The agent's steps are taken, and the harness's process ends, with those it started.
Fairness == \A p \in Prompts : WF_vars(Progress(p)) /\ WF_vars(Run(p))

Spec == Init /\ [][Next]_vars /\ Fairness
-----------------------------------------------------------------------------
\* A session never has two harness processes, and one that runs has its temporary
\* directory: the end of a run, also of one that was cancelled a while ago, takes
\* away its own directory and no other's (CodexHarnessAdapter.runPrompt).
RunsAreAlone ==
  \A p \in Prompts : process[p] # "none" =>
    active = p /\ temporary /\ \A q \in Prompts \ {p} : process[q] = "none"

\* A turn goes on only after every event of its run was published, in order, and the
\* last of them was done (AgentHarnessEventQueue).
RunsAreReadWhole ==
  \A p \in Prompts : At(p, "ran") =>
    Len(taken[p]) = pushed[p] /\ taken[p][Len(taken[p])] = "done"

\* When no turn is under way no screenshot of the session is on the disk, although turns
\* overlap, fail halfway and leave downloads behind, unless rm failed and none has
\* succeeded since (PromptAttachmentDownloader).
ScreenshotsAreRemoved ==
  (\A p \in Prompts : stage[p] \in {"idle", "ended"}) => shots # "there"

\* A turn ends, also one that another turn's refusal has cancelled.
TurnsEnd == \A p \in Prompts : stage[p] = "download" ~> stage[p] = "ended"
-----------------------------------------------------------------------------
(***************************************************************************)
(* What the proofs rest on.                                                *)
(***************************************************************************)
Stages ==
  {"idle", "download", "mkdir", "fetch", "undo", "harness", "interrupted", "reading", "ran", "checks", "answer",
   "cleanup", "ended"}
Events == {"progress", "final", "done"}

Domains ==
  /\ stage \in [Prompts -> Stages]
  /\ process \in [Prompts -> {"none", "runs", "exited"}]
  /\ message \in [Prompts -> BOOLEAN]
  /\ queue \in [Prompts -> Seq(Events)]
  /\ taken \in [Prompts -> Seq(Events)]
  /\ pushed \in [Prompts -> Nat]
  /\ end \in [Prompts -> {"open", "closed", "failed"}]

\* A queue is open as long as its process runs, and everything pushed is in it or was taken.
QueuesAreKept ==
  \A p \in Prompts :
    /\ end[p] = "open" <=> process[p] # "none"
    /\ Len(taken[p]) + Len(queue[p]) = pushed[p]

\* The last event of a run that closed, taken or not, is its end.
ClosedRunsAreDone ==
  \A p \in Prompts :
    /\ stage[p] = "reading" /\ end[p] = "closed" => pushed[p] > 0
    /\ stage[p] = "ran" => pushed[p] > 0 /\ end[p] = "closed" /\ queue[p] = <<>>
    /\ end[p] = "closed" /\ pushed[p] > 0 =>
         IF queue[p] = <<>> THEN taken[p][Len(taken[p])] = "done" ELSE queue[p][Len(queue[p])] = "done"

\* While a directory of screenshots is there, some turn has still to try to remove it.
SomebodyCleansUp == shots = "there" => \E p \in Prompts : stage[p] \notin {"idle", "ended"}
=============================================================================
