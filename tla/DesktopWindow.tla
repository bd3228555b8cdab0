----------------------------- MODULE DesktopWindow -----------------------------
(***************************************************************************)
(* The window of the desktop application (use-desktop-agent.ts): it reads  *)
(* the manager's snapshot every two seconds, in up to three calls of which *)
(* the later ones change it, and runs one action of the user at a time,    *)
(* after which it reads again.  A read that was replaced goes on, and      *)
(* publishes what it is told.                                              *)
(***************************************************************************)
EXTENDS Naturals, Sequences

CONSTANTS
  None,
  LinkedRepositories,
  Readers,      \* bound: the reads of the query that may be under way at once
  MaxChanges    \* bound: how often the manager's state changes

VARIABLES
  manager,    \* the manager's state: its age, and what a read of it asks for next
  reads,      \* per read, the action's own among them: the call it waits for, and its first snapshot
  query,    \* the read whose result the query takes, or None
  replies,    \* the manager's answers, on their way in order
  shown,      \* the snapshot the window shows, or None
  action,     \* the user's action: what it is, how far, the read it waits for
  failures,   \* the projects whose check is shown as failed
  lastCheck,    \* per project: how its last check ended
  done        \* the age of the manager's state when the last action the window caught up with ended

windowVars == <<manager, reads, query, replies, shown, action, failures, lastCheck, done>>

Idle == [call |-> None, answered |-> FALSE, first |-> None]
Resting == [kind |-> None, at |-> None, awaits |-> None, ok |-> TRUE, age |-> 0]

\* The snapshots: pairing, or connected without its tools checked.
Needs == SUBSET {"poll", "tools"}

Init ==
  /\ manager \in [age : {0}, needs : Needs]
  /\ reads = [r \in Readers \cup {"profile"} |-> Idle]
  /\ query = None
  /\ replies = <<>>
  /\ shown = None
  /\ action = Resting
  /\ failures = {}
  /\ lastCheck = [p \in LinkedRepositories |-> None]
  /\ done = 0

Free(r) == reads[r].call = None
-----------------------------------------------------------------------------
(***************************************************************************)
(* DesktopAgentManager, as the window sees it.                             *)
(***************************************************************************)
MayChange ==
  \/ manager' = manager
  \/ manager.age < MaxChanges /\ \E needs \in Needs : manager' = [age |-> manager.age + 1, needs |-> needs]

Change ==
  /\ MayChange /\ manager' # manager
  /\ UNCHANGED <<reads, query, replies, shown, action, failures, lastCheck, done>>

Reply(to, ok) == Append(replies, [to |-> to, ok |-> ok, with |-> manager'])

\* getSnapshot is answered as things are; a poll or a check of the tools may change them,
\* and may fail.
Serve(r) ==
  /\ ~Free(r) /\ ~reads[r].answered
  /\ \/ reads[r].call = "snapshot" /\ manager' = manager /\ replies' = Reply(r, TRUE)
     \/ reads[r].call # "snapshot" /\ MayChange /\ \E ok \in BOOLEAN : replies' = Reply(r, ok)
  /\ reads' = [reads EXCEPT ![r].answered = TRUE]
  /\ UNCHANGED <<query, shown, action, failures, lastCheck, done>>

ServeAction ==
  /\ action.at = "sent"
  /\ MayChange
  /\ \E ok \in BOOLEAN : replies' = Reply("action", ok)
  /\ action' = [action EXCEPT !.at = "answered"]
  /\ UNCHANGED <<reads, query, shown, failures, lastCheck, done>>
-----------------------------------------------------------------------------
(***************************************************************************)
(* readDesktopSnapshot.                                                    *)
(***************************************************************************)
Begun(r) == reads' = [reads EXCEPT ![r] = [call |-> "snapshot", answered |-> FALSE, first |-> None]]

\* Every two seconds, unless a read is under way.
StartRead(r) ==
  /\ query = None /\ Free(r)
  /\ Begun(r) /\ query' = r
  /\ UNCHANGED <<manager, replies, shown, action, failures, lastCheck, done>>

Follows(after, s) ==
  IF "poll" \in s.needs /\ after = "snapshot" THEN "poll"
  ELSE IF "tools" \in s.needs /\ after # "tools" THEN "tools" ELSE None

Result(r, s) == s

\* A snapshot is published as it comes, by whichever read; the last one, the result, only
\* by the query's own.
Receive(r) ==
  /\ replies # <<>> /\ Head(replies).to = r
  /\ LET answer == Head(replies)
         s == answer.with
         next == IF answer.ok THEN Follows(reads[r].call, s) ELSE None
     IN  /\ reads' = [reads EXCEPT ![r] = IF next = None THEN Idle ELSE
                        [call |-> next, answered |-> FALSE, first |-> IF @.first = None THEN s ELSE @.first]]
         /\ query' = IF query = r /\ next = None THEN None ELSE query
         /\ shown' = IF answer.ok /\ next = None /\ query = r THEN Result(r, s)
                     ELSE IF answer.ok /\ reads[r].call # "tools" THEN s ELSE shown
         /\ action' = IF action.awaits = r /\ next = None
                        THEN [action EXCEPT !.awaits = IF answer.ok THEN "told" ELSE "failed"] ELSE action
  /\ replies' = Tail(replies)
  /\ UNCHANGED <<manager, failures, lastCheck, done>>
-----------------------------------------------------------------------------
(***************************************************************************)
(* The actions.                                                            *)
(***************************************************************************)
Run(kind) ==
  /\ action.at = None
  /\ action' = [kind |-> kind, at |-> "sent", awaits |-> None, ok |-> TRUE, age |-> 0]
  /\ UNCHANGED <<manager, reads, query, replies, shown, failures, lastCheck, done>>

\* Start, stop, the tools, a folder, a project, the pairing: one call to the manager, or a
\* few, and the first that fails ends them.
Act == shown # None /\ Run("act")

Check(p) == shown # None /\ Run(p)

\* The profile could not be loaded: it is initialized and read, as part of the action.
RetryInitialization == shown # None /\ shown.needs = {} /\ Run("initialize")

Answered ==
  /\ replies # <<>> /\ Head(replies).to = "action"
  /\ replies' = Tail(replies)

\* Where the action has read the profile after it initialized it.
ReadProfile ==
  /\ Answered /\ Head(replies).ok /\ action.kind = "initialize"
  /\ Begun("profile")
  /\ action' = [action EXCEPT !.at = "reading", !.awaits = "profile"]
  /\ UNCHANGED <<manager, query, shown, failures, lastCheck, done>>

\* onError.
Ended(ok, age) ==
  /\ failures' = IF ~ok /\ action.kind \in LinkedRepositories THEN failures \cup {action.kind} ELSE failures
  /\ lastCheck' = IF action.kind \in LinkedRepositories
                  THEN [lastCheck EXCEPT ![action.kind] = IF ok THEN "ok" ELSE "failed"] ELSE lastCheck
  /\ action' = [action EXCEPT !.at = "settling", !.awaits = None, !.ok = ok, !.age = age]

EndCall ==
  /\ Answered
  /\ ~(Head(replies).ok /\ action.kind = "initialize")
  /\ Ended(Head(replies).ok, Head(replies).with.age)
  /\ UNCHANGED <<manager, reads, query, shown, done>>

EndProfile ==
  /\ action.at = "reading" /\ action.awaits \in {"told", "failed"}
  /\ Ended(action.awaits = "told", shown.age)
  /\ UNCHANGED <<manager, reads, query, replies, shown, done>>

\* onSettled: a new read takes the place of the one under way.
Invalidate(r) ==
  /\ action.at = "settling" /\ action.awaits = None
  /\ Free(r) /\ Begun(r) /\ query' = r
  /\ action' = [action EXCEPT !.awaits = r]
  /\ UNCHANGED <<manager, replies, shown, failures, lastCheck, done>>

Cleared == IF action.ok THEN failures \ {action.kind} ELSE failures

\* Mutant of Settle: the action is over once the new read has begun.
SettleUnread ==
  /\ action.at = "settling" /\ action.awaits # None
  /\ failures' = Cleared
  /\ done' = action.age
  /\ action' = Resting
  /\ UNCHANGED <<manager, reads, query, replies, shown, lastCheck>>

Settle ==
  /\ action.at = "settling" /\ action.awaits \in {"told", "failed"}
  /\ failures' = Cleared
  /\ done' = IF action.awaits = "told" THEN action.age ELSE done
  /\ action' = Resting
  /\ UNCHANGED <<manager, reads, query, replies, shown, lastCheck>>

Next ==
  \/ Change \/ ServeAction \/ Act \/ RetryInitialization \/ ReadProfile \/ EndCall \/ EndProfile \/ Settle
  \/ \E p \in LinkedRepositories : Check(p)
  \/ \E r \in Readers : StartRead(r) \/ Invalidate(r)
  \/ \E r \in Readers \cup {"profile"} : Serve(r) \/ Receive(r)

\* The manager answers what it is asked, answers arrive, and code that awaits them goes on.
Fairness ==
  /\ \A r \in Readers \cup {"profile"} : WF_windowVars(Serve(r)) /\ WF_windowVars(Receive(r))
  /\ WF_windowVars(ServeAction) /\ WF_windowVars(EndCall) /\ WF_windowVars(EndProfile) /\ WF_windowVars(Settle)
  /\ WF_windowVars(ReadProfile) /\ WF_windowVars(\E r \in Readers : Invalidate(r))

WindowSpec == Init /\ [][Next]_windowVars /\ Fairness
-----------------------------------------------------------------------------
\* What the window shows never goes back to an older state of the manager, although reads
\* that were replaced still publish, and a read goes on for minutes.
ShownStep == shown # None => shown' # None /\ shown'.age >= shown.age

\* An action that is over is one whose effect the window shows, unless it could not read it.
ActionsAreShown == done > 0 => shown.age >= done

\* The project's check is shown as failed if and only if its last one failed.
FailuresAreOfTheLastCheck ==
  \A p \in LinkedRepositories : action.kind # p => (p \in failures <=> lastCheck[p] = "failed")

\* An action of the user ends, so that the next one is heard.
ActionsEnd == action.at # None ~> action.at = None
-----------------------------------------------------------------------------
(***************************************************************************)
(* What the proofs rest on.                                                *)
(***************************************************************************)
AllReads == Readers \cup {"profile"}
Snapshots == [age : Nat, needs : Needs]
ReadStates ==
  [call : {None, "snapshot", "poll", "tools"}, answered : BOOLEAN, first : {None} \cup Snapshots]
Replies == [to : AllReads \cup {"action"}, ok : BOOLEAN, with : Snapshots]
Actions ==
  [kind : {None, "act", "initialize"} \cup LinkedRepositories, at : {None, "sent", "answered", "reading", "settling"},
   awaits : {None, "told", "failed"} \cup AllReads, ok : BOOLEAN, age : Nat]

Domains ==
  /\ manager \in Snapshots
  /\ reads \in [AllReads -> ReadStates]
  /\ query \in {None} \cup Readers
  /\ replies \in Seq(Replies)
  /\ shown \in {None} \cup Snapshots
  /\ action \in Actions
  /\ lastCheck \in [LinkedRepositories -> {None, "ok", "failed"}]
  /\ done \in Nat

\* Answers arrive in the order of the manager's states, none older than what is shown.
AnswersAreInOrder ==
  /\ \A i \in DOMAIN replies :
       /\ replies[i].with.age <= manager.age
       /\ shown # None => shown.age <= replies[i].with.age
       /\ \A j \in DOMAIN replies : i < j => replies[i].with.age <= replies[j].with.age
  /\ shown # None => shown.age <= manager.age

\* There is one answer at most to each call, and it is still waited for.
CallsAreAnsweredOnce ==
  /\ \A i, j \in DOMAIN replies : replies[i].to = replies[j].to => i = j
  /\ \A i \in DOMAIN replies : IF replies[i].to = "action" THEN action.at = "answered" ELSE reads[replies[i].to].answered
  /\ \A r \in AllReads : Free(r) => ~reads[r].answered
  /\ ~Free("profile") => action.at = "reading" /\ action.awaits = "profile"
  /\ \A r \in AllReads : reads[r].call \in {"poll", "tools"} => reads[r].first # None

\* The read that settles an action tells of nothing older than the action's effect, and
\* its first answer is shown.
Settling(a) == a.at = "settling"
EffectIsRead ==
  /\ action.at # None => shown # None
  /\ Settling(action) => action.age <= manager.age
  /\ Settling(action) /\ action.awaits = "told" => shown.age >= action.age
  /\ \A r \in Readers : Settling(action) /\ action.awaits = r =>
       /\ ~Free(r)
       /\ \A i \in DOMAIN replies : replies[i].to = r => replies[i].with.age >= action.age
       /\ reads[r].first # None => shown.age >= action.age
  /\ done > 0 => shown # None /\ shown.age >= done

\* Until an action is settled only its own project's check may be shown as it was.
ChecksAreShown ==
  /\ \A p \in LinkedRepositories :
       (p \in failures <=> lastCheck[p] = "failed") \/ (Settling(action) /\ action.kind = p)
  /\ Settling(action) /\ action.kind \in LinkedRepositories =>
       /\ lastCheck[action.kind] = IF action.ok THEN "ok" ELSE "failed"
       /\ ~action.ok => action.kind \in failures
=============================================================================
