--------------------------- MODULE DeveloperProjects ---------------------------
(***************************************************************************)
(* The developer's list of projects on the web page: the queries and       *)
(* mutations of useDeveloperProjects, the readiness check that waits for   *)
(* its result (requestProjectReadiness), and the creation a hand-over from *)
(* the desktop application opens (DeveloperHomePage).  Requests are read   *)
(* by the API at one moment and answered at a later one, in any order.     *)
(***************************************************************************)
EXTENDS Naturals, Sequences

CONSTANTS
  None,
  Unread,      \* a request the API has not read
  Existing,    \* the project there is
  Second,      \* the project that is created, whose folder was handed over
  Handled,     \* bound: the projects that are checked and updated
  MaxReports,  \* bound: readiness results of a project
  MaxEdits     \* bound: updates of a project

VARIABLES
  exists,      \* the projects in the database
  readiness,   \* the last readiness result of each, by its updatedAt
  metadata,    \* the version of each project's metadata
  shownList,   \* the query's data
  listRead,    \* the query's request: None, Unread, or what the API read for it
  check,       \* per project, its readiness request
  update,      \* per project, the mutation that updates it
  creation,    \* the mutation that creates Second
  dismissed,   \* dismissedHandoff
  told,        \* the newest result a check has waited for
  mixed        \* projects whose entry an answer older than their result may be

projectListVars ==
  <<exists, readiness, metadata, shownList, listRead, check, update, creation, dismissed, told, mixed>>

Projects == {Existing, Second}
Idle == [at |-> "idle", result |-> 0]

Init ==
  /\ exists = {Existing}
  /\ readiness = [p \in Projects |-> 0]
  /\ metadata = [p \in Projects |-> 0]
  /\ shownList = None
  /\ listRead = None
  /\ check = [p \in Projects |-> Idle]
  /\ update = [p \in Projects |-> None]
  /\ creation = "idle"
  /\ dismissed = FALSE
  /\ told = [p \in Projects |-> 0]
  /\ mixed = {}

Summary(p) == [id |-> p, readiness |-> readiness[p], metadata |-> metadata[p]]
Listed(p) == shownList # None /\ \E i \in DOMAIN shownList : shownList[i].id = p
With(list, p, entry) ==
  IF list = None THEN None ELSE [i \in DOMAIN list |-> IF list[i].id = p THEN entry ELSE list[i]]
WithReadiness(list, p, result) ==
  IF list = None THEN None
  ELSE [i \in DOMAIN list |-> IF list[i].id = p THEN [list[i] EXCEPT !.readiness = result] ELSE list[i]]
-----------------------------------------------------------------------------
(***************************************************************************)
(* projectsQuery: read when the page mounts or is looked at again.         *)
(***************************************************************************)
AskList ==
  /\ listRead = None
  /\ listRead' = Unread
  /\ UNCHANGED <<exists, readiness, metadata, shownList, check, update, creation, dismissed, told, mixed>>

\* listDeveloperProjects.
ServeList ==
  /\ listRead = Unread
  /\ listRead' = <<Summary(Existing)>> \o (IF Second \in exists THEN <<Summary(Second)>> ELSE <<>>)
  /\ UNCHANGED <<exists, readiness, metadata, shownList, check, update, creation, dismissed, told, mixed>>

EndList ==
  /\ listRead \notin {None, Unread}
  /\ shownList' = listRead
  /\ listRead' = None
  /\ mixed' = {p \in mixed : update[p] # None}
  /\ UNCHANGED <<exists, readiness, metadata, check, update, creation, dismissed, told>>

\* shareProjectMutation and closeSessionMutation invalidate: a request under way is given up.
Invalidate ==
  /\ shownList # None
  /\ listRead' = Unread
  /\ UNCHANGED <<exists, readiness, metadata, shownList, check, update, creation, dismissed, told, mixed>>
-----------------------------------------------------------------------------
(***************************************************************************)
(* requestReadinessMutation.                                               *)
(***************************************************************************)
\* An agent's report is written, whoever asked for it.
Report(p) ==
  /\ p \in exists \cap Handled /\ readiness[p] < MaxReports
  /\ readiness' = [readiness EXCEPT ![p] = @ + 1]
  /\ UNCHANGED <<exists, metadata, shownList, listRead, check, update, creation, dismissed, told, mixed>>

RequestReadiness(p) ==
  /\ p \in Handled /\ Listed(p) /\ check[p].at = "idle"
  /\ check' = [check EXCEPT ![p].at = "previous"]
  /\ UNCHANGED <<exists, readiness, metadata, shownList, listRead, update, creation, dismissed, told, mixed>>

\* The result there is already; then the command is sent to the agent.
ReadPrevious(p) ==
  /\ check[p].at = "previous"
  /\ check' = [check EXCEPT ![p] = [at |-> "posting", result |-> readiness[p]]]
  /\ UNCHANGED <<exists, readiness, metadata, shownList, listRead, update, creation, dismissed, told, mixed>>

RequestCheck(p) ==
  /\ check[p].at = "posting"
  /\ check' = [check EXCEPT ![p].at = "polling"]
  /\ UNCHANGED <<exists, readiness, metadata, shownList, listRead, update, creation, dismissed, told, mixed>>

\* Only a result with a later time than the previous one is taken.
Poll(p) ==
  /\ check[p].at = "polling"
  /\ readiness[p] > check[p].result
  /\ check' = [check EXCEPT ![p] = [at |-> "answered", result |-> readiness[p]]]
  /\ UNCHANGED <<exists, readiness, metadata, shownList, listRead, update, creation, dismissed, told, mixed>>

\* Mutant of Succeed: a list asked for earlier may still come.
SucceedUncancelled(p) ==
  /\ check[p].at = "answered"
  /\ shownList' = WithReadiness(shownList, p, check[p].result)
  /\ told' = [told EXCEPT ![p] = check[p].result]
  /\ mixed' = IF update[p] = None THEN mixed ELSE mixed \cup {p}
  /\ check' = [check EXCEPT ![p] = Idle]
  /\ UNCHANGED <<exists, readiness, metadata, listRead, update, creation, dismissed>>

\* onSuccess: cancelQueries, then the list's entry.
Succeed(p) ==
  /\ check[p].at = "answered"
  /\ listRead' = None
  /\ shownList' = WithReadiness(shownList, p, check[p].result)
  /\ told' = [told EXCEPT ![p] = check[p].result]
  /\ mixed' = IF update[p] = None THEN mixed ELSE mixed \cup {p}
  /\ check' = [check EXCEPT ![p] = Idle]
  /\ UNCHANGED <<exists, readiness, metadata, update, creation, dismissed>>

\* Mutant of Fail: the deadline covers the polls only.
FailWhilePolling(p) ==
  /\ check[p].at = "polling"
  /\ check' = [check EXCEPT ![p] = Idle]
  /\ UNCHANGED <<exists, readiness, metadata, shownList, listRead, update, creation, dismissed, told, mixed>>

\* A request is refused or never answered: the deadline ends them all.
Fail(p) ==
  /\ check[p].at \in {"previous", "posting", "polling"}
  /\ check' = [check EXCEPT ![p] = Idle]
  /\ UNCHANGED <<exists, readiness, metadata, shownList, listRead, update, creation, dismissed, told, mixed>>
-----------------------------------------------------------------------------
(***************************************************************************)
(* updateProjectMutation and updateExecutionDefaultsMutation: the answer   *)
(* is the whole entry, as the API read it.                                 *)
(***************************************************************************)
AskUpdate(p) ==
  /\ p \in Handled /\ Listed(p) /\ update[p] = None
  /\ metadata[p] < MaxEdits
  /\ update' = [update EXCEPT ![p] = Unread]
  /\ UNCHANGED <<exists, readiness, metadata, shownList, listRead, check, creation, dismissed, told, mixed>>

ServeUpdate(p) ==
  /\ update[p] = Unread
  /\ metadata' = [metadata EXCEPT ![p] = @ + 1]
  /\ update' = [update EXCEPT ![p] = [id |-> p, readiness |-> readiness[p], metadata |-> metadata'[p]]]
  /\ UNCHANGED <<exists, readiness, shownList, listRead, check, creation, dismissed, told, mixed>>

EndUpdate(p) ==
  /\ update[p] \notin {None, Unread}
  /\ shownList' = With(shownList, p, update[p])
  /\ update' = [update EXCEPT ![p] = None]
  /\ UNCHANGED <<exists, readiness, metadata, listRead, check, creation, dismissed, told, mixed>>
-----------------------------------------------------------------------------
(***************************************************************************)
(* The creation, which a folder handed over by the desktop opens.          *)
(***************************************************************************)
PendingHandoff == shownList # None /\ ~dismissed /\ ~Listed(Second)

AskCreate ==
  /\ PendingHandoff /\ creation = "idle"
  /\ creation' = "asked"
  /\ UNCHANGED <<exists, readiness, metadata, shownList, listRead, check, update, dismissed, told, mixed>>

ServeCreate ==
  /\ creation = "asked"
  /\ exists' = exists \cup {Second}
  /\ creation' = "served"
  /\ UNCHANGED <<readiness, metadata, shownList, listRead, check, update, dismissed, told, mixed>>

New == [id |-> Second, readiness |-> 0, metadata |-> 0]

\* The project is appended to the list, and its hand-over dismissed.  A list read
\* before its creation still replaces it; one read after holds it a first time.
EndCreate ==
  /\ creation = "served"
  /\ shownList' = IF shownList = None THEN <<New>> ELSE Append(shownList, New)
  /\ creation' = "created"
  /\ dismissed' = TRUE
  /\ mixed' = IF Listed(Second) THEN mixed \cup {Second} ELSE mixed
  /\ UNCHANGED <<exists, readiness, metadata, listRead, check, update, told>>

\* handleCloseCreation.
CloseCreation ==
  /\ PendingHandoff /\ creation = "idle"
  /\ dismissed' = TRUE
  /\ UNCHANGED <<exists, readiness, metadata, shownList, listRead, check, update, creation, told, mixed>>

Next ==
  \/ AskList \/ ServeList \/ EndList \/ Invalidate
  \/ AskCreate \/ ServeCreate \/ EndCreate \/ CloseCreation
  \/ \E p \in Projects :
       \/ Report(p) \/ RequestReadiness(p) \/ ReadPrevious(p) \/ RequestCheck(p)
       \/ Poll(p) \/ Succeed(p) \/ Fail(p)
       \/ AskUpdate(p) \/ ServeUpdate(p) \/ EndUpdate(p)

\* The deadline is the browser's own timer; the answer it beats is dropped, and one
\* that came is passed on.
Fairness == \A p \in Projects : WF_projectListVars(Fail(p)) /\ WF_projectListVars(Succeed(p))

Spec == Init /\ [][Next]_projectListVars /\ Fairness
-----------------------------------------------------------------------------
\* A readiness result the developer waited for stays on the page until a newer one: a
\* list read earlier never takes it back.  Only the answer of an update that was under
\* way at that moment may, or of the creation, until the list is read again.
ResultsStay ==
  shownList # None =>
    \A i \in DOMAIN shownList :
      LET e == shownList[i] IN e.readiness >= told[e.id] \/ e.id \in mixed

\* The folder handed over is not offered for creation once its project is created,
\* though a list read before the creation may come after it.
CreatedIsNotOfferedAgain == creation = "created" => ~PendingHandoff

\* Every check ends, with a result or an error, whichever of its requests is not answered.
ChecksEnd == \A p \in Projects : check[p].at # "idle" ~> check[p].at = "idle"
-----------------------------------------------------------------------------
(***************************************************************************)
(* What the proofs rest on.                                                *)
(***************************************************************************)
Entries == [id : Projects, readiness : Nat, metadata : Nat]
Checks == [at : {"idle", "previous", "posting", "polling", "answered"}, result : Nat]

Domains ==
  /\ exists \in SUBSET Projects /\ Existing \in exists
  /\ readiness \in [Projects -> Nat]
  /\ metadata \in [Projects -> Nat]
  /\ shownList \in {None} \cup Seq(Entries)
  /\ listRead \in {None, Unread} \cup Seq(Entries)
  /\ check \in [Projects -> Checks]
  /\ update \in [Projects -> {None, Unread} \cup Entries]
  /\ told \in [Projects -> Nat]

\* What was told is not newer than the result, and no answer on its way is older, unless
\* it is of an update.
AnswersAreFresh ==
  /\ \A p \in Projects : told[p] <= readiness[p] /\ (check[p].at = "answered" => check[p].result <= readiness[p])
  /\ listRead \notin {None, Unread} => \A i \in DOMAIN listRead : listRead[i].readiness >= told[listRead[i].id]
  /\ \A p \in Projects : update[p] \notin {None, Unread} =>
       update[p].id = p /\ (update[p].readiness >= told[p] \/ p \in mixed)
  /\ ResultsStay

\* Before its creation is answered the second project is checked only where it is listed,
\* and a list on its way has it then.
SecondIsListed ==
  /\ listRead \notin {None, Unread} /\ (\E i \in DOMAIN listRead : listRead[i].id = Second) => Second \in exists
  /\ creation # "created" =>
       /\ check[Second].at # "idle" \/ told[Second] # 0 => Listed(Second)
       /\ Listed(Second) => Second \in exists
       /\ Listed(Second) /\ listRead \notin {None, Unread} => \E i \in DOMAIN listRead : listRead[i].id = Second
  /\ creation = "created" => dismissed
=============================================================================
