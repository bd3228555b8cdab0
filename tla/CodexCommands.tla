----------------------------- MODULE CodexCommands -----------------------------
(***************************************************************************)
(* The Codex processes of the desktop application (desktop-tools.ts): the  *)
(* login, a bounded command that can be cancelled, and the discovery of    *)
(* the models, a conversation with codex app-server.  Each is a launcher   *)
(* and the native program it starts, in a process group of their own.      *)
(***************************************************************************)
EXTENDS Naturals, Sequences, FiniteSets

CONSTANTS
  None,
  Cursors,   \* where a further page of the catalog may begin
  MaxPages   \* MAX_CATALOG_PAGES

VARIABLES
  codex,     \* per command: its launcher and native program, as the system has them
  reading,   \* the commands whose output is still read
  ending,    \* per command: None, or how finish or stop decided it ends
  outcome,   \* per command: None, or how its promise was settled
  requestId,
  pageCursors,  \* the cursors that were asked for
  answers,   \* what app-server wrote and the application has not read, in order
  read       \* the pages read: the cursor of each, and whether it named a further one

codexVars == <<codex, reading, ending, outcome, requestId, pageCursors, answers, read>>
catalogVars == <<requestId, pageCursors, answers, read>>

Commands == {"login", "models"}
First == "first"   \* the page asked for without a cursor
Dead == [launcher |-> "none", native |-> FALSE]

Init ==
  /\ codex = [c \in Commands |-> Dead]
  /\ reading = {}
  /\ ending = [c \in Commands |-> None]
  /\ outcome = [c \in Commands |-> None]
  /\ requestId = 0
  /\ pageCursors = {}
  /\ answers = <<>>
  /\ read = <<>>

Started(c) == codex[c].launcher # "none"
\* The process has not been seen to close.
Open(c) == Started(c) /\ outcome[c] = None

Spawn(c) ==
  /\ ~Started(c) /\ outcome[c] = None
  /\ codex' = [codex EXCEPT ![c] = [launcher |-> "alive", native |-> TRUE]]
  /\ reading' = reading \cup {c}
  /\ requestId' = IF c = "models" THEN 1 ELSE requestId
  /\ UNCHANGED <<ending, outcome, pageCursors, answers, read>>

\* No Codex is installed, or the one found cannot be started.
FailSpawn(c) ==
  /\ ~Started(c) /\ outcome[c] = None
  /\ outcome' = [outcome EXCEPT ![c] = "rejected"]
  /\ UNCHANGED <<codex, reading, ending, catalogVars>>
-----------------------------------------------------------------------------
\* Mutant of Killed: a signal to the launcher alone.
KilledLauncher(c) == [codex EXCEPT ![c].launcher = IF @ = "alive" THEN "failed" ELSE @]

\* killCommandProcess: the whole group, whether its leader still runs or not.
Killed(c) == [codex EXCEPT ![c] = [launcher |-> IF @.launcher = "alive" THEN "failed" ELSE @.launcher, native |-> FALSE]]

\* finish of the discovery, stop of a bounded command: the first reason counts.
End(c, how) ==
  /\ ending[c] = None
  /\ ending' = [ending EXCEPT ![c] = how]
  /\ reading' = reading \ {c}
  /\ codex' = Killed(c)

\* The timer; stop of the login by its signal; an answer, or output, beyond its limit; a
\* failure of the pipes.
Fail(c) ==
  /\ Open(c) /\ End(c, "failed")
  /\ UNCHANGED <<outcome, catalogVars>>

\* What either program does of its own.
ExitLauncher(c) ==
  /\ codex[c].launcher = "alive"
  /\ \E how \in {"exited", "failed"} : codex' = [codex EXCEPT ![c].launcher = how]
  /\ UNCHANGED <<reading, ending, outcome, catalogVars>>

ExitNative(c) ==
  /\ codex[c].native
  /\ codex' = [codex EXCEPT ![c].native = FALSE]
  /\ UNCHANGED <<reading, ending, outcome, catalogVars>>

\* 'close': the launcher has exited and nobody holds the pipes that are read.
Close(c) ==
  /\ Open(c)
  /\ codex[c].launcher # "alive"
  /\ c \in reading => ~codex[c].native /\ (c = "models" => answers = <<>>)
  /\ outcome' = [outcome EXCEPT ![c] =
       IF ending[c] = "failed" \/ (ending[c] = None /\ (c = "models" \/ codex[c].launcher = "failed"))
       THEN "rejected" ELSE "resolved"]
  /\ UNCHANGED <<codex, reading, ending, catalogVars>>
-----------------------------------------------------------------------------
(***************************************************************************)
(* The discovery.  The first request initializes; each further one asks    *)
(* for a page.                                                             *)
(***************************************************************************)
Asked == IF read = <<>> THEN First ELSE read[Len(read)].next

\* app-server answers the request it was sent last: with an error, or with a page that
\* names any cursor as the next.  Its lines of another id are passed over.
Answer ==
  /\ codex["models"].native /\ "models" \in reading
  /\ answers = <<>>
  /\ \E ok \in BOOLEAN, next \in Cursors \cup {None} :
       answers' = <<[ok |-> ok, next |-> next]>>
  /\ UNCHANGED <<codex, reading, ending, outcome, requestId, pageCursors, read>>

Reads(page) == read' = Append(read, [page |-> Asked, next |-> page.next])

MayContinue(cursor) == cursor \notin pageCursors /\ Cardinality(pageCursors) < MaxPages - 1

IsEnough(cursor) == cursor = None

Receive ==
  /\ "models" \in reading /\ answers # <<>>
  /\ LET answer == Head(answers) IN
       \/ /\ answer.ok /\ requestId = 1
          /\ requestId' = 2
          /\ UNCHANGED <<codex, reading, ending, pageCursors, read>>
       \/ /\ answer.ok /\ requestId > 1
          /\ ~IsEnough(answer.next) /\ MayContinue(answer.next)
          /\ Reads(answer)
          /\ pageCursors' = pageCursors \cup {answer.next}
          /\ requestId' = requestId + 1
          /\ UNCHANGED <<codex, reading, ending>>
       \/ /\ answer.ok /\ requestId > 1
          /\ IsEnough(answer.next)
          /\ Reads(answer)
          /\ \E how \in {"ok", "failed"} : End("models", how)   \* "failed": no model was listed
          /\ UNCHANGED <<requestId, pageCursors>>
       \/ /\ answer.ok => requestId > 1 /\ ~IsEnough(answer.next) /\ ~MayContinue(answer.next)
          /\ End("models", "failed")
          /\ UNCHANGED <<requestId, pageCursors, read>>
  /\ answers' = Tail(answers)
  /\ UNCHANGED outcome

Next ==
  \/ \E c \in Commands : Spawn(c) \/ FailSpawn(c) \/ Fail(c) \/ ExitLauncher(c) \/ ExitNative(c) \/ Close(c)
  \/ Answer \/ Receive

\* A timer fires, a closed process is noticed.
Fairness == \A c \in Commands : WF_codexVars(Fail(c)) /\ WF_codexVars(Close(c))

CodexSpec == Init /\ [][Next]_codexVars /\ Fairness
-----------------------------------------------------------------------------
\* Nothing of a command is left on the developer's computer once its promise is settled,
\* whichever of its two programs went first.
NothingOutlivesItsCommand == \A c \in Commands : outcome[c] # None => ~codex[c].native

\* A catalog that was accepted was read to its last page, and no page of it twice.
CatalogIsWhole ==
  outcome["models"] = "resolved" =>
    /\ read # <<>> /\ read[Len(read)].next = None
    /\ \A i, j \in 1..Len(read) : read[i].page = read[j].page => i = j

\* The promise of every command that was started is settled.
CommandsEnd == \A c \in Commands : Started(c) ~> outcome[c] # None
-----------------------------------------------------------------------------
(***************************************************************************)
(* What the proofs rest on.                                                *)
(***************************************************************************)
Programs == [launcher : {"none", "alive", "exited", "failed"}, native : BOOLEAN]
ReadPages == [page : Cursors \cup {First}, next : Cursors \cup {None}]

Domains ==
  /\ codex \in [Commands -> Programs]
  /\ reading \subseteq Commands
  /\ ending \in [Commands -> {None, "ok", "failed"}]
  /\ outcome \in [Commands -> {None, "resolved", "rejected"}]
  /\ answers \in Seq([ok : BOOLEAN, next : Cursors \cup {None}])
  /\ read \in Seq(ReadPages)

\* A command's output is read from its start to its end, which kills its group.
EndedIsDead ==
  /\ \A c \in Commands :
       /\ codex[c].launcher = "none" => ~codex[c].native /\ ending[c] = None /\ c \notin reading
       /\ codex[c].launcher # "none" => (c \in reading <=> ending[c] = None)
       /\ ending[c] # None => ~codex[c].native
       /\ outcome[c] # None => ~codex[c].native
  /\ outcome["models"] = "resolved" => ending["models"] = "ok"

\* The pages follow one another, and no cursor is asked for twice.
PagesFollow ==
  /\ \A i \in 1..Len(read) : read[i].page = IF i = 1 THEN First ELSE read[i - 1].next
  /\ \A i \in 1..Len(read) : read[i].next = None => i = Len(read) /\ ending["models"] # None
  /\ \A i \in 1..Len(read) : read[i].next # None => read[i].next \in pageCursors
  /\ \A i, j \in 1..Len(read) : read[i].next = read[j].next => i = j
  /\ ending["models"] = "ok" => read # <<>> /\ read[Len(read)].next = None
=============================================================================
