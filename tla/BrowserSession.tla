----------------------------- MODULE BrowserSession -----------------------------
(***************************************************************************)
(* The page of a session: SessionSynchronization keeps what the API says   *)
(* of the session in a query cache, reads it over HTTP, and reads it again *)
(* whenever the socket of UiGateway tells that something happened.  The    *)
(* record is the set of changes the API has committed; every query, the    *)
(* session, its messages and its events, shows those it was read with.     *)
(***************************************************************************)
EXTENDS Naturals

CONSTANTS
  None,
  Queries, Messages,   \* the queries, and the one of them that lists messages
  Reports,             \* events of the agent: the API announces them once they are persisted
  Others,              \* prompts of other participants and webhooks: nothing announces them
  Prompts,             \* prompts sent from this page
  MaxNotices,
  MaxMounts

VARIABLES
  record,      \* changes committed
  due,         \* reports committed and not announced yet
  announced,
  mounted,     \* the page is shown: the synchronization has a listener
  mounts,
  socket,      \* "off", "connecting", "subscribing", "joined" or "refused"
  notices,     \* acknowledgements and announcements on their way to the page
  read,        \* per query: its read: "none", "asked" or "answered" with the record as it was
  cached,      \* per query: None or the changes it shows
  failed,      \* queries whose last read has failed
  prompt       \* per prompt: where it is

vars == <<record, due, announced, mounted, mounts, socket, notices, read, cached, failed, prompt>>

NoRead == [at |-> "none", with |-> {}]
Asked == [at |-> "asked", with |-> {}]

Init ==
  /\ record = {}
  /\ due = {}
  /\ announced = {}
  /\ mounted = FALSE
  /\ mounts = 0
  /\ socket = "off"
  /\ notices = 0
  /\ read = [q \in Queries |-> NoRead]
  /\ cached = [q \in Queries |-> None]
  /\ failed = {}
  /\ prompt = [p \in Prompts |-> "idle"]

\* updateSnapshot.
Shown ==
  IF failed # {} THEN "error"
  ELSE IF \E q \in Queries : cached[q] = None THEN "loading"
  ELSE "ready"
-----------------------------------------------------------------------------
(***************************************************************************)
(* The API.                                                                *)
(***************************************************************************)
\* An event of the agent is persisted; AgentGateway publishes it afterwards.
Report(r) ==
  /\ r \notin record
  /\ record' = record \cup {r}
  /\ due' = due \cup {r}
  /\ UNCHANGED <<announced, mounted, mounts, socket, notices, read, cached, failed, prompt>>

\* publishSessionEvent: to the sockets that are in the session's room.
Announce(r) ==
  /\ r \in due
  /\ due' = due \ {r}
  /\ announced' = announced \cup {r}
  /\ IF socket = "joined"
       THEN notices < MaxNotices /\ notices' = notices + 1
       ELSE notices' = notices
  /\ UNCHANGED <<record, mounted, mounts, socket, read, cached, failed, prompt>>

ChangeUnannounced(o) ==
  /\ o \notin record
  /\ record' = record \cup {o}
  /\ UNCHANGED <<due, announced, mounted, mounts, socket, notices, read, cached, failed, prompt>>

\* subscribeToSession: a member joins the room, then is told so; nobody tells the page
\* when it is refused.
Join ==
  /\ socket = "subscribing"
  /\ \/ /\ socket' = "joined"
        /\ notices' = notices + 1
     \/ socket' = "refused" /\ notices' = notices
  /\ UNCHANGED <<record, due, announced, mounted, mounts, read, cached, failed, prompt>>

Answer(q) ==
  /\ read[q] = Asked
  /\ read' = [read EXCEPT ![q] = [at |-> "answered", with |-> record]]
  /\ UNCHANGED <<record, due, announced, mounted, mounts, socket, notices, cached, failed, prompt>>

StorePrompt(p) ==
  /\ prompt[p] = "sent"
  /\ record' = record \cup {p}
  /\ prompt' = [prompt EXCEPT ![p] = "stored"]
  /\ UNCHANGED <<due, announced, mounted, mounts, socket, notices, read, cached, failed>>
-----------------------------------------------------------------------------
(***************************************************************************)
(* The page.  What a handler does after awaiting cancelQueries happens     *)
(* before the browser handles another message: one step.                   *)
(***************************************************************************)
\* subscribe: the stale queries are read and the socket is opened.  A query that was read
\* within the last second is not stale.
Mount ==
  /\ ~mounted /\ mounts < MaxMounts
  /\ mounted' = TRUE
  /\ mounts' = mounts + 1
  /\ socket' = "connecting"
  /\ \E fresh \in SUBSET {q \in Queries : cached[q] # None} :
       read' = [q \in Queries |-> IF q \notin fresh /\ read[q] = NoRead THEN Asked ELSE read[q]]
  /\ UNCHANGED <<record, due, announced, notices, cached, failed, prompt>>

\* Its reads go on: the cache outlives the page.
Unmount ==
  /\ mounted
  /\ mounted' = FALSE
  /\ socket' = "off"
  /\ notices' = 0
  /\ UNCHANGED <<record, due, announced, mounts, read, cached, failed, prompt>>

\* The socket connects, for the first time or again, and subscribes.
Connect ==
  /\ socket = "connecting"
  /\ socket' = "subscribing"
  /\ UNCHANGED <<record, due, announced, mounted, mounts, notices, read, cached, failed, prompt>>

\* What was on its way is lost.
Drop ==
  /\ socket \in {"subscribing", "joined", "refused"}
  /\ socket' = "connecting"
  /\ notices' = 0
  /\ UNCHANGED <<record, due, announced, mounted, mounts, read, cached, failed, prompt>>

\* refresh: every read under way is cancelled, and every query read again.
Refreshed == [q \in Queries |-> Asked]

Notice ==
  /\ notices > 0
  /\ notices' = notices - 1
  /\ read' = Refreshed
  /\ UNCHANGED <<record, due, announced, mounted, mounts, socket, cached, failed, prompt>>

Receive(q) ==
  /\ read[q].at = "answered"
  /\ cached' = [cached EXCEPT ![q] = read[q].with]
  /\ read' = [read EXCEPT ![q] = NoRead]
  /\ failed' = failed \ {q}
  /\ UNCHANGED <<record, due, announced, mounted, mounts, socket, notices, prompt>>

\* Twice in a row; what the query showed stays in the cache.
FailRead(q) ==
  /\ read[q] # NoRead
  /\ read' = [read EXCEPT ![q] = NoRead]
  /\ failed' = failed \cup {q}
  /\ UNCHANGED <<record, due, announced, mounted, mounts, socket, notices, cached, prompt>>

SendPrompt(p) ==
  /\ mounted /\ Shown = "ready" /\ prompt[p] = "idle"
  /\ prompt' = [prompt EXCEPT ![p] = "sent"]
  /\ UNCHANGED <<record, due, announced, mounted, mounts, socket, notices, read, cached, failed>>

\* Mutant of Acknowledge: the reads under way are left alone when the page is gone.
AcknowledgeUncancelled(p) ==
  /\ prompt[p] = "stored"
  /\ prompt' = [prompt EXCEPT ![p] = "acknowledged"]
  /\ cached' = [cached EXCEPT ![Messages] = (IF @ = None THEN {} ELSE @) \cup {p}]
  /\ failed' = failed \ {Messages}
  /\ read' = IF mounted THEN Refreshed ELSE read
  /\ UNCHANGED <<record, due, announced, mounted, mounts, socket, notices>>

\* sendPrompt, once it is answered: the read of the messages under way may be older than the
\* prompt, and is cancelled; the prompt is added, and everything read again.
Acknowledge(p) ==
  /\ prompt[p] = "stored"
  /\ prompt' = [prompt EXCEPT ![p] = "acknowledged"]
  /\ cached' = [cached EXCEPT ![Messages] = (IF @ = None THEN {} ELSE @) \cup {p}]
  /\ failed' = failed \ {Messages}
  /\ read' = IF mounted THEN Refreshed ELSE [read EXCEPT ![Messages] = NoRead]
  /\ UNCHANGED <<record, due, announced, mounted, mounts, socket, notices>>

\* Refused, or accepted and the answer lost.
FailPrompt(p) ==
  /\ prompt[p] \in {"sent", "stored"}
  /\ prompt' = [prompt EXCEPT ![p] = "failed"]
  /\ UNCHANGED <<record, due, announced, mounted, mounts, socket, notices, read, cached, failed>>

Next ==
  \/ \E r \in Reports : Report(r) \/ Announce(r)
  \/ \E o \in Others : ChangeUnannounced(o)
  \/ Join \/ Mount \/ Unmount \/ Connect \/ Drop \/ Notice
  \/ \E q \in Queries : Answer(q) \/ Receive(q) \/ FailRead(q)
  \/ \E p \in Prompts : StorePrompt(p) \/ SendPrompt(p) \/ Acknowledge(p) \/ FailPrompt(p)

Spec == Init /\ [][Next]_vars
-----------------------------------------------------------------------------
\* A page at rest, joined, with no notice or read under way and no error, shows every event
\* the API has announced, also those from before it joined or while its socket
\* was down, and from before the first read, which may have been answered earlier.
QuietPagesAreCurrent ==
  socket = "joined" /\ notices = 0 /\ Shown = "ready" /\ (\A q \in Queries : read[q] = NoRead)
    => \A q \in Queries : announced \subseteq cached[q]

\* A prompt whose sending was acknowledged stays in the conversation: no answer that was
\* read before it, in whatever order it comes, takes it away.
AcknowledgedStays ==
  \A p \in Prompts : prompt[p] = "acknowledged" => p \in cached[Messages]
-----------------------------------------------------------------------------
(***************************************************************************)
(* What the proofs rest on.                                                *)
(***************************************************************************)
Changes == Reports \cup Others \cup Prompts
Reads == [at : {"none", "asked", "answered"}, with : SUBSET Changes]

Domains ==
  /\ record \in SUBSET Changes
  /\ due \subseteq record /\ announced \subseteq record
  /\ notices \in Nat
  /\ read \in [Queries -> Reads]
  /\ cached \in [Queries -> {None} \cup SUBSET Changes]
  /\ prompt \in [Prompts -> {"idle", "sent", "stored", "acknowledged", "failed"}]
  /\ ~mounted => socket = "off"

\* In a joined page without notices every query shows what was announced, is being read
\* with it, or has failed.
ReadsAreCurrent ==
  socket = "joined" /\ notices = 0 =>
    \A q \in Queries :
      \/ read[q] = NoRead /\ (q \in failed \/ announced \subseteq cached[q])
      \/ read[q] = Asked
      \/ read[q].at = "answered" /\ announced \subseteq read[q].with

\* A read of the messages that was answered has the prompts that were acknowledged.
PromptsAreRead ==
  \A p \in Prompts :
    /\ prompt[p] \in {"stored", "acknowledged"} => p \in record
    /\ prompt[p] = "acknowledged" =>
         /\ cached[Messages] # None /\ p \in cached[Messages]
         /\ read[Messages].at = "answered" => p \in read[Messages].with
=============================================================================
