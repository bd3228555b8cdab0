----------------------------- MODULE AgentGateway -----------------------------
(***************************************************************************)
(* The API's agent gateway: the sockets local agents open, the in-memory   *)
(* ConnectedAgentsRegistry that says which socket speaks for which agent   *)
(* and which projects it serves, the registrations table, the revocation   *)
(* of credentials and the routing of commands.                             *)
(*                                                                         *)
(* Handlers run to their next await.  assertActive awaits the database for *)
(* a paired agent only; for an agent of the static configuration the check *)
(* and what follows it are one step.  The unauthenticated agents of        *)
(* NODE_ENV=test and agents routed by their id are left out.               *)
(***************************************************************************)
EXTENDS FiniteSets

CONSTANTS
  Agent,       \* agents with a credential
  Paired,      \* those paired by a developer; the others are configured statically
  Socket,      \* socket ids; each is used for one connection
  Key,         \* agent project keys
  AgentOfKey,  \* the agent whose credential covers a project key
  Command,     \* commands to route
  None         \* no agent, socket or snapshot

ASSUME PairedAssumption == Paired \subseteq Agent
\* Credentials never share a key: parseCredentials refuses it, and paired
\* agents have prefixes of their own.
ASSUME KeyAssumption == AgentOfKey \in [Key -> Agent]
ASSUME NoneAssumption == None \notin Agent \cup Socket \cup Key

VARIABLES
  state,       \* per socket: "new", "open" or "closed", as the API sees it
  identity,    \* per socket: the agent its handshake authenticated
  agentOf,     \* agentIdBySocketId
  socketOf,    \* socketIdByAgentId
  known,       \* the agents snapshotByAgentId has a snapshot of
  served,      \* the project keys of those snapshots
  joining,     \* per socket: how far its agent.connected event is, and its keys
  leaving,     \* per socket: the agent whose disconnection is to be recorded
  reporting,   \* per socket: how far a session event is, its key, the keys read
  recorded,    \* per agent: the registrations row says connected
  revocation,  \* per agent: "none", "recorded" (row written) or "done"
  command      \* per command: how far its routing is, its key, the socket found

registry == <<agentOf, socketOf, known, served>>
vars == <<state, identity, registry, joining, leaving, reporting, recorded, revocation, command>>

Revoked(a) == a \in Paired /\ revocation[a] # "none"

Joining == [stage : {"none", "checking", "active", "marking", "accepted", "rejected"},
            keys : SUBSET Key]
Unjoined == [stage |-> "none", keys |-> {}]
Answered(stage) == [stage |-> stage, keys |-> {}]

Reporting == [stage : {"none", "checking", "loading", "accepted"},
              key : Key \cup {None}, keys : SUBSET Key]
Unreported == [stage |-> "none", key |-> None, keys |-> {}]

Routing == [stage : {"idle", "checking", "emitted", "undelivered"},
            key : Key \cup {None}, socket : Socket \cup {None}]
Unrouted == [stage |-> "idle", key |-> None, socket |-> None]
Undelivered == [stage |-> "undelivered", key |-> None, socket |-> None]

Init ==
  /\ state = [s \in Socket |-> "new"]
  /\ identity = [s \in Socket |-> None]
  /\ agentOf = [s \in Socket |-> None]
  /\ socketOf = [a \in Agent |-> None]
  /\ known = {}
  /\ served = [a \in Agent |-> {}]
  /\ joining = [s \in Socket |-> Unjoined]
  /\ leaving = [s \in Socket |-> None]
  /\ reporting = [s \in Socket |-> Unreported]
  /\ recorded = [a \in Agent |-> FALSE]
  /\ revocation = [a \in Agent |-> "none"]
  /\ command = [c \in Command |-> Unrouted]
-----------------------------------------------------------------------------
(***************************************************************************)
(* The registry.                                                           *)
(***************************************************************************)
Serves(a, k) == a \in known /\ k \in served[a]

KeyTaken(a, keys) == \E b \in Agent \ {a} : \E k \in keys : Serves(b, k)

\* register throws when the agent has another socket, the socket another
\* agent, or a project key another agent.
MayRegister(s, a, keys) ==
  /\ socketOf[a] \in {None, s}
  /\ agentOf[s] \in {None, a}
  /\ ~KeyTaken(a, keys)

Enter(s, a, keys) ==
  /\ agentOf' = [agentOf EXCEPT ![s] = a]
  /\ socketOf' = [socketOf EXCEPT ![a] = s]
  /\ known' = known \cup {a}
  /\ served' = [served EXCEPT ![a] = keys]

Unregister(s) ==
  IF agentOf[s] = None THEN UNCHANGED registry
  ELSE /\ agentOf' = [agentOf EXCEPT ![s] = None]
       /\ socketOf' = [socketOf EXCEPT ![agentOf[s]] = None]
       /\ known' = known \ {agentOf[s]}
       /\ served' = [served EXCEPT ![agentOf[s]] = {}]

\* The agent and the socket a project key leads to, if any.
Holder(k) == IF \E a \in Agent : Serves(a, k) THEN CHOOSE a \in Agent : Serves(a, k) ELSE None

FindSocket(k) == IF Holder(k) = None THEN None ELSE socketOf[Holder(k)]
-----------------------------------------------------------------------------
(***************************************************************************)
(* Connections.                                                            *)
(***************************************************************************)

\* The handshake middleware accepts a known credential that is not revoked.
Connect(s, a) ==
  /\ state[s] = "new"
  /\ ~Revoked(a)
  /\ state' = [state EXCEPT ![s] = "open"]
  /\ identity' = [identity EXCEPT ![s] = a]
  /\ UNCHANGED <<registry, joining, leaving, reporting, recorded, revocation, command>>

\* handleDisconnect, up to the write of the registrations row.
Disconnect(s) ==
  /\ state[s] = "open"
  /\ state' = [state EXCEPT ![s] = "closed"]
  /\ leaving' = [leaving EXCEPT ![s] = agentOf[s]]
  /\ Unregister(s)
  /\ UNCHANGED <<identity, joining, reporting, recorded, revocation, command>>

MarkDisconnected(s) ==
  /\ leaving[s] # None
  /\ recorded' = [recorded EXCEPT ![leaving[s]] = FALSE]
  /\ leaving' = [leaving EXCEPT ![s] = None]
  /\ UNCHANGED <<state, identity, registry, joining, reporting, revocation, command>>
-----------------------------------------------------------------------------
(***************************************************************************)
(* agent.connected: assertActive, register, markConnected.                 *)
(***************************************************************************)

\* What follows the check: the registration, and the write that is awaited
\* next; a conflict is answered with a rejection.
Register(s, keys) ==
  IF MayRegister(s, identity[s], keys)
    THEN /\ Enter(s, identity[s], keys)
         /\ joining' = [joining EXCEPT ![s] = [stage |-> "marking", keys |-> keys]]
    ELSE /\ joining' = [joining EXCEPT ![s] = Answered("rejected")]
         /\ UNCHANGED registry

\* Mutant of Covered: any credential covers any project.
CoveredByAny(a) == Key

Covered(a) == {k \in Key : AgentOfKey[k] = a}

\* An announcement of projects the credential does not cover is refused
\* without a change of state.
AnnounceAgent(s, keys) ==
  /\ state[s] = "open"
  /\ joining[s].stage = "none"
  /\ keys \subseteq Covered(identity[s])
  /\ IF identity[s] \in Paired
       THEN /\ joining' = [joining EXCEPT ![s] = [stage |-> "checking", keys |-> keys]]
            /\ UNCHANGED registry
       ELSE Register(s, keys)
  /\ UNCHANGED <<state, identity, leaving, reporting, recorded, revocation, command>>

\* The database answers; the handler goes on later.
CheckActive(s) ==
  /\ joining[s].stage = "checking"
  /\ joining' = [joining EXCEPT ![s] =
       IF Revoked(identity[s]) THEN Answered("rejected") ELSE [@ EXCEPT !.stage = "active"]]
  /\ UNCHANGED <<state, identity, registry, leaving, reporting, recorded, revocation, command>>

RegisterActive(s) ==
  /\ joining[s].stage = "active"
  /\ Register(s, joining[s].keys)
  /\ UNCHANGED <<state, identity, leaving, reporting, recorded, revocation, command>>

\* markConnected and the event's own row; a failure of either is answered
\* with a rejection and takes nothing back.
MarkConnected(s) ==
  /\ joining[s].stage = "marking"
  /\ \/ /\ recorded' = [recorded EXCEPT ![identity[s]] = TRUE]
        /\ joining' = [joining EXCEPT ![s] = Answered("accepted")]
     \/ /\ UNCHANGED recorded
        /\ joining' = [joining EXCEPT ![s] = Answered("rejected")]
  /\ UNCHANGED <<state, identity, registry, leaving, reporting, revocation, command>>
-----------------------------------------------------------------------------
(***************************************************************************)
(* A session event: assertActive, the snapshot of the socket's agent, the  *)
(* session's project (awaited), and the checks on what was read.           *)
(***************************************************************************)

\* After assertActive: the socket must have registered.
ReadSnapshot(s, k) ==
  reporting' = [reporting EXCEPT ![s] =
    IF agentOf[s] = identity[s]
      THEN [stage |-> "loading", key |-> k, keys |-> served[identity[s]]]
      ELSE Unreported]

ReportEvent(s, k) ==
  /\ state[s] = "open"
  /\ reporting[s].stage = "none"
  /\ IF identity[s] \in Paired
       THEN reporting' = [reporting EXCEPT ![s] = [stage |-> "checking", key |-> k, keys |-> {}]]
       ELSE ReadSnapshot(s, k)
  /\ UNCHANGED <<state, identity, registry, joining, leaving, recorded, revocation, command>>

CheckReporter(s) ==
  /\ reporting[s].stage = "checking"
  /\ IF Revoked(identity[s]) THEN reporting' = [reporting EXCEPT ![s] = Unreported]
                             ELSE ReadSnapshot(s, reporting[s].key)
  /\ UNCHANGED <<state, identity, registry, joining, leaving, recorded, revocation, command>>

\* Mutant of MayAccept: the snapshot read before the await is believed.
MayAcceptSnapshot(s) ==
  AgentOfKey[reporting[s].key] = identity[s] /\ reporting[s].key \in reporting[s].keys

\* The credential covers the project, the snapshot advertises it, and some
\* agent is still connected for it (AgentProjectBindingService.assertConnected).
MayAccept(s) ==
  /\ AgentOfKey[reporting[s].key] = identity[s]
  /\ reporting[s].key \in reporting[s].keys
  /\ FindSocket(reporting[s].key) # None

DecideEvent(s) ==
  /\ reporting[s].stage = "loading"
  /\ reporting' = [reporting EXCEPT ![s] =
       IF MayAccept(s) THEN [stage |-> "accepted", key |-> reporting[s].key, keys |-> {}]
                       ELSE Unreported]
  /\ UNCHANGED <<state, identity, registry, joining, leaving, recorded, revocation, command>>

PersistEvent(s) ==
  /\ reporting[s].stage = "accepted"
  /\ reporting' = [reporting EXCEPT ![s] = Unreported]
  /\ UNCHANGED <<state, identity, registry, joining, leaving, recorded, revocation, command>>
-----------------------------------------------------------------------------
(***************************************************************************)
(* Routing and revocation.                                                 *)
(***************************************************************************)

\* disconnectAgent: the registry first, then the socket, whose disconnect
\* handler finds nothing left to unregister or record.
DisconnectAgent(a) ==
  IF socketOf[a] = None THEN UNCHANGED <<state, registry>>
  ELSE /\ Unregister(socketOf[a])
       /\ state' = [state EXCEPT ![socketOf[a]] = "closed"]

\* emitToAgent and emitToAgentAndWait look the socket up; for a paired agent
\* they await the check of its credential.
Route(c, k) ==
  /\ command[c].stage = "idle"
  /\ command' = [command EXCEPT ![c] =
       IF FindSocket(k) = None THEN Undelivered
       ELSE [stage |-> IF Holder(k) \in Paired THEN "checking" ELSE "emitted",
             key |-> k, socket |-> FindSocket(k)]]
  /\ UNCHANGED <<state, identity, registry, joining, leaving, reporting, recorded, revocation>>

\* A revoked agent met by a command is disconnected, and the command refused.
Emit(c) ==
  /\ command[c].stage = "checking"
  /\ IF Revoked(AgentOfKey[command[c].key])
       THEN /\ DisconnectAgent(AgentOfKey[command[c].key])
            /\ command' = [command EXCEPT ![c] = Undelivered]
       ELSE /\ command' = [command EXCEPT ![c].stage = "emitted"]
            /\ UNCHANGED <<state, registry>>
  /\ UNCHANGED <<identity, joining, leaving, reporting, recorded, revocation>>

\* AgentOnboardingService.revoke writes the row, then disconnects.
RecordRevocation(a) ==
  /\ a \in Paired /\ revocation[a] = "none"
  /\ revocation' = [revocation EXCEPT ![a] = "recorded"]
  /\ recorded' = [recorded EXCEPT ![a] = FALSE]
  /\ UNCHANGED <<state, identity, registry, joining, leaving, reporting, command>>

FinishRevocation(a) ==
  /\ revocation[a] = "recorded"
  /\ DisconnectAgent(a)
  /\ revocation' = [revocation EXCEPT ![a] = "done"]
  /\ UNCHANGED <<identity, joining, leaving, reporting, recorded, command>>
-----------------------------------------------------------------------------
SocketStep(s) ==
  \/ \E a \in Agent : Connect(s, a)
  \/ Disconnect(s)
  \/ MarkDisconnected(s)
  \/ \E keys \in SUBSET Key : AnnounceAgent(s, keys)
  \/ CheckActive(s)
  \/ RegisterActive(s)
  \/ MarkConnected(s)
  \/ \E k \in Key : ReportEvent(s, k)
  \/ CheckReporter(s)
  \/ DecideEvent(s)
  \/ PersistEvent(s)

CommandStep(c) == (\E k \in Key : Route(c, k)) \/ Emit(c)

AgentStep(a) == RecordRevocation(a) \/ FinishRevocation(a)

Next ==
  \/ \E s \in Socket : SocketStep(s)
  \/ \E c \in Command : CommandStep(c)
  \/ \E a \in Agent : AgentStep(a)

Spec == Init /\ [][Next]_vars
-----------------------------------------------------------------------------
\* Type invariant.
TypeOK ==
  /\ state \in [Socket -> {"new", "open", "closed"}]
  /\ identity \in [Socket -> Agent \cup {None}]
  /\ agentOf \in [Socket -> Agent \cup {None}]
  /\ socketOf \in [Agent -> Socket \cup {None}]
  /\ known \subseteq Agent
  /\ served \in [Agent -> SUBSET Key]
  /\ joining \in [Socket -> Joining]
  /\ leaving \in [Socket -> Agent \cup {None}]
  /\ reporting \in [Socket -> Reporting]
  /\ recorded \in [Agent -> BOOLEAN]
  /\ revocation \in [Agent -> {"none", "recorded", "done"}]
  /\ command \in [Command -> Routing]

\* The three maps of the registry agree after every step, also when sockets
\* close, agents are revoked and registrations resume in any order: an agent
\* has a socket exactly when that socket is its own, and a snapshot exactly
\* when it has a socket.
RegistryConsistent ==
  /\ \A s \in Socket, a \in Agent : agentOf[s] = a <=> socketOf[a] = s
  /\ \A a \in Agent : a \in known <=> socketOf[a] # None

\* A project key leads to one agent only, the one whose credential covers it.
ExclusiveKeys == \A a \in Agent, k \in Key : Serves(a, k) => AgentOfKey[k] = a

\* A command is sent to a socket that authenticated as the agent of the
\* command's project, although the socket was looked up before an await.
CommandsReachTheirAgent ==
  \A c \in Command : command[c].stage = "emitted"
    => identity[command[c].socket] = AgentOfKey[command[c].key]

\* An agent of the static configuration is registered on an open socket.
StaticAgentsAreLive ==
  \A a \in Agent \ Paired : socketOf[a] # None => state[socketOf[a]] = "open"

\* The same for every agent: what a paired agent's registration resumes with
\* after the database answered may be the socket that has closed meanwhile.
RegisteredAgentsAreLive == \A a \in Agent : socketOf[a] # None => state[socketOf[a]] = "open"

\* Whatever closes, is revoked or resumes after an await, the registry's maps agree, a
\* project has one agent, which its credential covers, static agents are live and a
\* command goes to the agent of its project.
GatewayIsSound ==
  TypeOK /\ RegistryConsistent /\ ExclusiveKeys /\ StaticAgentsAreLive /\ CommandsReachTheirAgent

\* A session event is accepted only while its sender's agent is connected for
\* the session's project: what the handler read before it loaded the project
\* is checked again after (assertEventAuthorized).
AcceptsFromConnectedAgent ==
  [][\A s \in Socket :
       reporting[s].stage = "loading" /\ reporting'[s].stage = "accepted"
         => Serves(identity[s], reporting[s].key) /\ socketOf[identity[s]] # None]_vars
=============================================================================
