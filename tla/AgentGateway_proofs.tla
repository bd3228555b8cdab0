-------------------------- MODULE AgentGateway_proofs --------------------------
(***************************************************************************)
(* Proofs about AgentGateway: for any agents, sockets, keys and commands,  *)
(* the maps of the registry agree, a project key has one holder, commands  *)
(* reach their agent's socket and events are accepted from connected       *)
(* agents.                                                                 *)
(***************************************************************************)
EXTENDS AgentGateway, TLAPS

\* A socket has an identity once it has been opened, and is registered under
\* it only.
IdentityKept ==
  \A s \in Socket :
    /\ state[s] # "new" => identity[s] \in Agent
    /\ joining[s].stage # "none" => state[s] # "new"
    /\ reporting[s].stage # "none" => state[s] # "new" /\ reporting[s].key \in Key
    /\ agentOf[s] # None => agentOf[s] = identity[s] /\ state[s] # "new"
    /\ joining[s].stage = "none" => joining[s].keys = {}
    /\ joining[s].keys \subseteq Covered(identity[s])

\* A static agent's registration never waits, and ends with its socket.
StaticKept ==
  \A s \in Socket :
    /\ joining[s].stage \in {"checking", "active"} => identity[s] \in Paired
    /\ agentOf[s] # None /\ agentOf[s] \notin Paired => state[s] = "open"

CommandsKept ==
  \A c \in Command : command[c].stage \in {"checking", "emitted"} =>
    /\ command[c].key \in Key /\ command[c].socket \in Socket
    /\ state[command[c].socket] # "new"
    /\ identity[command[c].socket] = AgentOfKey[command[c].key]

Inv ==
  /\ TypeOK
  /\ RegistryConsistent
  /\ ExclusiveKeys
  /\ IdentityKept
  /\ StaticKept
  /\ CommandsKept
-----------------------------------------------------------------------------
\* What a project key leads to is the agent its credential covers.
LEMMA HolderCoversKey ==
  ASSUME TypeOK, RegistryConsistent, ExclusiveKeys, NEW k \in Key, FindSocket(k) # None
  PROVE  /\ Holder(k) = AgentOfKey[k]
         /\ AgentOfKey[k] \in Agent
         /\ FindSocket(k) = socketOf[AgentOfKey[k]]
         /\ FindSocket(k) \in Socket
         /\ agentOf[FindSocket(k)] = AgentOfKey[k]
         /\ Serves(AgentOfKey[k], k)
<1>1. Holder(k) # None /\ FindSocket(k) = socketOf[Holder(k)]
  BY DEF FindSocket
<1>2. \E a \in Agent : Serves(a, k)
  BY <1>1 DEF Holder
<1>3. Holder(k) = CHOOSE a \in Agent : Serves(a, k)
  BY <1>2 DEF Holder
<1>4. Holder(k) \in Agent /\ Serves(Holder(k), k)
  BY <1>2, <1>3
<1>5. Holder(k) = AgentOfKey[k]
  BY <1>4 DEF ExclusiveKeys
<1> QED
  BY <1>1, <1>4, <1>5 DEF TypeOK, RegistryConsistent

\* Unregistering a socket keeps the registry consistent and only takes away.
LEMMA UnregisterTakesAway ==
  ASSUME TypeOK, RegistryConsistent, ExclusiveKeys, NEW s \in Socket, Unregister(s)
  PROVE  /\ agentOf' = [agentOf EXCEPT ![s] = None]
         /\ socketOf' \in [Agent -> Socket \cup {None}]
         /\ known' \subseteq Agent
         /\ served' \in [Agent -> SUBSET Key]
         /\ RegistryConsistent'
         /\ ExclusiveKeys'
<1>1. CASE agentOf[s] = None
  <2>1. agentOf = [agentOf EXCEPT ![s] = None]
    BY <1>1 DEF TypeOK
  <2> QED
    BY <1>1, <2>1 DEF Unregister, registry, TypeOK, RegistryConsistent, ExclusiveKeys, Serves
<1>2. CASE agentOf[s] # None
  <2>1. agentOf[s] \in Agent /\ socketOf[agentOf[s]] = s
    BY <1>2 DEF TypeOK, RegistryConsistent
  <2>2. RegistryConsistent'
    BY <1>2, <2>1, NoneAssumption DEF Unregister, TypeOK, RegistryConsistent
  <2>3. ExclusiveKeys'
    BY <1>2, <2>1 DEF Unregister, TypeOK, ExclusiveKeys, Serves
  <2> QED
    BY <1>2, <2>1, <2>2, <2>3 DEF Unregister, TypeOK
<1> QED
  BY <1>1, <1>2

\* A registration that is allowed keeps the registry consistent, and a key
\* with the agent that covers it.
LEMMA EnterKeepsRegistry ==
  ASSUME TypeOK, RegistryConsistent, ExclusiveKeys,
         NEW s \in Socket, NEW a \in Agent, NEW keys \in SUBSET Key,
         keys \subseteq Covered(a), MayRegister(s, a, keys), Enter(s, a, keys)
  PROVE  /\ agentOf' \in [Socket -> Agent \cup {None}]
         /\ socketOf' \in [Agent -> Socket \cup {None}]
         /\ known' \subseteq Agent
         /\ served' \in [Agent -> SUBSET Key]
         /\ RegistryConsistent'
         /\ ExclusiveKeys'
<1>1. RegistryConsistent'
  BY NoneAssumption DEF MayRegister, Enter, TypeOK, RegistryConsistent
<1>2. ExclusiveKeys'
  BY DEF Enter, TypeOK, ExclusiveKeys, Serves, Covered
<1> QED
  BY <1>1, <1>2 DEF Enter, TypeOK
-----------------------------------------------------------------------------
\* What follows the check of a socket's agent, a registration or its refusal,
\* keeps the invariant.
LEMMA RegisterKeepsInv ==
  ASSUME Inv, NEW s \in Socket, NEW keys \in SUBSET Key, keys \subseteq Covered(identity[s]),
         identity[s] \in Agent, state[s] # "new",
         identity[s] \in Paired \/ state[s] = "open",
         Register(s, keys),
         UNCHANGED <<state, identity, leaving, reporting, recorded, revocation, command>>
  PROVE  Inv'
<1> USE DEF Inv
<1>1. CASE MayRegister(s, identity[s], keys)
  <2>1. Enter(s, identity[s], keys)
          /\ joining' = [joining EXCEPT ![s] = [stage |-> "marking", keys |-> keys]]
    BY <1>1 DEF Register
  <2>2. /\ agentOf' \in [Socket -> Agent \cup {None}]
        /\ socketOf' \in [Agent -> Socket \cup {None}]
        /\ known' \subseteq Agent
        /\ served' \in [Agent -> SUBSET Key]
        /\ RegistryConsistent'
        /\ ExclusiveKeys'
    BY <1>1, <2>1, EnterKeepsRegistry
  <2>3. TypeOK'
    BY <2>1, <2>2 DEF TypeOK, Joining
  <2>4. IdentityKept'
    BY <2>1 DEF TypeOK, IdentityKept, Enter, Covered
  <2>5. StaticKept'
    BY <2>1 DEF TypeOK, StaticKept, Enter
  <2>6. CommandsKept'
    BY DEF CommandsKept
  <2> QED
    BY <2>2, <2>3, <2>4, <2>5, <2>6
<1>2. CASE ~MayRegister(s, identity[s], keys)
  <2>1. UNCHANGED registry /\ joining' = [joining EXCEPT ![s] = [stage |-> "rejected", keys |-> {}]]
    BY <1>2 DEF Register, Answered
  <2>2. TypeOK'
    BY <2>1 DEF TypeOK, registry, Joining
  <2>21. RegistryConsistent' /\ ExclusiveKeys'
    BY <2>1 DEF RegistryConsistent, ExclusiveKeys, Serves, registry
  <2>3. IdentityKept'
    BY <2>1 DEF TypeOK, IdentityKept, registry, Covered
  <2>4. StaticKept' /\ CommandsKept'
    BY <2>1 DEF TypeOK, StaticKept, CommandsKept, registry
  <2> QED
    BY <2>2, <2>21, <2>3, <2>4
<1> QED
  BY <1>1, <1>2

\* Disconnecting an agent, by a revocation or for a refused command.
LEMMA DisconnectAgentKeepsInv ==
  ASSUME Inv, NEW a \in Agent, DisconnectAgent(a),
         command' \in [Command -> Routing],
         revocation' \in [Agent -> {"none", "recorded", "done"}],
         \A c \in Command : command'[c] = command[c] \/ command'[c].stage = "undelivered",
         UNCHANGED <<identity, joining, leaving, reporting, recorded>>
  PROVE  Inv'
<1> USE DEF Inv
<1>1. CASE socketOf[a] = None
  <2>1. UNCHANGED <<state, registry>>
    BY <1>1 DEF DisconnectAgent
  <2>2. TypeOK' /\ RegistryConsistent' /\ ExclusiveKeys'
    BY <2>1 DEF TypeOK, RegistryConsistent, ExclusiveKeys, Serves, registry
  <2>3. IdentityKept' /\ StaticKept'
    BY <2>1 DEF IdentityKept, StaticKept, registry, Covered
  <2>4. CommandsKept'
    BY <2>1 DEF CommandsKept
  <2> QED
    BY <2>2, <2>3, <2>4
<1>2. CASE socketOf[a] # None
  <2>1. socketOf[a] \in Socket
    BY <1>2 DEF TypeOK
  <2>2. Unregister(socketOf[a]) /\ state' = [state EXCEPT ![socketOf[a]] = "closed"]
    BY <1>2 DEF DisconnectAgent
  <2>3. /\ agentOf' = [agentOf EXCEPT ![socketOf[a]] = None]
        /\ socketOf' \in [Agent -> Socket \cup {None}]
        /\ known' \subseteq Agent
        /\ served' \in [Agent -> SUBSET Key]
        /\ RegistryConsistent'
        /\ ExclusiveKeys'
    BY <2>1, <2>2, UnregisterTakesAway
  <2>4. TypeOK'
    BY <2>1, <2>2, <2>3 DEF TypeOK
  <2>5. ASSUME NEW s \in Socket
        PROVE  /\ state'[s] # "new" => identity[s] \in Agent
               /\ joining[s].stage # "none" => state'[s] # "new"
               /\ reporting[s].stage # "none" => state'[s] # "new" /\ reporting[s].key \in Key
               /\ agentOf'[s] # None => agentOf'[s] = identity[s] /\ state'[s] # "new"
               /\ joining[s].keys \subseteq Covered(identity[s])
    <3>1. CASE s = socketOf[a]
      <4>1. agentOf[s] = a /\ state[s] # "new" /\ identity[s] \in Agent
        BY <3>1, <2>1, NoneAssumption DEF TypeOK, RegistryConsistent, IdentityKept
      <4>2. state'[s] = "closed" /\ agentOf'[s] = None
        BY <3>1, <2>2, <2>3 DEF TypeOK
      <4> QED
        BY <4>1, <4>2 DEF IdentityKept
    <3>2. CASE s # socketOf[a]
      <4>1. state'[s] = state[s] /\ agentOf'[s] = agentOf[s]
        BY <3>2, <2>1, <2>2, <2>3 DEF TypeOK
      <4> QED
        BY <4>1 DEF IdentityKept
    <3> QED
      BY <3>1, <3>2
  <2>51. IdentityKept'
    BY <2>5 DEF IdentityKept, Covered
  <2>6. StaticKept'
    BY <2>1, <2>2, <2>3 DEF TypeOK, StaticKept
  <2>7. CommandsKept'
    BY <2>1, <2>2 DEF TypeOK, CommandsKept
  <2> QED
    BY <2>3, <2>4, <2>51, <2>6, <2>7
<1> QED
  BY <1>1, <1>2
-----------------------------------------------------------------------------
\* A step that changes how far a socket's agent.connected event is.
LEMMA JoiningStepKeepsInv ==
  ASSUME Inv, NEW s \in Socket,
         NEW j \in Joining,
         joining' = [joining EXCEPT ![s] = j],
         j.stage # "none", state[s] # "new",
         j.stage \in {"checking", "active"} => identity[s] \in Paired,
         j.keys \subseteq Covered(identity[s]),
         recorded' \in [Agent -> BOOLEAN],
         UNCHANGED <<state, identity, registry, leaving, reporting, revocation, command>>
  PROVE  Inv'
<1> USE DEF Inv
<1>1. TypeOK'
  BY DEF TypeOK, registry
<1>2. RegistryConsistent' /\ ExclusiveKeys' /\ CommandsKept'
  BY DEF RegistryConsistent, ExclusiveKeys, Serves, CommandsKept, registry
<1>3. IdentityKept'
  BY DEF TypeOK, IdentityKept, Covered, registry
<1>4. StaticKept'
  BY DEF TypeOK, StaticKept, registry
<1> QED
  BY <1>1, <1>2, <1>3, <1>4

\* A step that changes how far a socket's session event is.
LEMMA ReportingStepKeepsInv ==
  ASSUME Inv, NEW s \in Socket,
         NEW r \in Reporting,
         reporting' = [reporting EXCEPT ![s] = r],
         r.stage # "none" => state[s] # "new" /\ r.key \in Key,
         UNCHANGED <<state, identity, registry, joining, leaving, recorded, revocation, command>>
  PROVE  Inv'
<1> USE DEF Inv
<1>1. TypeOK'
  BY DEF TypeOK, registry
<1>2. RegistryConsistent' /\ ExclusiveKeys' /\ CommandsKept' /\ StaticKept'
  BY DEF RegistryConsistent, ExclusiveKeys, Serves, CommandsKept, StaticKept, registry
<1>3. IdentityKept'
  BY DEF TypeOK, IdentityKept, Covered, registry
<1> QED
  BY <1>1, <1>2, <1>3

\* Reading the snapshot of a socket's agent for a project key.
LEMMA ReadSnapshotKeepsInv ==
  ASSUME Inv, NEW s \in Socket, NEW k \in Key, state[s] # "new", ReadSnapshot(s, k),
         UNCHANGED <<state, identity, registry, joining, leaving, recorded, revocation, command>>
  PROVE  Inv'
<1> DEFINE r == IF agentOf[s] = identity[s]
                  THEN [stage |-> "loading", key |-> k, keys |-> served[identity[s]]]
                  ELSE Unreported
<1>1. reporting' = [reporting EXCEPT ![s] = r]
  BY DEF ReadSnapshot
<1>2. served[identity[s]] \in SUBSET Key
  BY DEF Inv, TypeOK, IdentityKept
<1>3. /\ r \in Reporting
      /\ r.stage # "none" => r.key \in Key
  BY <1>2 DEF Unreported, Reporting
<1> QED
  BY <1>1, <1>3, ReportingStepKeepsInv
-----------------------------------------------------------------------------
\* The inductive invariant: every step of a socket, a command or an agent
\* keeps the registry's maps in agreement and everything read from them tied
\* to the agent it was read for.
THEOREM InductiveInvariant == Spec => []Inv
<1>1. Init => Inv
  BY NoneAssumption DEF Init, Inv, TypeOK, RegistryConsistent, ExclusiveKeys, Serves, IdentityKept,
     StaticKept, CommandsKept, Unjoined, Unreported, Unrouted, Joining, Reporting, Routing
<1>2. Inv /\ [Next]_vars => Inv'
  <2> SUFFICES ASSUME Inv, [Next]_vars PROVE Inv'
    OBVIOUS
  <2>0. recorded \in [Agent -> BOOLEAN]
    BY DEF Inv, TypeOK
  <2>1. ASSUME NEW s \in Socket, NEW a \in Agent, Connect(s, a) PROVE Inv'
    <3>1. UNCHANGED registry /\ state[s] = "new"
      BY <2>1 DEF Inv, Connect
    <3>2. TypeOK'
      BY <2>1 DEF Inv, Connect, TypeOK, registry
    <3>3. RegistryConsistent' /\ ExclusiveKeys'
      BY <3>1 DEF Inv, RegistryConsistent, ExclusiveKeys, Serves, registry
    <3>4. IdentityKept'
      BY <2>1 DEF Inv, Connect, TypeOK, IdentityKept, Covered, registry
    <3>5. StaticKept'
      BY <2>1 DEF Inv, Connect, TypeOK, IdentityKept, StaticKept, registry
    <3>6. CommandsKept'
      BY <2>1 DEF Inv, Connect, TypeOK, CommandsKept
    <3> QED
      BY <3>2, <3>3, <3>4, <3>5, <3>6 DEF Inv
  <2>2. ASSUME NEW s \in Socket, Disconnect(s) PROVE Inv'
    <3>1. /\ agentOf' = [agentOf EXCEPT ![s] = None]
          /\ socketOf' \in [Agent -> Socket \cup {None}]
          /\ known' \subseteq Agent
          /\ served' \in [Agent -> SUBSET Key]
          /\ RegistryConsistent'
          /\ ExclusiveKeys'
      BY <2>2, UnregisterTakesAway DEF Inv, Disconnect
    <3>2. TypeOK'
      BY <2>2, <3>1 DEF Inv, Disconnect, TypeOK
    <3>3. IdentityKept'
      BY <2>2, <3>1 DEF Inv, Disconnect, TypeOK, IdentityKept, Covered
    <3>4. StaticKept'
      BY <2>2, <3>1 DEF Inv, Disconnect, TypeOK, StaticKept
    <3>5. CommandsKept'
      BY <2>2 DEF Inv, Disconnect, TypeOK, CommandsKept
    <3> QED
      BY <3>1, <3>2, <3>3, <3>4, <3>5 DEF Inv
  <2>3. ASSUME NEW s \in Socket, MarkDisconnected(s) PROVE Inv'
    <3>1. TypeOK'
      BY <2>3 DEF Inv, MarkDisconnected, TypeOK, registry
    <3>2. RegistryConsistent' /\ ExclusiveKeys'
      BY <2>3 DEF Inv, MarkDisconnected, RegistryConsistent, ExclusiveKeys, Serves, registry
    <3>3. IdentityKept' /\ StaticKept' /\ CommandsKept'
      BY <2>3 DEF Inv, MarkDisconnected, IdentityKept, Covered, StaticKept, CommandsKept, registry
    <3> QED
      BY <3>1, <3>2, <3>3 DEF Inv
  <2>4. ASSUME NEW s \in Socket, NEW keys \in SUBSET Key, AnnounceAgent(s, keys) PROVE Inv'
    <3>1. /\ state[s] = "open" /\ identity[s] \in Agent /\ keys \subseteq Covered(identity[s])
          /\ UNCHANGED <<state, identity, leaving, reporting, recorded, revocation, command>>
      BY <2>4 DEF Inv, AnnounceAgent, IdentityKept
    <3>2. CASE identity[s] \in Paired
      <4>1. joining' = [joining EXCEPT ![s] = [stage |-> "checking", keys |-> keys]] /\ UNCHANGED registry
        BY <2>4, <3>2 DEF AnnounceAgent
      <4>2. [stage |-> "checking", keys |-> keys] \in Joining
        BY DEF Joining
      <4> QED
        BY <3>1, <3>2, <4>1, <4>2, <2>0, JoiningStepKeepsInv
    <3>3. CASE identity[s] \notin Paired
      <4>1. Register(s, keys)
        BY <2>4, <3>3 DEF Inv, AnnounceAgent
      <4> QED
        BY <3>1, <4>1, RegisterKeepsInv
    <3> QED
      BY <3>2, <3>3
  <2>5. ASSUME NEW s \in Socket, CheckActive(s) PROVE Inv'
    <3> DEFINE j == IF Revoked(identity[s]) THEN [stage |-> "rejected", keys |-> {}]
                                            ELSE [stage |-> "active", keys |-> joining[s].keys]
    <3>1. joining[s] \in [stage : {"checking"}, keys : SUBSET Key]
      BY <2>5 DEF Inv, CheckActive, TypeOK, Joining
    <3>2. [joining[s] EXCEPT !.stage = "active"] = [stage |-> "active", keys |-> joining[s].keys]
      BY <3>1
    <3>3. joining' = [joining EXCEPT ![s] = j]
      BY <2>5, <3>2 DEF CheckActive, Answered
    <3>4. state[s] # "new" /\ identity[s] \in Paired /\ joining[s].keys \subseteq Covered(identity[s])
      BY <3>1 DEF Inv, IdentityKept, StaticKept
    <3>5. /\ j \in Joining
          /\ j.stage # "none"
          /\ j.keys \subseteq Covered(identity[s])
      BY <3>1, <3>4 DEF Joining
    <3> HIDE DEF j
    <3> QED
      BY <2>5, <3>3, <3>4, <3>5, <2>0, JoiningStepKeepsInv DEF CheckActive
  <2>6. ASSUME NEW s \in Socket, RegisterActive(s) PROVE Inv'
    <3>1. /\ state[s] # "new" /\ identity[s] \in Agent /\ identity[s] \in Paired
          /\ joining[s].keys \in SUBSET Key /\ joining[s].keys \subseteq Covered(identity[s])
      BY <2>6 DEF Inv, RegisterActive, TypeOK, IdentityKept, StaticKept, Joining
    <3> QED
      BY <2>6, <3>1, RegisterKeepsInv DEF RegisterActive
  <2>7. ASSUME NEW s \in Socket, MarkConnected(s) PROVE Inv'
    <3>1. PICK st \in {"accepted", "rejected"} :
            joining' = [joining EXCEPT ![s] = [stage |-> st, keys |-> {}]]
      BY <2>7 DEF MarkConnected, Answered
    <3>2. state[s] # "new" /\ recorded' \in [Agent -> BOOLEAN]
      BY <2>7 DEF Inv, MarkConnected, TypeOK, IdentityKept
    <3>3. [stage |-> st, keys |-> {}] \in Joining
      BY DEF Joining
    <3> QED
      BY <2>7, <3>1, <3>2, <3>3, JoiningStepKeepsInv DEF MarkConnected
  <2>8. ASSUME NEW s \in Socket, NEW k \in Key, ReportEvent(s, k) PROVE Inv'
    <3>1. CASE identity[s] \in Paired
      <4>1. reporting' = [reporting EXCEPT ![s] = [stage |-> "checking", key |-> k, keys |-> {}]]
        BY <2>8, <3>1 DEF ReportEvent
      <4>2. [stage |-> "checking", key |-> k, keys |-> {}] \in Reporting
        BY DEF Reporting
      <4> QED
        BY <2>8, <4>1, <4>2, ReportingStepKeepsInv DEF ReportEvent
    <3>2. CASE identity[s] \notin Paired
      BY <2>8, <3>2, ReadSnapshotKeepsInv DEF ReportEvent
    <3> QED
      BY <3>1, <3>2
  <2>9. ASSUME NEW s \in Socket, CheckReporter(s) PROVE Inv'
    <3>1. state[s] # "new" /\ reporting[s].key \in Key
      BY <2>9 DEF Inv, CheckReporter, IdentityKept
    <3>2. CASE Revoked(identity[s])
      <4>1. reporting' = [reporting EXCEPT ![s] = [stage |-> "none", key |-> None, keys |-> {}]]
        BY <2>9, <3>2 DEF CheckReporter, Unreported
      <4>2. [stage |-> "none", key |-> None, keys |-> {}] \in Reporting
        BY DEF Reporting
      <4> QED
        BY <2>9, <4>1, <4>2, ReportingStepKeepsInv DEF CheckReporter
    <3>3. CASE ~Revoked(identity[s])
      BY <2>9, <3>1, <3>3, ReadSnapshotKeepsInv DEF CheckReporter
    <3> QED
      BY <3>2, <3>3
  <2>10. ASSUME NEW s \in Socket, DecideEvent(s) PROVE Inv'
    <3> DEFINE r == IF MayAccept(s) THEN [stage |-> "accepted", key |-> reporting[s].key, keys |-> {}]
                                    ELSE [stage |-> "none", key |-> None, keys |-> {}]
    <3>1. state[s] # "new" /\ reporting[s].key \in Key /\ reporting[s] \in Reporting
      BY <2>10 DEF Inv, DecideEvent, IdentityKept, TypeOK
    <3>2. reporting' = [reporting EXCEPT ![s] = r]
      BY <2>10 DEF DecideEvent, Unreported
    <3>3. r \in Reporting /\ (r.stage # "none" => r.key \in Key)
      BY <3>1 DEF Reporting
    <3> HIDE DEF r
    <3> QED
      BY <2>10, <3>1, <3>2, <3>3, ReportingStepKeepsInv DEF DecideEvent
  <2>11. ASSUME NEW s \in Socket, PersistEvent(s) PROVE Inv'
    <3>1. reporting' = [reporting EXCEPT ![s] = [stage |-> "none", key |-> None, keys |-> {}]]
      BY <2>11 DEF PersistEvent, Unreported
    <3>2. [stage |-> "none", key |-> None, keys |-> {}] \in Reporting
      BY DEF Reporting
    <3> QED
      BY <2>11, <3>1, <3>2, ReportingStepKeepsInv DEF PersistEvent
  <2>12. ASSUME NEW c \in Command, NEW k \in Key, Route(c, k) PROVE Inv'
    <3> DEFINE m == IF FindSocket(k) = None THEN [stage |-> "undelivered", key |-> None, socket |-> None]
                    ELSE [stage |-> IF Holder(k) \in Paired THEN "checking" ELSE "emitted",
                          key |-> k, socket |-> FindSocket(k)]
    <3>1. command' = [command EXCEPT ![c] = m]
      BY <2>12 DEF Route, Undelivered
    <3>2. FindSocket(k) # None => /\ FindSocket(k) \in Socket
                                  /\ state[FindSocket(k)] # "new"
                                  /\ identity[FindSocket(k)] = AgentOfKey[k]
      BY HolderCoversKey, KeyAssumption, NoneAssumption DEF Inv, IdentityKept
    <3>3. /\ m \in Routing
          /\ m.stage \in {"checking", "emitted"} =>
               /\ m.key \in Key /\ m.socket \in Socket
               /\ state[m.socket] # "new" /\ identity[m.socket] = AgentOfKey[m.key]
      BY <3>2 DEF Routing
    <3> HIDE DEF m
    <3>4. TypeOK'
      BY <2>12, <3>1, <3>3 DEF Inv, Route, TypeOK, registry
    <3>5. CommandsKept'
      BY <2>12, <3>1, <3>3 DEF Inv, Route, TypeOK, CommandsKept
    <3>6. RegistryConsistent' /\ ExclusiveKeys' /\ IdentityKept' /\ StaticKept'
      BY <2>12 DEF Inv, Route, registry, RegistryConsistent, ExclusiveKeys, Serves, IdentityKept, Covered, StaticKept
    <3> QED
      BY <3>4, <3>5, <3>6 DEF Inv
  <2>13. ASSUME NEW c \in Command, Emit(c) PROVE Inv'
    <3>1. command[c].key \in Key /\ AgentOfKey[command[c].key] \in Agent
      BY <2>13, KeyAssumption DEF Inv, Emit, CommandsKept
    <3>2. CASE Revoked(AgentOfKey[command[c].key])
      <4>1. /\ DisconnectAgent(AgentOfKey[command[c].key])
            /\ command' = [command EXCEPT ![c] = [stage |-> "undelivered", key |-> None, socket |-> None]]
            /\ UNCHANGED <<identity, joining, leaving, reporting, recorded, revocation>>
        BY <2>13, <3>2 DEF Emit, Undelivered
      <4>2. /\ command' \in [Command -> Routing]
            /\ revocation' \in [Agent -> {"none", "recorded", "done"}]
            /\ \A d \in Command : command'[d] = command[d] \/ command'[d].stage = "undelivered"
        BY <4>1 DEF Inv, TypeOK, Routing
      <4> QED
        BY <3>1, <4>1, <4>2, DisconnectAgentKeepsInv
    <3>3. CASE ~Revoked(AgentOfKey[command[c].key])
      <4>1. /\ command' = [command EXCEPT ![c].stage = "emitted"]
            /\ command[c].stage = "checking"
            /\ UNCHANGED <<state, identity, registry, joining, leaving, reporting, recorded, revocation>>
        BY <2>13, <3>3 DEF Inv, Emit
      <4>2. TypeOK'
        BY <4>1 DEF Inv, TypeOK, registry, Routing
      <4>3. CommandsKept'
        BY <4>1 DEF Inv, TypeOK, Routing, CommandsKept
      <4>4. RegistryConsistent' /\ ExclusiveKeys' /\ IdentityKept' /\ StaticKept'
        BY <4>1 DEF Inv, registry, RegistryConsistent, ExclusiveKeys, Serves, IdentityKept, Covered, StaticKept
      <4> QED
        BY <4>2, <4>3, <4>4 DEF Inv
    <3> QED
      BY <3>2, <3>3
  <2>14. ASSUME NEW a \in Agent, RecordRevocation(a) PROVE Inv'
    <3>1. TypeOK'
      BY <2>14 DEF Inv, RecordRevocation, TypeOK, registry
    <3>2. RegistryConsistent' /\ ExclusiveKeys' /\ IdentityKept' /\ StaticKept' /\ CommandsKept'
      BY <2>14 DEF Inv, RecordRevocation, registry, RegistryConsistent, ExclusiveKeys, Serves, IdentityKept,
         Covered, StaticKept, CommandsKept
    <3> QED
      BY <3>1, <3>2 DEF Inv
  <2>15. ASSUME NEW a \in Agent, FinishRevocation(a) PROVE Inv'
    <3>1. /\ revocation' \in [Agent -> {"none", "recorded", "done"}]
          /\ command' \in [Command -> Routing]
          /\ \A d \in Command : command'[d] = command[d] \/ command'[d].stage = "undelivered"
      BY <2>15 DEF Inv, FinishRevocation, TypeOK
    <3> QED
      BY <2>15, <3>1, DisconnectAgentKeepsInv DEF FinishRevocation
  <2>16. CASE UNCHANGED vars
    BY <2>16 DEF Inv, vars, registry, TypeOK, RegistryConsistent, ExclusiveKeys, Serves, IdentityKept,
       Covered, StaticKept, CommandsKept
  <2> QED
    BY <2>1, <2>2, <2>3, <2>4, <2>5, <2>6, <2>7, <2>8, <2>9, <2>10, <2>11, <2>12, <2>13, <2>14,
       <2>15, <2>16 DEF Next, SocketStep, CommandStep, AgentStep
<1> QED
  BY <1>1, <1>2, PTL DEF Spec

\* The three maps of ConnectedAgentsRegistry agree in every reachable state.
THEOREM RegistryAgrees == Spec => []RegistryConsistent
<1>1. Inv => RegistryConsistent
  BY DEF Inv
<1> QED
  BY <1>1, InductiveInvariant, PTL

\* A project key is never served by an agent its credential does not cover.
THEOREM KeysAreExclusive == Spec => []ExclusiveKeys
<1>1. Inv => ExclusiveKeys
  BY DEF Inv
<1> QED
  BY <1>1, InductiveInvariant, PTL

\* A statically configured agent is registered on an open socket: its
\* registration never waits, so that no disconnection can come between.
THEOREM StaticAgentsStayLive == Spec => []StaticAgentsAreLive
<1>1. Inv => StaticAgentsAreLive
  BY NoneAssumption DEF Inv, TypeOK, RegistryConsistent, StaticKept, StaticAgentsAreLive
<1> QED
  BY <1>1, InductiveInvariant, PTL

\* A command is emitted to a socket of its project's agent, whatever happened
\* between the lookup of the socket and the emission.
THEOREM CommandsArrive == Spec => []CommandsReachTheirAgent
<1>1. Inv => CommandsReachTheirAgent
  BY DEF Inv, CommandsKept, CommandsReachTheirAgent
<1> QED
  BY <1>1, InductiveInvariant, PTL

\* The gateway is sound for any agents, sockets, keys and commands.
THEOREM GatewayStaysSound == Spec => []GatewayIsSound
<1>1. Inv => TypeOK
  BY DEF Inv
<1>2. TypeOK /\ RegistryConsistent /\ ExclusiveKeys /\ StaticAgentsAreLive /\ CommandsReachTheirAgent
        => GatewayIsSound
  BY DEF GatewayIsSound
<1> QED
  BY <1>1, <1>2, InductiveInvariant, RegistryAgrees, KeysAreExclusive, StaticAgentsStayLive,
     CommandsArrive, PTL

\* An event is accepted only in a step where its sender's agent is connected
\* for the session's project.
THEOREM AcceptanceIsChecked == Spec => AcceptsFromConnectedAgent
<1> DEFINE Checked ==
      \A s \in Socket :
        reporting[s].stage = "loading" /\ reporting'[s].stage = "accepted"
          => Serves(identity[s], reporting[s].key) /\ socketOf[identity[s]] # None
<1>1. Inv /\ [Next]_vars => [Checked]_vars
  <2> SUFFICES ASSUME Inv, [Next]_vars, NEW s \in Socket,
                      reporting[s].stage = "loading", reporting'[s].stage = "accepted"
               PROVE  Serves(identity[s], reporting[s].key) /\ socketOf[identity[s]] # None
    OBVIOUS
  <2>1. reporting \in [Socket -> Reporting]
    BY DEF Inv, TypeOK
  <2>2. reporting' # reporting
    OBVIOUS
  <2>3. PICK t \in Socket : \/ \E k \in Key : ReportEvent(t, k)
                            \/ CheckReporter(t) \/ DecideEvent(t) \/ PersistEvent(t)
    BY <2>2 DEF Next, SocketStep, CommandStep, AgentStep, vars, Connect, Disconnect, MarkDisconnected,
       AnnounceAgent, CheckActive, RegisterActive, MarkConnected, Route, Emit, RecordRevocation,
       FinishRevocation
  <2>4. t = s
    BY <2>1, <2>3 DEF ReportEvent, ReadSnapshot, CheckReporter, DecideEvent, PersistEvent
  <2>5. DecideEvent(s)
    BY <2>1, <2>3, <2>4 DEF ReportEvent, CheckReporter, PersistEvent, Unreported
  <2>6. MayAccept(s) /\ reporting[s].key \in Key
    BY <2>1, <2>5 DEF Inv, IdentityKept, DecideEvent, Unreported
  <2> QED
    BY <2>6, HolderCoversKey, NoneAssumption DEF Inv, MayAccept, TypeOK, RegistryConsistent
<1> QED
  BY <1>1, InductiveInvariant, PTL DEF Spec, AcceptsFromConnectedAgent
=============================================================================
