----------------------------- MODULE DesktopAgent -----------------------------
(***************************************************************************)
(* The desktop companion's DesktopAgentManager over the pairing API.  Its  *)
(* operations run one at a time, in the order of the queue of serialize;   *)
(* an operation that awaits the API, the disk or the agent's runtime takes *)
(* several steps, and the rest of the system moves in between.  Only the   *)
(* status reports of the agent's clients come outside the queue.           *)
(*                                                                         *)
(* runtimeGeneration is only ever compared with the value its client took: *)
(* generation is the client whose number it is, None when it has moved on. *)
(* The computer has one repository to share: its key is the prefix that    *)
(* the key was made with.  Validation, tools and readiness are left out.   *)
(***************************************************************************)
EXTENDS AgentPairing

CONSTANT Client  \* the runtimes started while the application runs

ASSUME ClientAssumption == None \notin Client

VARIABLES
  initialized,  \* the profile was loaded
  profile,      \* the profile in memory
  disk,         \* profile.json
  waiting,      \* the pairing polled for
  lapsed,       \* that pairing has expired by the computer's clock
  operation,    \* the operation at the head of the queue, and what it awaits
  clients,      \* per client: "unused", "starting", "on" or "ended"
  runtime,      \* the client of the runtime
  generation,   \* the client whose reports are current
  status        \* the status displayed

profileVars == <<initialized, profile, disk>>
runtimeVars == <<clients, runtime, generation, status>>
pollVars == <<waiting, lapsed>>
desktopVars == <<profileVars, pollVars, operation, runtimeVars>>
vars == <<pairingVars, desktopVars>>

Profile == [agent : Claim \cup {None}, owner : Developer \cup {None}, keys : SUBSET Claim]
NoProfile == [agent |-> None, owner |-> None, keys |-> {}]

Idle == [kind |-> "idle", of |-> None]
Operations ==
  {Idle} \cup [kind : {"beginning"}, of : Pairing]
         \cup [kind : {"claiming", "saving"}, of : Claim]
         \cup [kind : {"starting"}, of : Client]
         \cup [kind : {"stopping"}, of : {None}]

Statuses == {"stopped", "error", "active"}  \* "active": starting, online or reconnecting

Init ==
  /\ PairingInit
  /\ initialized = FALSE
  /\ profile = NoProfile
  /\ disk = NoProfile
  /\ waiting = None
  /\ lapsed = FALSE
  /\ operation = Idle
  /\ clients = [x \in Client |-> "unused"]
  /\ runtime = None
  /\ generation = None
  /\ status = "stopped"

Doing(kind, of) == operation = [kind |-> kind, of |-> of]
Then(kind, of) == operation' = [kind |-> kind, of |-> of]

\* Pairings, claims and clients are taken in an order of their own.
NextPairing == CHOOSE p \in Pairing : ~pairings[p].issued
NextClaim == CHOOSE c \in Claim : claims[c].stage = "unused"
NextClient == CHOOSE x \in Client : clients[x] = "unused"

\* requireEditable.
Editable == initialized /\ runtime = None /\ status \in {"stopped", "error"}
-----------------------------------------------------------------------------
(***************************************************************************)
(* Pairing.  A request that is lost before the API has it changes nothing  *)
(* and is left out; an answer may be lost.                                 *)
(***************************************************************************)
BeginPairing(p) ==
  /\ operation = Idle
  /\ Editable
  /\ CreatePairing(p) /\ p = NextPairing
  /\ Then("beginning", p)
  /\ UNCHANGED <<profileVars, pollVars, runtimeVars>>

PairingBegun(p) ==
  /\ Doing("beginning", p)
  /\ waiting' = p
  /\ lapsed' = FALSE
  /\ operation' = Idle
  /\ UNCHANGED <<pairingVars, profileVars, runtimeVars>>

\* No answer within 15 seconds, or a pairing that has expired already.
BeginFails(p) ==
  /\ Doing("beginning", p)
  /\ operation' = Idle
  /\ UNCHANGED <<pairingVars, profileVars, pollVars, runtimeVars>>

Lapse ==
  /\ waiting # None /\ ~lapsed
  /\ lapsed' = TRUE
  /\ UNCHANGED <<pairingVars, profileVars, waiting, operation, runtimeVars>>

\* clearPairing.
ClearPairing == waiting' = None /\ lapsed' = FALSE

\* Mutant of Expired: the answer of the API is waited for.
NeverExpired == FALSE

Expired == lapsed

PollExpired ==
  /\ operation = Idle
  /\ waiting # None
  /\ Editable
  /\ Expired
  /\ ClearPairing
  /\ UNCHANGED <<pairingVars, profileVars, operation, runtimeVars>>

PollPairing(c) ==
  /\ operation = Idle
  /\ waiting # None
  /\ Editable
  /\ ~Expired
  /\ RequestClaim(c, waiting) /\ c = NextClaim
  /\ Then("claiming", c)
  /\ UNCHANGED <<profileVars, pollVars, runtimeVars>>

ClaimAnswered(c) ==
  /\ Doing("claiming", c)
  /\ \/ /\ claims[c].stage = "kept"
        /\ operation' = Idle
        /\ UNCHANGED pollVars
     \/ /\ claims[c].stage = "gone"
        /\ ClearPairing
        /\ operation' = Idle
     \/ /\ claims[c].stage = "paired"
        /\ Then("saving", c)
        /\ UNCHANGED pollVars
  /\ UNCHANGED <<pairingVars, profileVars, runtimeVars>>

\* The pairing is kept; the claim goes on at the API.
ClaimTimesOut(c) ==
  /\ Doing("claiming", c)
  /\ operation' = Idle
  /\ UNCHANGED <<pairingVars, profileVars, pollVars, runtimeVars>>

\* The keys of the repositories under a new agent.
KeysFor(c) == IF profile.keys = {} THEN {} ELSE {c}

Adopted(c) == [agent |-> c, owner |-> claims[c].owner, keys |-> KeysFor(c)]

\* Mutant of SavePaired: memory first.
SavePairedInMemory(c) ==
  /\ Doing("saving", c)
  /\ \/ disk' = Adopted(c)
     \/ UNCHANGED disk
  /\ profile' = Adopted(c)
  /\ ClearPairing
  /\ operation' = Idle
  /\ UNCHANGED <<pairingVars, initialized, runtimeVars>>

SavePaired(c) ==
  /\ Doing("saving", c)
  /\ \/ disk' = Adopted(c) /\ profile' = Adopted(c)
     \/ UNCHANGED <<disk, profile>>  \* the profile could not be saved
  /\ ClearPairing
  /\ operation' = Idle
  /\ UNCHANGED <<pairingVars, initialized, runtimeVars>>

CancelPairing ==
  /\ operation = Idle
  /\ ClearPairing
  /\ UNCHANGED <<pairingVars, profileVars, operation, runtimeVars>>
-----------------------------------------------------------------------------
(***************************************************************************)
(* The profile's repositories.  What fails to be saved changes nothing.    *)
(***************************************************************************)
SaveKeys(keys) ==
  /\ operation = Idle
  /\ Editable
  /\ profile.agent # None
  /\ profile' = [profile EXCEPT !.keys = keys]
  /\ disk' = [profile EXCEPT !.keys = keys]
  /\ UNCHANGED <<pairingVars, initialized, pollVars, operation, runtimeVars>>

\* A repository that is saved again keeps its key.
SaveProject == SaveKeys(IF profile.keys = {} THEN {profile.agent} ELSE profile.keys)

RemoveProject == profile.keys # {} /\ SaveKeys({})

Initialize ==
  /\ operation = Idle
  /\ ~initialized
  /\ initialized' = TRUE
  /\ profile' = disk
  /\ UNCHANGED <<pairingVars, disk, pollVars, operation, runtimeVars>>

\* The application ends, and is launched again.
Restart ==
  /\ initialized' = FALSE
  /\ profile' = NoProfile
  /\ ClearPairing
  /\ operation' = Idle
  /\ clients' = [x \in Client |-> "unused"]
  /\ runtime' = None
  /\ generation' = None
  /\ status' = "stopped"
  /\ UNCHANGED <<pairingVars, disk>>
-----------------------------------------------------------------------------
(***************************************************************************)
(* The runtime.                                                            *)
(***************************************************************************)

MayStart ==
  /\ runtime = None
  /\ waiting = None
  /\ initialized /\ profile.agent # None
  /\ profile.keys # {}

Start(x) ==
  /\ operation = Idle
  /\ MayStart
  /\ clients[x] = "unused" /\ x = NextClient
  /\ clients' = [clients EXCEPT ![x] = "starting"]
  /\ generation' = x
  /\ status' = "active"
  /\ Then("starting", x)
  /\ UNCHANGED <<pairingVars, profileVars, pollVars, runtime>>

\* buildConfig refuses a key of another agent.
Started(x) ==
  /\ Doing("starting", x)
  /\ profile.keys \subseteq {profile.agent}
  /\ clients' = [clients EXCEPT ![x] = "on"]
  /\ runtime' = x
  /\ operation' = Idle
  /\ UNCHANGED <<pairingVars, profileVars, pollVars, generation, status>>

StartFails(x) ==
  /\ Doing("starting", x)
  /\ clients' = [clients EXCEPT ![x] = "ended"]
  /\ generation' = None
  /\ status' = "error"
  /\ operation' = Idle
  /\ UNCHANGED <<pairingVars, profileVars, pollVars, runtime>>

\* Without a runtime there is nothing to await.
Stopped ==
  /\ runtime' = None
  /\ generation' = None
  /\ status' = "stopped"
  /\ operation' = Idle
  /\ UNCHANGED <<pairingVars, profileVars, pollVars>>

StopNothing == operation = Idle /\ runtime = None /\ Stopped /\ UNCHANGED clients

Stop ==
  /\ operation = Idle
  /\ runtime # None
  /\ Then("stopping", None)
  /\ UNCHANGED <<pairingVars, profileVars, pollVars, runtimeVars>>

StopSucceeds ==
  /\ Doing("stopping", None)
  /\ clients' = [clients EXCEPT ![runtime] = "ended"]
  /\ Stopped

\* The agent is busy, or its sessions could not be shut down.
StopFails ==
  /\ Doing("stopping", None)
  /\ operation' = Idle
  /\ UNCHANGED <<pairingVars, profileVars, pollVars, runtimeVars>>

Current(x) == generation = x

\* onStatus.  The client of a failed start may still have a registration in
\* flight, and reports when it ends.
Report(x, s) ==
  /\ clients[x] \in {"starting", "on", "ended"}
  /\ Current(x)
  /\ status' = s
  /\ UNCHANGED <<pairingVars, profileVars, pollVars, operation, clients, runtime, generation>>
-----------------------------------------------------------------------------
DesktopPairs ==
  \/ \E p \in Pairing : BeginPairing(p) \/ PairingBegun(p) \/ BeginFails(p)
  \/ \E c \in Claim : PollPairing(c) \/ ClaimAnswered(c) \/ ClaimTimesOut(c) \/ SavePaired(c)
  \/ Lapse \/ PollExpired \/ CancelPairing

DesktopEdits == SaveProject \/ RemoveProject \/ Initialize \/ Restart

DesktopRuns ==
  \/ \E x \in Client : \/ Start(x) \/ Started(x) \/ StartFails(x)
                       \/ \E s \in Statuses \ {"stopped"} : Report(x, s)
  \/ StopNothing \/ Stop \/ StopSucceeds \/ StopFails

ApiServes ==
  /\ \/ \E p \in Pairing : Expire(p) \/ \E d \in Developer : RequestApproval(d, p)
     \/ \E d \in Developer : ServeApproval(d)
     \/ \E c \in Claim : ServeClaim(c)
  /\ UNCHANGED desktopVars

Next == DesktopPairs \/ DesktopEdits \/ DesktopRuns \/ ApiServes

Spec == Init /\ [][Next]_vars

\* Requests are abandoned after 15 seconds, the clock of the computer runs,
\* and the renderer polls every two seconds while its window is shown.
Fairness ==
  /\ \A p \in Pairing : WF_vars(BeginFails(p) \/ PairingBegun(p))
  /\ \A c \in Claim : WF_vars(ClaimAnswered(c) \/ ClaimTimesOut(c)) /\ WF_vars(SavePaired(c))
  /\ WF_vars(Lapse) /\ WF_vars(PollExpired)

FairSpec == Spec /\ Fairness
-----------------------------------------------------------------------------
TypeOK ==
  /\ PairingTypeOK
  /\ initialized \in BOOLEAN
  /\ profile \in Profile
  /\ disk \in Profile
  /\ waiting \in Pairing \cup {None}
  /\ lapsed \in BOOLEAN
  /\ operation \in Operations
  /\ clients \in [Client -> {"unused", "starting", "on", "ended"}]
  /\ runtime \in Client \cup {None}
  /\ generation \in Client \cup {None}
  /\ status \in Statuses

\* Whatever was lost, retried or interrupted, a profile - the one in memory
\* and the one a restart will load - names an agent the API registered for
\* the developer it displays, with the credential of that agent.
ProfilesAreRegistered ==
  \A known \in {profile, disk} :
    known.agent # None => known.owner # None /\ agents[known.agent] = known.owner

\* A profile that could not be saved is not used: between operations memory
\* and disk agree, so a restart changes nothing.
MemoryIsSaved == initialized => profile = disk

\* Pairing again renews the keys of the repositories: the start of an agent
\* is never refused because a key carries the prefix of an earlier agent.
KeysBelongToTheAgent == \A known \in {profile, disk} : known.keys \subseteq {known.agent}

\* Late reports of a client that failed to start or was stopped do not lock
\* the configuration: with no runtime and no operation in progress, an
\* initialized desktop can be edited.
EditableWithoutRuntime ==
  initialized /\ runtime = None /\ operation = Idle => Editable

\* The identity of an agent is not replaced while it runs: nothing is
\* polled for when a client starts or a runtime exists.
NoPairingWhileRunning ==
  waiting # None => runtime = None /\ operation.kind # "starting"

\* However claims, approvals, retries and restarts overlap, a pairing makes one agent,
\* of the developer who approved it, and the profile is that agent's.
IdentityIsTheApprovers ==
  OneAgentPerPairing /\ AgentsBelongToApprovers /\ ProfilesAreRegistered

\* However operations fail and clients report late, memory and disk agree, repositories
\* carry the keys of the current agent, nothing is paired while an agent runs and the
\* configuration is not locked without one.
ConfigurationIsSound ==
  TypeOK /\ MemoryIsSaved /\ KeysBelongToTheAgent /\ EditableWithoutRuntime /\ NoPairingWhileRunning

\* No pairing is polled for without end, although the API may never approve
\* it, lose requests and answer late.
PairingsEnd == \A p \in Pairing : waiting = p ~> waiting # p
=============================================================================
