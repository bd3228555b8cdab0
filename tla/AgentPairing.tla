----------------------------- MODULE AgentPairing -----------------------------
(***************************************************************************)
(* The API's side of device pairing (AgentOnboardingService and the        *)
(* enrolment repository).  A device is given a pairing and polls to claim  *)
(* it; a developer approves it by its code; the claim that consumes it     *)
(* registers a new agent with the credential made for that claim.          *)
(*                                                                         *)
(* Handlers run to their next await.  Each claim makes an agent id, a      *)
(* prefix and a credential of its own: the three are the claim's identity. *)
(* The clock is read in the step that compares a row with it, and the same *)
(* instant is passed to the statements that follow: what they compare with *)
(* it again has not changed.  Revocation is modelled by AgentGateway.      *)
(***************************************************************************)
CONSTANTS
  Developer,  \* signed-in developers
  Pairing,    \* pairings, each with its device code and its user code
  Claim,      \* claim requests, and the agents they may register
  None        \* no developer, pairing or claim

ASSUME DistinctAssumption == None \notin Developer \cup Pairing \cup Claim

VARIABLES
  pairings,   \* the agent_pairings rows
  approvals,  \* per developer: how far an approval is, and of which pairing
  claims,     \* per claim: how far it is, its pairing, the owner it read
  agents      \* the owners of the agent_registrations rows, by claim

pairingVars == <<pairings, approvals, claims, agents>>

Rows == [issued : BOOLEAN, expired : BOOLEAN, claimed : BOOLEAN,
         owner : Developer \cup {None}]

Approvals == [stage : {"idle", "inspecting", "approving"}, pairing : Pairing \cup {None}]
NoApproval == [stage |-> "idle", pairing |-> None]

\* A claim is answered "kept" when its pairing may be claimed again: it is
\* not approved yet, or the request failed.
Claims == [stage : {"unused", "checking", "claiming", "consuming", "kept", "gone", "paired"},
           pairing : Pairing \cup {None}, owner : Developer \cup {None}]
Unpaired(stage) == [stage |-> stage, pairing |-> None, owner |-> None]

PairingInit ==
  /\ pairings = [p \in Pairing |-> [issued |-> FALSE, expired |-> FALSE,
                                    claimed |-> FALSE, owner |-> None]]
  /\ approvals = [d \in Developer |-> NoApproval]
  /\ claims = [c \in Claim |-> Unpaired("unused")]
  /\ agents = [c \in Claim |-> None]

Row(c) == pairings[claims[c].pairing]
Answer(c, stage) == claims' = [claims EXCEPT ![c] = Unpaired(stage)]
Proceed(c, stage) == claims' = [claims EXCEPT ![c].stage = stage]

CreatePairing(p) ==
  /\ ~pairings[p].issued
  /\ pairings' = [pairings EXCEPT ![p].issued = TRUE]
  /\ UNCHANGED <<approvals, claims, agents>>

\* Ten minutes pass; a pairing that was claimed is treated as one that expired.
Expire(p) ==
  /\ pairings[p].issued /\ ~pairings[p].expired /\ ~pairings[p].claimed
  /\ pairings' = [pairings EXCEPT ![p].expired = TRUE]
  /\ UNCHANGED <<approvals, claims, agents>>
-----------------------------------------------------------------------------
(***************************************************************************)
(* Approval by a developer.                                                *)
(***************************************************************************)
\* details: the row as the developer may see it.
MayInspect(d, p) ==
  /\ pairings[p].issued
  /\ ~pairings[p].expired
  /\ ~pairings[p].claimed
  /\ pairings[p].owner \in {None, d}

\* A request for what is approved, claimed or expired already is refused or
\* changes nothing, since rows do not go back: it is left out.
RequestApproval(d, p) ==
  /\ approvals[d].stage = "idle"
  /\ MayInspect(d, p) /\ pairings[p].owner = None
  /\ approvals' = [approvals EXCEPT ![d] = [stage |-> "inspecting", pairing |-> p]]
  /\ UNCHANGED <<pairings, claims, agents>>

Inspect(d) ==
  /\ approvals[d].stage = "inspecting"
  /\ \/ /\ MayInspect(d, approvals[d].pairing)
        /\ approvals' = [approvals EXCEPT ![d].stage = "approving"]
     \/ approvals' = [approvals EXCEPT ![d] = NoApproval]  \* refused, limited or failed
  /\ UNCHANGED <<pairings, claims, agents>>

\* Mutant of MayApprove: the last approval wins.
MayApproveAgain(p) == ~pairings[p].claimed

\* The rows approvePairing updates.
MayApprove(p) == pairings[p].owner = None /\ ~pairings[p].claimed

Approve(d) ==
  LET p == approvals[d].pairing IN
  /\ approvals[d].stage = "approving"
  /\ pairings' = IF MayApprove(p) THEN [pairings EXCEPT ![p].owner = d] ELSE pairings
  /\ approvals' = [approvals EXCEPT ![d] = NoApproval]
  /\ UNCHANGED <<claims, agents>>

AbortApproval(d) ==
  /\ approvals[d].stage = "approving"
  /\ approvals' = [approvals EXCEPT ![d] = NoApproval]
  /\ UNCHANGED <<pairings, claims, agents>>
-----------------------------------------------------------------------------
(***************************************************************************)
(* Claim by the device.                                                    *)
(***************************************************************************)
RequestClaim(c, p) ==
  /\ claims[c].stage = "unused"
  /\ pairings[p].issued
  /\ claims' = [claims EXCEPT ![c] = [stage |-> "checking", pairing |-> p, owner |-> None]]
  /\ UNCHANGED <<pairings, approvals, agents>>

CheckClaim(c) ==
  /\ claims[c].stage = "checking"
  /\ \/ (Row(c).expired \/ Row(c).claimed) /\ Answer(c, "gone")
     \/ ~Row(c).expired /\ ~Row(c).claimed /\ Proceed(c, "claiming")
  /\ UNCHANGED <<pairings, approvals, agents>>

\* The transaction reads the pairing and its owner.
ReadPairing(c) ==
  /\ claims[c].stage = "claiming"
  /\ \/ Row(c).claimed /\ Answer(c, "gone")
     \/ ~Row(c).claimed /\ Row(c).owner = None /\ Answer(c, "kept")
     \/ /\ ~Row(c).claimed /\ Row(c).owner # None
        /\ claims' = [claims EXCEPT ![c].stage = "consuming", ![c].owner = Row(c).owner]
  /\ UNCHANGED <<pairings, approvals, agents>>

\* The rows the consuming update matches.
Consumable(c) == ~Row(c).claimed

\* The update, the registration and the commit.
ConsumePairing(c) ==
  /\ claims[c].stage = "consuming"
  /\ \/ /\ ~Consumable(c)
        /\ Answer(c, "gone")
        /\ UNCHANGED <<pairings, agents>>
     \/ /\ Consumable(c)
        /\ pairings' = [pairings EXCEPT ![claims[c].pairing].claimed = TRUE]
        /\ agents' = [agents EXCEPT ![c] = claims[c].owner]
        /\ Proceed(c, "paired")
  /\ UNCHANGED approvals

\* A limiter refuses, the database fails or the API stops before the commit.
FailClaim(c) ==
  /\ claims[c].stage \in {"checking", "claiming", "consuming"}
  /\ Answer(c, "kept")
  /\ UNCHANGED <<pairings, approvals, agents>>

ServeClaim(c) == CheckClaim(c) \/ ReadPairing(c) \/ ConsumePairing(c) \/ FailClaim(c)

ServeApproval(d) == Inspect(d) \/ Approve(d) \/ AbortApproval(d)

PairingNext ==
  \/ \E p \in Pairing : \/ CreatePairing(p) \/ Expire(p)
                        \/ \E d \in Developer : RequestApproval(d, p)
                        \/ \E c \in Claim : RequestClaim(c, p)
  \/ \E d \in Developer : ServeApproval(d)
  \/ \E c \in Claim : ServeClaim(c)

PairingSpec == PairingInit /\ [][PairingNext]_pairingVars
-----------------------------------------------------------------------------
PairingTypeOK ==
  /\ pairings \in [Pairing -> Rows]
  /\ approvals \in [Developer -> Approvals]
  /\ claims \in [Claim -> Claims]
  /\ agents \in [Claim -> Developer \cup {None}]

\* However claims of the same device code overlap - the desktop retries one
\* whose answer it lost - a pairing is claimed exactly when one agent, and no
\* other, was registered for it.
OneAgentPerPairing ==
  \A p \in Pairing :
    /\ pairings[p].claimed =>
         \E c \in Claim : agents[c] # None /\ claims[c].pairing = p
    /\ \A b, c \in Claim :
         /\ agents[b] # None /\ agents[c] # None
         /\ claims[b].pairing = p /\ claims[c].pairing = p
         => b = c

\* An agent belongs to the developer who is its pairing's owner: an approval
\* that arrives while a claim is between its read and its commit does not
\* give the device another owner than the row names.
AgentsBelongToApprovers ==
  \A c \in Claim : agents[c] # None =>
    /\ pairings[claims[c].pairing].claimed
    /\ pairings[claims[c].pairing].owner = agents[c]
=============================================================================
