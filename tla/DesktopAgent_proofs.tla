------------------------- MODULE DesktopAgent_proofs -------------------------
(***************************************************************************)
(* Proofs about the pairing of a local agent, for any number of            *)
(* developers, pairings, claims and runtimes: what AgentPairing keeps      *)
(* whichever clients there are, that the desktop manager of DesktopAgent   *)
(* is one of them, and what it keeps.                                      *)
(***************************************************************************)
EXTENDS DesktopAgent, TLAPS

\* What a claim in progress knows is still true: the owner it read has not
\* changed, and a paired claim is the only one of its pairing.
ClaimsAreSound ==
  \A c \in Claim :
    /\ claims[c].stage \in {"checking", "claiming", "consuming", "paired"} =>
         claims[c].pairing \in Pairing
    /\ claims[c].stage \in {"consuming", "paired"} =>
         /\ claims[c].owner \in Developer
         /\ Row(c).owner = claims[c].owner
    /\ claims[c].stage = "paired" => Row(c).claimed /\ agents[c] = claims[c].owner
    /\ claims[c].stage # "paired" => agents[c] = None

PairedOnce ==
  \A b, c \in Claim :
    claims[b].stage = "paired" /\ claims[c].stage = "paired"
      /\ claims[b].pairing = claims[c].pairing => b = c

ClaimedByOne ==
  \A p \in Pairing : pairings[p].claimed =>
    \E c \in Claim : claims[c].stage = "paired" /\ claims[c].pairing = p

PairingInv == PairingTypeOK /\ ClaimsAreSound /\ PairedOnce /\ ClaimedByOne
-----------------------------------------------------------------------------
LEMMA PairingInitInv == PairingInit => PairingInv
  BY DistinctAssumption
  DEF PairingInit, PairingInv, PairingTypeOK, Rows, Approvals, NoApproval, Claims, Unpaired,
      ClaimsAreSound, PairedOnce, ClaimedByOne

\* A step that only changes approvals or one row outside its owner and its
\* claim.
LEMMA QuietRows ==
  ASSUME PairingInv, pairings' \in [Pairing -> Rows], UNCHANGED <<claims, agents>>,
         approvals' \in [Developer -> Approvals],
         \A p \in Pairing : /\ pairings'[p].claimed = pairings[p].claimed
                            /\ pairings[p].owner # None => pairings'[p].owner = pairings[p].owner
  PROVE  PairingInv'
<1> USE DEF PairingInv, PairingTypeOK
<1>1. ClaimsAreSound'
  BY DistinctAssumption DEF ClaimsAreSound, Row
<1>2. PairedOnce' /\ ClaimedByOne'
  BY DEF PairedOnce, ClaimedByOne
<1> QED
  BY <1>1, <1>2

\* A claim that moves without pairing: nothing else depends on it.
LEMMA QuietClaim ==
  ASSUME PairingInv, NEW c \in Claim, NEW r \in Claims,
         claims[c].stage # "paired", r.stage # "paired",
         r.stage \in {"checking", "claiming", "consuming"} => r.pairing \in Pairing,
         r.stage = "consuming" => /\ r.owner \in Developer
                                  /\ pairings[r.pairing].owner = r.owner,
         claims' = [claims EXCEPT ![c] = r], UNCHANGED <<pairings, approvals, agents>>
  PROVE  PairingInv'
<1> USE DEF PairingInv, PairingTypeOK
<1>0. PairingTypeOK'
  OBVIOUS
<1>1. ClaimsAreSound'
  BY DEF ClaimsAreSound, Row
<1>2. PairedOnce'
  BY DEF PairedOnce
<1>3. ClaimedByOne'
  BY DEF ClaimedByOne
<1> QED
  BY <1>0, <1>1, <1>2, <1>3

LEMMA ConsumeKeepsInv ==
  ASSUME PairingInv, NEW c \in Claim, ConsumePairing(c)
  PROVE  PairingInv'
<1> USE DEF PairingInv, PairingTypeOK
<1> DEFINE p == claims[c].pairing
<1>0. /\ claims[c] \in Claims /\ claims[c].stage = "consuming"
      /\ p \in Pairing /\ claims[c].owner \in Developer
      /\ pairings[p] \in Rows /\ pairings[p].owner = claims[c].owner
  BY DEF ConsumePairing, ClaimsAreSound, Row
<1>1. CASE ~Consumable(c)
  <2>1. Unpaired("gone") \in Claims
    BY DEF Unpaired, Claims
  <2>2. claims' = [claims EXCEPT ![c] = Unpaired("gone")] /\ UNCHANGED <<pairings, approvals, agents>>
    BY <1>1 DEF ConsumePairing, Answer
  <2> QED
    BY <1>0, <2>1, <2>2, QuietClaim DEF Unpaired
<1>2. CASE Consumable(c)
  <2>1. /\ pairings' = [pairings EXCEPT ![p].claimed = TRUE]
        /\ agents' = [agents EXCEPT ![c] = claims[c].owner]
        /\ claims' = [claims EXCEPT ![c].stage = "paired"]
        /\ UNCHANGED approvals
        /\ ~pairings[p].claimed
    BY <1>2 DEF ConsumePairing, Consumable, Proceed, Row
  <2>2. \A b \in Claim : claims[b].stage = "paired" => b # c /\ claims[b].pairing # p
    BY <1>0, <2>1 DEF ClaimsAreSound, Row
  <2>3. PairingTypeOK'
    <3>1. [pairings[p] EXCEPT !.claimed = TRUE] \in Rows
      BY <1>0 DEF Rows
    <3>2. [claims[c] EXCEPT !.stage = "paired"] \in Claims
      BY <1>0 DEF Claims
    <3> QED
      BY <1>0, <2>1, <3>1, <3>2
  <2>4. /\ \A q \in Pairing : /\ pairings'[q].owner = pairings[q].owner
                              /\ pairings'[q].claimed = (q = p \/ pairings[q].claimed)
        /\ \A b \in Claim : /\ claims'[b].pairing = claims[b].pairing
                            /\ claims'[b].owner = claims[b].owner
                            /\ claims'[b].stage = IF b = c THEN "paired" ELSE claims[b].stage
                            /\ agents'[b] = IF b = c THEN claims[c].owner ELSE agents[b]
    BY <1>0, <2>1 DEF Rows, Claims
  <2>5. ClaimsAreSound'
    <3> SUFFICES ASSUME NEW b \in Claim
                 PROVE  (/\ claims[b].stage \in {"checking", "claiming", "consuming", "paired"} =>
                              claims[b].pairing \in Pairing
                         /\ claims[b].stage \in {"consuming", "paired"} =>
                              /\ claims[b].owner \in Developer
                              /\ Row(b).owner = claims[b].owner
                         /\ claims[b].stage = "paired" => Row(b).claimed /\ agents[b] = claims[b].owner
                         /\ claims[b].stage # "paired" => agents[b] = None)'
      BY DEF ClaimsAreSound
    <3>1. CASE b = c
      BY <1>0, <2>4, <3>1 DEF Row
    <3>2. CASE b # c
      <4>1. /\ claims'[b] = claims[b] /\ agents'[b] = agents[b]
        BY <2>1, <3>2
      <4>2. claims[b].pairing \in Pairing =>
              /\ pairings'[claims[b].pairing].owner = pairings[claims[b].pairing].owner
              /\ pairings[claims[b].pairing].claimed => pairings'[claims[b].pairing].claimed
        BY <2>4
      <4> QED
        BY <4>1, <4>2 DEF ClaimsAreSound, Row
    <3> QED
      BY <3>1, <3>2
  <2>6. PairedOnce'
    BY <1>0, <2>2, <2>4 DEF PairedOnce
  <2>7. ClaimedByOne'
    <3> SUFFICES ASSUME NEW q \in Pairing, pairings'[q].claimed
                 PROVE  \E b \in Claim : claims'[b].stage = "paired" /\ claims'[b].pairing = q
      BY DEF ClaimedByOne
    <3>1. CASE q = p
      BY <2>4, <3>1
    <3>2. CASE q # p
      <4>1. PICK b \in Claim : claims[b].stage = "paired" /\ claims[b].pairing = q
        BY <2>4, <3>2 DEF ClaimedByOne
      <4> QED
        BY <2>4, <4>1
    <3> QED
      BY <3>1, <3>2
  <2> QED
    BY <2>3, <2>5, <2>6, <2>7
<1> QED
  BY <1>1, <1>2

LEMMA PairingNextInv == PairingInv /\ [PairingNext]_pairingVars => PairingInv'
<1> SUFFICES ASSUME PairingInv, [PairingNext]_pairingVars
             PROVE  PairingInv'
  OBVIOUS
<1>T. /\ pairings \in [Pairing -> Rows] /\ approvals \in [Developer -> Approvals]
      /\ claims \in [Claim -> Claims] /\ agents \in [Claim -> Developer \cup {None}]
  BY DEF PairingInv, PairingTypeOK
<1>1. ASSUME NEW p \in Pairing, CreatePairing(p) \/ Expire(p)
      PROVE  PairingInv'
  <2>1. pairings' \in [Pairing -> Rows] /\ UNCHANGED <<approvals, claims, agents>>
    BY <1>T, <1>1 DEF CreatePairing, Expire, Rows
  <2>2. \A q \in Pairing : /\ pairings'[q].claimed = pairings[q].claimed
                           /\ pairings'[q].owner = pairings[q].owner
    BY <1>T, <1>1 DEF CreatePairing, Expire, Rows
  <2> QED
    BY <1>T, <2>1, <2>2, QuietRows
<1>2. ASSUME NEW p \in Pairing, NEW d \in Developer, RequestApproval(d, p)
      PROVE  PairingInv'
  <2>1. [stage |-> "inspecting", pairing |-> p] \in Approvals
    BY DEF Approvals
  <2> QED
    BY <1>T, <1>2, <2>1, QuietRows DEF RequestApproval
<1>3. ASSUME NEW p \in Pairing, NEW c \in Claim, RequestClaim(c, p)
      PROVE  PairingInv'
  <2> DEFINE r == [stage |-> "checking", pairing |-> p, owner |-> None]
  <2>1. r \in Claims
    BY DEF Claims
  <2> QED
    BY <1>3, <2>1, QuietClaim DEF RequestClaim
<1>4. ASSUME NEW d \in Developer, ServeApproval(d)
      PROVE  PairingInv'
  <2>1. NoApproval \in Approvals /\ approvals[d] \in Approvals
    BY <1>T DEF NoApproval, Approvals
  <2>2. CASE Inspect(d) \/ AbortApproval(d)
    <3>1. [approvals[d] EXCEPT !.stage = "approving"] \in Approvals
      BY <2>1 DEF Approvals
    <3> QED
      BY <1>T, <2>1, <2>2, <3>1, QuietRows DEF Inspect, AbortApproval
  <2>3. CASE Approve(d)
    <3> DEFINE p == approvals[d].pairing
    <3>1. /\ approvals' = [approvals EXCEPT ![d] = NoApproval] /\ UNCHANGED <<claims, agents>>
          /\ pairings' = IF MayApprove(p) THEN [pairings EXCEPT ![p].owner = d] ELSE pairings
      BY <2>3 DEF Approve
    <3>2. pairings' \in [Pairing -> Rows]
      BY <1>T, <3>1 DEF Rows
    <3>3. \A q \in Pairing : /\ pairings'[q].claimed = pairings[q].claimed
                             /\ pairings[q].owner # None => pairings'[q].owner = pairings[q].owner
      BY <1>T, <3>1 DEF MayApprove, Rows
    <3> QED
      BY <1>T, <2>1, <3>1, <3>2, <3>3, QuietRows
  <2> QED
    BY <1>4, <2>2, <2>3 DEF ServeApproval
<1>5. ASSUME NEW c \in Claim, ServeClaim(c)
      PROVE  PairingInv'
  <2>0. /\ claims[c] \in Claims
        /\ Unpaired("gone") \in Claims /\ Unpaired("kept") \in Claims
        /\ Unpaired("gone").stage = "gone" /\ Unpaired("kept").stage = "kept"
    BY <1>T DEF Claims, Unpaired
  <2>1. claims[c].stage \in {"checking", "claiming"} => claims[c].pairing \in Pairing
    BY DEF PairingInv, ClaimsAreSound
  <2>2. CASE CheckClaim(c)
    <3>1. [claims[c] EXCEPT !.stage = "claiming"] \in Claims
      BY <2>0 DEF Claims
    <3>2. [claims[c] EXCEPT !.stage = "claiming"].pairing = claims[c].pairing
      BY <2>0 DEF Claims
    <3> QED
      BY <2>0, <2>1, <2>2, <3>1, <3>2, QuietClaim DEF CheckClaim, Answer, Proceed, Claims
  <2>3. CASE ReadPairing(c)
    <3> DEFINE r == [claims[c] EXCEPT !.stage = "consuming", !.owner = Row(c).owner]
    <3>0. claims[c].stage = "claiming" /\ claims[c].pairing \in Pairing
      BY <2>1, <2>3 DEF ReadPairing
    <3>1. CASE claims' = [claims EXCEPT ![c] = r] /\ Row(c).owner # None
      <4>1. Row(c).owner \in Developer
        BY <1>T, <3>0, <3>1 DEF Row, Rows
      <4>2. r \in Claims /\ r.stage = "consuming" /\ r.pairing = claims[c].pairing /\ r.owner = Row(c).owner
        BY <2>0, <4>1 DEF Claims
      <4>3. UNCHANGED <<pairings, approvals, agents>>
        BY <2>3 DEF ReadPairing
      <4> HIDE DEF r
      <4> QED
        BY <3>0, <3>1, <4>1, <4>2, <4>3, QuietClaim DEF Row
    <3>2. CASE Answer(c, "gone") \/ Answer(c, "kept")
      BY <2>0, <2>3, <3>0, <3>2, QuietClaim DEF ReadPairing, Answer
    <3> QED
      BY <1>T, <2>3, <3>1, <3>2 DEF ReadPairing
  <2>4. CASE ConsumePairing(c)
    BY <2>4, ConsumeKeepsInv
  <2>5. CASE FailClaim(c)
    BY <2>0, <2>5, QuietClaim DEF FailClaim, Answer
  <2> QED
    BY <1>5, <2>2, <2>3, <2>4, <2>5 DEF ServeClaim
<1>6. CASE UNCHANGED pairingVars
  BY <1>T, <1>6, QuietRows DEF pairingVars
<1> QED
  BY <1>1, <1>2, <1>3, <1>4, <1>5, <1>6 DEF PairingNext

\* The invariant of the pairing protocol, whoever claims and approves.
THEOREM PairingInvariant == PairingSpec => []PairingInv
  BY PairingInitInv, PairingNextInv, PTL DEF PairingSpec

LEMMA InvImpliesSafety == PairingInv => OneAgentPerPairing /\ AgentsBelongToApprovers
<1> SUFFICES ASSUME PairingInv
             PROVE  OneAgentPerPairing /\ AgentsBelongToApprovers
  OBVIOUS
<1>1. \A c \in Claim : agents[c] # None <=> claims[c].stage = "paired"
  BY DistinctAssumption DEF PairingInv, ClaimsAreSound
<1>2. OneAgentPerPairing
  BY <1>1 DEF PairingInv, PairedOnce, ClaimedByOne, OneAgentPerPairing
<1>3. AgentsBelongToApprovers
  BY <1>1 DEF PairingInv, ClaimsAreSound, AgentsBelongToApprovers, Row
<1> QED
  BY <1>2, <1>3

\* A pairing registers one agent, for any interleaving of claims and approvals.
THEOREM OneAgent == PairingSpec => []OneAgentPerPairing
  BY PairingInvariant, InvImpliesSafety, PTL

\* A registered agent belongs to the developer its pairing's row names.
THEOREM ApproversOwn == PairingSpec => []AgentsBelongToApprovers
  BY PairingInvariant, InvImpliesSafety, PTL
-----------------------------------------------------------------------------
(***************************************************************************)
(* The desktop manager.                                                    *)
(***************************************************************************)
\* An answer being saved, and every profile, is that of a paired claim.
ProfilesArePaired ==
  /\ \A c \in Claim : Doing("saving", c) => claims[c].stage = "paired"
  /\ \A known \in {profile, disk} : known.agent # None =>
       /\ claims[known.agent].stage = "paired"
       /\ known.owner = claims[known.agent].owner

\* What an operation in progress excludes, and who may report a status.
OperationsExclude ==
  /\ operation.kind = "starting" => runtime = None /\ waiting = None
  /\ operation.kind = "stopping" => runtime # None
  /\ operation.kind \in {"beginning", "claiming", "saving"} => runtime = None
  /\ waiting # None => runtime = None
  /\ runtime = None /\ operation.kind # "starting" =>
       generation = None /\ status \in {"stopped", "error"}

ProfileInv == ProfilesArePaired /\ MemoryIsSaved /\ KeysBelongToTheAgent

DesktopInv == TypeOK /\ PairingInv /\ ProfileInv /\ OperationsExclude
-----------------------------------------------------------------------------
\* Every step of the desktop is a step of the pairing protocol, or none.
LEMMA StepsArePairingSteps == TypeOK /\ [Next]_vars => [PairingNext]_pairingVars
<1> SUFFICES ASSUME TypeOK, [Next]_vars
             PROVE  [PairingNext]_pairingVars
  OBVIOUS
<1>1. CASE DesktopPairs
  <2>1. ASSUME NEW p \in Pairing, BeginPairing(p) \/ PairingBegun(p) \/ BeginFails(p)
        PROVE  [PairingNext]_pairingVars
    BY <2>1 DEF BeginPairing, PairingBegun, BeginFails, PairingNext
  <2>2. ASSUME NEW c \in Claim, PollPairing(c)
        PROVE  [PairingNext]_pairingVars
    <3>1. waiting \in Pairing
      BY <2>2 DEF TypeOK, PollPairing
    <3> QED
      BY <2>2, <3>1 DEF PollPairing, PairingNext
  <2>3. ASSUME NEW c \in Claim, ClaimAnswered(c) \/ ClaimTimesOut(c) \/ SavePaired(c)
        PROVE  [PairingNext]_pairingVars
    BY <2>3 DEF ClaimAnswered, ClaimTimesOut, SavePaired
  <2>4. CASE Lapse \/ PollExpired \/ CancelPairing
    BY <2>4 DEF Lapse, PollExpired, CancelPairing
  <2> QED
    BY <1>1, <2>1, <2>2, <2>3, <2>4 DEF DesktopPairs
<1>2. CASE DesktopEdits
  BY <1>2 DEF DesktopEdits, SaveProject, RemoveProject, SaveKeys, Initialize, Restart
<1>3. CASE DesktopRuns
  BY <1>3 DEF DesktopRuns, Start, Started, StartFails, Report, StopNothing, Stop, StopSucceeds,
              StopFails, Stopped
<1>4. CASE ApiServes
  BY <1>4 DEF ApiServes, PairingNext
<1>5. CASE UNCHANGED vars
  BY <1>5 DEF vars
<1> QED
  BY <1>1, <1>2, <1>3, <1>4, <1>5 DEF Next

\* A claim that was paired stays paired, with its owner.
LEMMA PairedStays ==
  ASSUME PairingInv, [PairingNext]_pairingVars, NEW c \in Claim, claims[c].stage = "paired"
  PROVE  claims'[c] = claims[c]
<1> USE DEF PairingInv, PairingTypeOK
<1>1. ASSUME NEW b \in Claim, NEW p \in Pairing, RequestClaim(b, p)
      PROVE  claims'[c] = claims[c]
  BY <1>1 DEF RequestClaim
<1>2. ASSUME NEW b \in Claim, ServeClaim(b)
      PROVE  claims'[c] = claims[c]
  BY <1>2 DEF ServeClaim, CheckClaim, ReadPairing, ConsumePairing, FailClaim, Answer, Proceed
<1>3. ASSUME NEW p \in Pairing, NEW d \in Developer,
             RequestApproval(d, p)
      PROVE  claims'[c] = claims[c]
  BY <1>3 DEF RequestApproval
<1>4. ASSUME NEW p \in Pairing, CreatePairing(p) \/ Expire(p)
      PROVE  claims'[c] = claims[c]
  BY <1>4 DEF CreatePairing, Expire
<1>5. ASSUME NEW d \in Developer, ServeApproval(d)
      PROVE  claims'[c] = claims[c]
  BY <1>5 DEF ServeApproval, Inspect, Approve, AbortApproval
<1> QED
  BY <1>1, <1>2, <1>3, <1>4, <1>5 DEF PairingNext, pairingVars
-----------------------------------------------------------------------------
LEMMA TypeStep ==
  ASSUME TypeOK, PairingInv, PairingInv', [Next]_vars
  PROVE  TypeOK'
<1> USE DEF TypeOK
<1>0. /\ PairingTypeOK'
      /\ Idle \in Operations /\ NoProfile \in Profile
      /\ \A p \in Pairing : [kind |-> "beginning", of |-> p] \in Operations
      /\ \A c \in Claim : /\ [kind |-> "claiming", of |-> c] \in Operations
                          /\ [kind |-> "saving", of |-> c] \in Operations
      /\ \A x \in Client : [kind |-> "starting", of |-> x] \in Operations
      /\ [kind |-> "stopping", of |-> None] \in Operations
  BY DEF PairingInv, Idle, Operations, NoProfile, Profile
<1>1. CASE DesktopPairs
  <2>1. ASSUME NEW c \in Claim
        PROVE  Adopted(c) \in Profile
    <3>1. claims[c].owner \in Developer \cup {None}
      BY DEF PairingTypeOK, Claims
    <3> QED
      BY <3>1 DEF Adopted, KeysFor, Profile
  <2> QED
    BY <1>0, <1>1, <2>1
    DEF DesktopPairs, BeginPairing, PairingBegun, BeginFails, Lapse, PollPairing, ClaimAnswered,
        ClaimTimesOut, SavePaired, PollExpired, CancelPairing, ClearPairing, Then, profileVars,
        pollVars, runtimeVars
<1>2. CASE DesktopEdits
  <2>1. ASSUME NEW keys \in SUBSET Claim
        PROVE  [profile EXCEPT !.keys = keys] \in Profile
    BY DEF Profile
  <2>2. profile.keys \in SUBSET Claim /\ profile.agent \in Claim \cup {None}
    BY DEF Profile
  <2>3. CASE SaveProject \/ RemoveProject
    BY <1>0, <2>1, <2>2, <2>3 DEF SaveProject, RemoveProject, SaveKeys, pollVars, runtimeVars
  <2>4. CASE Initialize \/ Restart
    BY <1>0, <2>4 DEF Initialize, Restart, ClearPairing, Statuses, pollVars, runtimeVars
  <2> QED
    BY <1>2, <2>3, <2>4 DEF DesktopEdits
<1>3. CASE DesktopRuns
  <2>1. ASSUME NEW x \in Client, Start(x) \/ Started(x) \/ StartFails(x)
        PROVE  TypeOK'
    BY <1>0, <2>1 DEF Start, Started, StartFails, Then, Statuses, profileVars, pollVars
  <2>2. ASSUME NEW x \in Client, NEW s \in Statuses, Report(x, s)
        PROVE  TypeOK'
    BY <1>0, <2>2 DEF Report, profileVars, pollVars
  <2>3. CASE StopNothing \/ Stop \/ StopSucceeds \/ StopFails
    BY <1>0, <2>3 DEF StopNothing, Stop, StopSucceeds, StopFails, Stopped, Then, Statuses, profileVars,
                      pollVars, runtimeVars
  <2> QED
    BY <1>3, <2>1, <2>2, <2>3 DEF DesktopRuns
<1>4. CASE ApiServes \/ UNCHANGED vars
  BY <1>0, <1>4 DEF ApiServes, vars, desktopVars, profileVars, pollVars, runtimeVars
<1> QED
  BY <1>1, <1>2, <1>3, <1>4 DEF Next
-----------------------------------------------------------------------------
LEMMA OperationsStep ==
  ASSUME TypeOK, OperationsExclude, [Next]_vars
  PROVE  OperationsExclude'
<1> USE ClientAssumption, DistinctAssumption DEF TypeOK, OperationsExclude
<1>0. Idle.kind = "idle"
  BY DEF Idle
<1>1. CASE DesktopPairs
  BY <1>0, <1>1
  DEF DesktopPairs, BeginPairing, PairingBegun, BeginFails, Lapse, PollPairing, ClaimAnswered,
      ClaimTimesOut, SavePaired, PollExpired, CancelPairing, ClearPairing, Doing, Then, Editable,
      profileVars, pollVars, runtimeVars
<1>2. CASE DesktopEdits
  BY <1>0, <1>2 DEF DesktopEdits, SaveProject, RemoveProject, SaveKeys, Initialize, Restart,
                    ClearPairing, pollVars, runtimeVars
<1>3. CASE DesktopRuns
  <2>1. ASSUME NEW x \in Client, Start(x) \/ Started(x) \/ StartFails(x)
        PROVE  OperationsExclude'
    BY <1>0, <2>1 DEF Start, Started, StartFails, MayStart, Doing, Then, profileVars, pollVars
  <2>2. ASSUME NEW x \in Client, NEW s \in Statuses, Report(x, s)
        PROVE  OperationsExclude'
    BY <2>2 DEF Report, Current, profileVars, pollVars
  <2>3. CASE StopNothing \/ Stop \/ StopSucceeds \/ StopFails
    BY <1>0, <2>3 DEF StopNothing, Stop, StopSucceeds, StopFails, Stopped, Doing, Then, profileVars,
                      pollVars, runtimeVars
  <2> QED
    BY <1>3, <2>1, <2>2, <2>3 DEF DesktopRuns
<1>4. CASE ApiServes \/ UNCHANGED vars
  BY <1>4 DEF ApiServes, vars, desktopVars, profileVars, pollVars, runtimeVars
<1> QED
  BY <1>1, <1>2, <1>3, <1>4 DEF Next
-----------------------------------------------------------------------------
LEMMA ProfileStep ==
  ASSUME TypeOK, PairingInv, ProfileInv, TypeOK', [Next]_vars
  PROVE  ProfileInv'
<1> USE DistinctAssumption DEF ProfileInv, ProfilesArePaired, MemoryIsSaved, KeysBelongToTheAgent
<1>P. /\ profile \in Profile /\ disk \in Profile
      /\ profile.agent \in Claim \cup {None} /\ disk.agent \in Claim \cup {None}
  BY DEF TypeOK, Profile
<1>S. \A c \in Claim : claims[c].stage = "paired" => claims'[c] = claims[c]
  BY StepsArePairingSteps, PairedStays
\* The profiles are left alone, and what is being saved at most dropped.
<1>Q. ASSUME UNCHANGED profileVars,
             \A c \in Claim : Doing("saving", c)' => claims[c].stage = "paired"
      PROVE  ProfileInv'
  BY <1>P, <1>S, <1>Q DEF profileVars
<1>N. \A c \in Claim : Idle # [kind |-> "saving", of |-> c]
  BY DEF Idle
<1>1. CASE DesktopPairs
  <2>1. ASSUME NEW p \in Pairing, BeginPairing(p) \/ PairingBegun(p) \/ BeginFails(p)
        PROVE  ProfileInv'
    BY <1>N, <1>Q, <2>1 DEF BeginPairing, PairingBegun, BeginFails, Doing, Then
  <2>2. ASSUME NEW c \in Claim, PollPairing(c) \/ ClaimAnswered(c) \/ ClaimTimesOut(c)
        PROVE  ProfileInv'
    BY <1>N, <1>Q, <2>2 DEF PollPairing, ClaimAnswered, ClaimTimesOut, Doing, Then
  <2>3. ASSUME NEW c \in Claim, SavePaired(c)
        PROVE  ProfileInv'
    <3>1. claims[c].stage = "paired" /\ UNCHANGED <<claims, initialized>> /\ operation' = Idle
      BY <2>3 DEF SavePaired, pairingVars
    <3>2. /\ Adopted(c).agent = c /\ Adopted(c).owner = claims[c].owner
          /\ Adopted(c).keys \subseteq {c}
      BY DEF Adopted, KeysFor
    <3>3. CASE disk' = Adopted(c) /\ profile' = Adopted(c)
      BY <1>N, <3>1, <3>2, <3>3 DEF Doing
    <3>4. CASE UNCHANGED <<disk, profile>>
      BY <1>N, <1>Q, <3>1, <3>4 DEF Doing, profileVars
    <3> QED
      BY <2>3, <3>3, <3>4 DEF SavePaired
  <2>4. CASE Lapse \/ PollExpired \/ CancelPairing
    BY <1>Q, <2>4 DEF Lapse, PollExpired, CancelPairing, Doing
  <2> QED
    BY <1>1, <2>1, <2>2, <2>3, <2>4 DEF DesktopPairs
<1>2. CASE DesktopEdits
  <2>1. ASSUME NEW keys \in SUBSET Claim, keys \subseteq {profile.agent}, SaveKeys(keys)
        PROVE  ProfileInv'
    <3> DEFINE edited == [profile EXCEPT !.keys = keys]
    <3>1. edited.agent = profile.agent /\ edited.owner = profile.owner /\ edited.keys = keys
      BY <1>P DEF Profile
    <3>2. /\ profile' = edited /\ disk' = edited
          /\ UNCHANGED <<claims, operation, initialized>>
      BY <2>1 DEF SaveKeys, pairingVars
    <3> HIDE DEF edited
    <3> QED
      BY <2>1, <3>1, <3>2 DEF Doing
  <2>2. CASE SaveProject
    <3>1. profile.agent \in Claim /\ profile.keys \in SUBSET Claim
      BY <1>P, <2>2 DEF SaveProject, SaveKeys, Profile
    <3> QED
      BY <2>1, <2>2, <3>1 DEF SaveProject
  <2>3. CASE RemoveProject
    BY <2>1, <2>3 DEF RemoveProject
  <2>4. CASE Initialize \/ Restart
    BY <1>N, <2>4 DEF Initialize, Restart, NoProfile, Doing, pairingVars
  <2> QED
    BY <1>2, <2>2, <2>3, <2>4 DEF DesktopEdits
<1>3. CASE DesktopRuns
  BY <1>N, <1>Q, <1>3 DEF DesktopRuns, Start, Started, StartFails, Report, StopNothing, Stop,
                          StopSucceeds, StopFails, Stopped, Doing, Then
<1>4. CASE ApiServes \/ UNCHANGED vars
  BY <1>Q, <1>4 DEF ApiServes, vars, desktopVars, Doing
<1> QED
  BY <1>1, <1>2, <1>3, <1>4 DEF Next
-----------------------------------------------------------------------------
LEMMA InitInv == Init => DesktopInv
<1> SUFFICES ASSUME Init
             PROVE  DesktopInv
  OBVIOUS
<1>1. PairingInv
  BY PairingInitInv DEF Init
<1>2. TypeOK
  BY <1>1 DEF Init, TypeOK, PairingInv, Profile, NoProfile, Operations, Statuses
<1>3. ProfileInv /\ OperationsExclude
  BY DEF Init, ProfileInv, ProfilesArePaired, MemoryIsSaved, KeysBelongToTheAgent, OperationsExclude,
         NoProfile, Idle, Doing
<1> QED
  BY <1>1, <1>2, <1>3 DEF DesktopInv

LEMMA StepInv == DesktopInv /\ [Next]_vars => DesktopInv'
<1> SUFFICES ASSUME DesktopInv, [Next]_vars
             PROVE  DesktopInv'
  OBVIOUS
<1>1. PairingInv'
  BY StepsArePairingSteps, PairingNextInv DEF DesktopInv
<1>2. TypeOK'
  BY <1>1, TypeStep DEF DesktopInv
<1> QED
  BY <1>1, <1>2, ProfileStep, OperationsStep DEF DesktopInv

\* The invariant of the desktop and of the protocol it uses.
THEOREM DesktopInvariant == Spec => []DesktopInv
  BY InitInv, StepInv, PTL DEF Spec

\* The desktop, with its retries, timeouts and restarts, is a client of the
\* pairing protocol: what holds of the protocol holds of it.
THEOREM DesktopPairsByProtocol == Spec => PairingSpec
<1>1. Init => PairingInit
  BY DEF Init
<1>2. DesktopInv => TypeOK
  BY DEF DesktopInv
<1> QED
  BY <1>1, <1>2, StepsArePairingSteps, DesktopInvariant, PTL DEF Spec, PairingSpec

\* A profile, in memory or saved, names an agent the API registered for the
\* developer it displays, whatever answer was lost and whenever it restarted.
THEOREM ProfilesRegistered == Spec => []ProfilesAreRegistered
<1>1. DesktopInv => ProfilesAreRegistered
  <2> SUFFICES ASSUME DesktopInv, NEW known \in {profile, disk}, known.agent # None
               PROVE  known.owner # None /\ agents[known.agent] = known.owner
    BY DEF ProfilesAreRegistered
  <2>1. known.agent \in Claim
    BY DEF DesktopInv, TypeOK, Profile
  <2> QED
    BY <2>1, DistinctAssumption DEF DesktopInv, PairingInv, ClaimsAreSound, ProfileInv, ProfilesArePaired
<1> QED
  BY <1>1, DesktopInvariant, PTL

\* Between operations memory and disk agree, and keys belong to the agent.
THEOREM SavedProfiles == Spec => [](MemoryIsSaved /\ KeysBelongToTheAgent)
<1>1. DesktopInv => MemoryIsSaved /\ KeysBelongToTheAgent
  BY DEF DesktopInv, ProfileInv
<1> QED
  BY <1>1, DesktopInvariant, PTL

\* Late reports never lock the configuration.
THEOREM Editability == Spec => []EditableWithoutRuntime
<1>1. DesktopInv => EditableWithoutRuntime
  BY DEF DesktopInv, OperationsExclude, EditableWithoutRuntime, Editable, Idle
<1> QED
  BY <1>1, DesktopInvariant, PTL

\* An agent's identity is not replaced while it runs.
THEOREM PairingExcludesRuntime == Spec => []NoPairingWhileRunning
<1>1. DesktopInv => NoPairingWhileRunning
  BY DEF DesktopInv, OperationsExclude, NoPairingWhileRunning
<1> QED
  BY <1>1, DesktopInvariant, PTL

\* The agent of a desktop is the one agent of its pairing and its approver's, for any
\* number of pairings, claims, clients and developers.
THEOREM IdentityStaysTheApprovers == Spec => []IdentityIsTheApprovers
<1>1. OneAgentPerPairing /\ AgentsBelongToApprovers /\ ProfilesAreRegistered => IdentityIsTheApprovers
  BY DEF IdentityIsTheApprovers
<1> QED
  BY <1>1, DesktopPairsByProtocol, OneAgent, ApproversOwn, ProfilesRegistered, PTL

\* The configuration stays sound whatever fails and whichever client reports late.
THEOREM ConfigurationStaysSound == Spec => []ConfigurationIsSound
<1>1. DesktopInv => TypeOK
  BY DEF DesktopInv
<1>2. TypeOK /\ (MemoryIsSaved /\ KeysBelongToTheAgent) /\ EditableWithoutRuntime /\ NoPairingWhileRunning
        => ConfigurationIsSound
  BY DEF ConfigurationIsSound
<1> QED
  BY <1>1, <1>2, DesktopInvariant, SavedProfiles, Editability, PairingExcludesRuntime, PTL
=============================================================================
