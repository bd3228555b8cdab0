-------------------------- MODULE MCAgentParts_proofs --------------------------
(***************************************************************************)
(* The parts of MCParts that run on a developer's computer, the local      *)
(* agent and the desktop application around it, proved for any sessions,   *)
(* groups, ports, connections, volumes and bounds, as the parts of the API *)
(* are in MCParts_proofs and the pages in MCWebParts_proofs; and, of parts *)
(* of all three, what no step takes back.                                  *)
(***************************************************************************)
EXTENDS MCWebParts_proofs
-----------------------------------------------------------------------------
(***************************************************************************)
(* The settings the agent runs a project with.                             *)
(***************************************************************************)
SettingsInv ==
  /\ Settings!Domains /\ Settings!ReportsAreOfTheRunning /\ Settings!AddressesAreReachable
  /\ Settings!PreparationsAreContained /\ Settings!ModelsHaveTheirClient

LEMMA SettingsInit ==
  ASSUME None \notin {"loopback", "public", "docker", "codex"}
  PROVE  Settings!Init => SettingsInv
<1> SUFFICES ASSUME Settings!Init
             PROVE  SettingsInv
  OBVIOUS
<1> USE DEF Settings!Init
<1>1. Settings!Domains
  <2>1. v1 \in Settings!Files
    BY DEF Settings!Files
  <2>2. v3 \in Settings!Machines
    <3>1. /\ v3.docker = FALSE /\ v3.path \in 1..2 /\ v3.app = 0
          /\ v3 = [docker |-> v3.docker, path |-> v3.path, app |-> v3.app]
      OBVIOUS
    <3>2. v3.docker \in BOOLEAN
      BY <3>1, Zenon
    <3>3. v3.path \in 0..2 /\ v3.app \in 0..2
      BY <3>1
    <3> QED
      BY <3>1, <3>2, <3>3 DEF Settings!Machines, Settings!Versions
  <2>3. v6 \in BOOLEAN
    OBVIOUS
  <2> QED
    BY <2>1, <2>2, <2>3 DEF Settings!Domains
<1>2. Settings!ReportsAreOfTheRunning
  BY DEF Settings!ReportsAreOfTheRunning
<1>3. Settings!AddressesAreReachable
  BY DEF Settings!AddressesAreReachable
<1>4. Settings!PreparationsAreContained
  BY DEF Settings!PreparationsAreContained
<1>5. Settings!ModelsHaveTheirClient
  BY DEF Settings!ModelsHaveTheirClient
<1> QED
  BY <1>1, <1>2, <1>3, <1>4, <1>5 DEF SettingsInv

LEMMA SettingsStep ==
  ASSUME None \notin {"loopback", "public", "docker", "codex"}
  PROVE  SettingsInv /\ [Settings!Next]_(Settings!settingsVars) => SettingsInv'
<1> SUFFICES ASSUME SettingsInv, [Settings!Next]_(Settings!settingsVars)
             PROVE  SettingsInv'
  OBVIOUS
<1> USE DEF SettingsInv, Settings!Edited
<1>1. CASE Settings!EditFile
  <2>1. Settings!Domains'
    <3>1. v1 \in Settings!Files /\ v1' \in Settings!Files
      <4>1. v1 \in Settings!Files
        BY DEF Settings!Domains
      <4>2. ASSUME NEW remote \in BOOLEAN, v1' = [v1 EXCEPT !.remote = remote]
            PROVE  v1' \in Settings!Files
        BY <4>1, <4>2 DEF Settings!Files
      <4>3. ASSUME v1' = [v1 EXCEPT !.path = ~v1.path]
            PROVE  v1' \in Settings!Files
        BY <4>1, <4>3 DEF Settings!Files
      <4>4. ASSUME NEW preview \in Settings!Previews \cup {None}, v1' = [v1 EXCEPT !.preview = preview]
            PROVE  v1' \in Settings!Files
        BY <4>1, <4>4 DEF Settings!Files
      <4>5. ASSUME NEW checks \in 0..3, v1' = [v1 EXCEPT !.checks = checks]
            PROVE  v1' \in Settings!Files
        BY <4>1, <4>5 DEF Settings!Files
      <4>6. ASSUME v1' = [v1 EXCEPT !.others = ~v1.others]
            PROVE  v1' \in Settings!Files
        BY <4>1, <4>6 DEF Settings!Files
      <4>7. ASSUME NEW client \in {None, "codex", "custom"}, v1' = [v1 EXCEPT !.command = client]
            PROVE  v1' \in Settings!Files
        BY <4>1, <4>7 DEF Settings!Files
      <4> QED
        BY <1>1, <4>1, <4>2, <4>3, <4>4, <4>5, <4>6, <4>7 DEF Settings!EditFile
    <3>2. v2' = v2 /\ v3' = v3 /\ v4' = v4 /\ v5' = v5 /\ v6' = v6 /\ v7' = v7
      BY <1>1 DEF Settings!EditFile
    <3> QED
      BY <3>1, <3>2 DEF Settings!Domains
  <2>2. Settings!ReportsAreOfTheRunning'
    BY <1>1 DEF Settings!EditFile, Settings!Domains, Settings!ReportsAreOfTheRunning,
           Settings!RequiresDocker
  <2>3. Settings!AddressesAreReachable'
    BY <1>1 DEF Settings!EditFile, Settings!Domains, Settings!AddressesAreReachable
  <2>4. Settings!PreparationsAreContained'
    BY <1>1 DEF Settings!EditFile, Settings!Domains, Settings!PreparationsAreContained
  <2>5. Settings!ModelsHaveTheirClient'
    BY <1>1 DEF Settings!EditFile, Settings!Domains, Settings!ModelsHaveTheirClient, Settings!VersionOf
  <2> QED
    BY <2>1, <2>2, <2>3, <2>4, <2>5
<1>2. CASE Settings!EditManifest
  <2>1. Settings!Domains'
    BY <1>2 DEF Settings!EditManifest, Settings!Domains
  <2>2. Settings!ReportsAreOfTheRunning'
    BY <1>2 DEF Settings!EditManifest, Settings!Domains, Settings!ReportsAreOfTheRunning,
           Settings!RequiresDocker
  <2>3. Settings!AddressesAreReachable'
    BY <1>2 DEF Settings!EditManifest, Settings!Domains, Settings!AddressesAreReachable
  <2>4. Settings!PreparationsAreContained'
    BY <1>2 DEF Settings!EditManifest, Settings!Domains, Settings!PreparationsAreContained
  <2>5. Settings!ModelsHaveTheirClient'
    BY <1>2 DEF Settings!EditManifest, Settings!Domains, Settings!ModelsHaveTheirClient, Settings!VersionOf
  <2> QED
    BY <2>1, <2>2, <2>3, <2>4, <2>5
<1>3. CASE Settings!ChangeMachine
  <2>1. Settings!Domains'
    <3>1. v3' \in Settings!Machines
      <4>1. v3 \in Settings!Machines
        BY DEF Settings!Domains
      <4>2. ASSUME v3' = [v3 EXCEPT !.docker = ~v3.docker]
            PROVE  v3' \in Settings!Machines
        BY <4>1, <4>2 DEF Settings!Machines
      <4>3. ASSUME NEW version \in Settings!Versions, NEW at \in {"path", "app"}, v3' = [v3 EXCEPT ![at] = version]
            PROVE  v3' \in Settings!Machines
        BY <4>1, <4>3 DEF Settings!Machines
      <4> QED
        BY <1>3, <4>2, <4>3 DEF Settings!ChangeMachine
    <3>2. v1' = v1 /\ v2' = v2 /\ v4' = v4 /\ v5' = v5 /\ v6' = v6 /\ v7' = {}
      BY <1>3 DEF Settings!ChangeMachine
    <3> QED
      BY <3>1, <3>2 DEF Settings!Domains
  <2>2. Settings!ReportsAreOfTheRunning'
    BY <1>3 DEF Settings!ChangeMachine, Settings!Domains, Settings!ReportsAreOfTheRunning,
           Settings!RequiresDocker
  <2>3. Settings!AddressesAreReachable'
    BY <1>3 DEF Settings!ChangeMachine, Settings!Domains, Settings!AddressesAreReachable
  <2>4. Settings!PreparationsAreContained'
    BY <1>3 DEF Settings!ChangeMachine, Settings!Domains, Settings!PreparationsAreContained
  <2>5. Settings!ModelsHaveTheirClient'
    BY <1>3 DEF Settings!ChangeMachine, Settings!Domains, Settings!ModelsHaveTheirClient, Settings!VersionOf
  <2> QED
    BY <2>1, <2>2, <2>3, <2>4, <2>5
<1>4. CASE Settings!UpdateCatalog
  <2>1. Settings!Domains'
    BY <1>4 DEF Settings!UpdateCatalog, Settings!Domains
  <2>2. Settings!ReportsAreOfTheRunning'
    BY <1>4 DEF Settings!UpdateCatalog, Settings!Domains, Settings!ReportsAreOfTheRunning,
           Settings!RequiresDocker
  <2>3. Settings!AddressesAreReachable'
    BY <1>4 DEF Settings!UpdateCatalog, Settings!Domains, Settings!AddressesAreReachable
  <2>4. Settings!PreparationsAreContained'
    BY <1>4 DEF Settings!UpdateCatalog, Settings!Domains, Settings!PreparationsAreContained
  <2>5. Settings!ModelsHaveTheirClient'
    BY <1>4 DEF Settings!UpdateCatalog, Settings!Domains, Settings!ModelsHaveTheirClient, Settings!VersionOf
  <2> QED
    BY <2>1, <2>2, <2>3, <2>4, <2>5
<1>5. CASE Settings!Start
  <2> DEFINE preview == Settings!PublicPreview
             client == Settings!HarnessCommand
             catalog == IF Settings!CatalogIsPublished THEN v4 ELSE 0
             checks == IF Settings!ManifestIsRead THEN 3 ELSE v1.checks
             r == [remote |-> v1.remote, path |-> v1.path, preview |-> preview, checks |-> checks,
                   command |-> client, catalog |-> catalog]
  <2>1. /\ v5 = None /\ Settings!FileIsValid /\ v5' = r
        /\ v1' = v1 /\ v2' = v2 /\ v3' = v3 /\ v4' = v4 /\ v6' = v6 /\ v7' = v7 \cup {"start"}
    BY <1>5 DEF Settings!Start
  <2>2. /\ v1.remote \in BOOLEAN /\ v1.path \in BOOLEAN /\ v1.preview \in Settings!Previews \cup {None}
        /\ v1.checks \in 0..3 /\ v1.command \in {None, "codex", "custom"}
    BY DEF Settings!Domains, Settings!Files
  <2>3. /\ preview \in Settings!RunningPreviews \cup {None}
        /\ preview # None /\ preview.prepare => preview.runtime = "docker"
        /\ preview # None /\ v1.remote => preview.url # "loopback"
    <3> DEFINE p == Settings!Preview
    <3>1. p \in Settings!RunningPreviews \cup {None} /\ (p # None /\ p.prepare => p.runtime = "docker")
      <4>1. CASE Settings!ManifestIsRead
        <5>1. v2 \in Settings!Manifests /\ (v2.prepare => Settings!RuntimeOfManifest = "docker")
          BY <4>1 DEF Settings!ManifestIsRead, Settings!Domains
        <5>2. Settings!RuntimeOfManifest \in {None, "host", "docker"}
          BY <5>1 DEF Settings!RuntimeOfManifest, Settings!Manifests
        <5>3. p = [runtime |-> Settings!RuntimeOfManifest, prepare |-> v2.prepare, url |-> v2.url]
          BY <4>1 DEF Settings!Preview, Settings!PreviewOfManifest
        <5>4. v2.prepare \in BOOLEAN /\ v2.url \in Settings!Urls
          BY <5>1 DEF Settings!Manifests
        <5> QED
          BY <5>1, <5>2, <5>3, <5>4 DEF Settings!RunningPreviews
      <4>2. CASE ~Settings!ManifestIsRead /\ v1.preview = None
        BY <4>2 DEF Settings!Preview, Settings!PreviewOfFile
      <4>3. CASE ~Settings!ManifestIsRead /\ v1.preview # None
        <5>1. v1.preview \in Settings!Previews /\ (v1.preview.prepare => Settings!RuntimeOfFile = "docker")
          BY <4>3, <2>1, <2>2 DEF Settings!FileIsValid
        <5>2. Settings!RuntimeOfFile \in {None, "host", "docker"}
          BY <5>1 DEF Settings!RuntimeOfFile, Settings!Previews
        <5>3. p = [runtime |-> Settings!RuntimeOfFile, prepare |-> v1.preview.prepare, url |-> v1.preview.url]
          BY <4>3 DEF Settings!Preview, Settings!PreviewOfFile
        <5>4. v1.preview.prepare \in BOOLEAN /\ v1.preview.url \in Settings!Urls
          BY <5>1 DEF Settings!Previews
        <5> QED
          BY <5>1, <5>2, <5>3, <5>4 DEF Settings!RunningPreviews
      <4> QED
        BY <4>1, <4>2, <4>3
    <3>2. preview = IF p # None /\ v1.remote /\ p.url = "loopback" THEN [p EXCEPT !.url = None] ELSE p
      BY DEF Settings!PublicPreview
    <3> HIDE DEF p, preview
    <3>3. CASE p # None /\ v1.remote /\ p.url = "loopback"
      <4>1. p \in Settings!RunningPreviews /\ preview = [p EXCEPT !.url = None]
        BY <3>1, <3>2, <3>3
      <4>2. preview \in Settings!RunningPreviews /\ preview.url = None
        BY <4>1 DEF Settings!RunningPreviews, Settings!Urls
      <4>3. preview.prepare = p.prepare /\ preview.runtime = p.runtime
        BY <4>1 DEF Settings!RunningPreviews
      <4> QED
        BY <3>1, <3>3, <4>2, <4>3
    <3>4. CASE ~(p # None /\ v1.remote /\ p.url = "loopback")
      BY <3>1, <3>2, <3>4
    <3> QED
      BY <3>3, <3>4
  <2>4. /\ client \in {"codex", "app", "custom"} /\ catalog \in 0..2
        /\ v1.path /\ client # "custom" => Settings!VersionOf(client) >= catalog
    <3>1. v4 \in 0..2 \cup {None} /\ v3.path \in 0..2 /\ v3.app \in 0..2
      BY DEF Settings!Domains, Settings!Machines, Settings!Versions
    <3>2. catalog \in 0..2 /\ (catalog > 0 => Settings!CatalogIsPublished /\ v4 = catalog)
      BY <3>1 DEF Settings!CatalogIsPublished
    <3>3. Settings!BestCommand \in {"app", "codex"} /\ \A c : Settings!VersionOf(c) \in 0..2
      BY <3>1 DEF Settings!BestCommand, Settings!VersionOf
    <3>4. client \in {"codex", "app", "custom"}
      BY <2>2, <3>3 DEF Settings!HarnessCommand
    <3>5. CASE catalog > 0 /\ v1.path /\ client # "custom"
      <4>1. Settings!CatalogIsPublished /\ v4 > 0 /\ Settings!VersionOf(Settings!BestCommand) >= v4 /\ v4 = catalog
        BY <3>2, <3>5 DEF Settings!CatalogIsPublished
      <4>2. client = Settings!BestCommand
        BY <2>2, <3>5, <4>1 DEF Settings!HarnessCommand
      <4> QED
        BY <3>2, <3>4, <4>1, <4>2
    <3>6. CASE catalog = 0
      BY <3>2, <3>3, <3>4, <3>6
    <3> QED
      BY <3>2, <3>4, <3>5, <3>6
  <2>5. checks \in 0..3
    BY <2>2
  <2> HIDE DEF preview, client, catalog, checks
  <2>6. r \in Settings!RunSettings
    BY <2>2, <2>3, <2>4, <2>5 DEF Settings!RunSettings, Settings!Versions
  <2>7. /\ r.remote = v1.remote /\ r.path = v1.path /\ r.preview = preview
        /\ r.command = client /\ r.catalog = catalog
    OBVIOUS
  <2> HIDE DEF r
  <2>8. Settings!Domains'
    BY <2>1, <2>6 DEF Settings!Domains
  <2>9. Settings!ReportsAreOfTheRunning'
    BY <2>1 DEF Settings!ReportsAreOfTheRunning
  <2>10. Settings!AddressesAreReachable' /\ Settings!PreparationsAreContained'
    BY <2>1, <2>3, <2>7 DEF Settings!AddressesAreReachable, Settings!PreparationsAreContained
  <2>11. Settings!ModelsHaveTheirClient'
    <3>1. \A c : Settings!VersionOf(c) = IF c = "app" THEN v3.app ELSE v3.path
      BY DEF Settings!VersionOf
    <3> QED
      BY <2>1, <2>4, <2>7, <3>1 DEF Settings!ModelsHaveTheirClient, Settings!VersionOf
  <2> QED
    BY <2>8, <2>9, <2>10, <2>11
<1>6. CASE Settings!Stop
  <2>1. Settings!Domains'
    <3>1. v6' \in BOOLEAN
      BY <1>6 DEF Settings!Stop
    <3>2. /\ v1' = v1 /\ v2' = v2 /\ v3' = v3 /\ v4' = v4 /\ v5' = None /\ v7' = {}
      BY <1>6 DEF Settings!Stop
    <3> QED
      BY <3>1, <3>2 DEF Settings!Domains
  <2>2. Settings!ReportsAreOfTheRunning'
    BY <1>6 DEF Settings!Stop, Settings!Domains, Settings!ReportsAreOfTheRunning, Settings!RequiresDocker
  <2>3. Settings!AddressesAreReachable'
    BY <1>6 DEF Settings!Stop, Settings!Domains, Settings!AddressesAreReachable
  <2>4. Settings!PreparationsAreContained'
    BY <1>6 DEF Settings!Stop, Settings!Domains, Settings!PreparationsAreContained
  <2>5. Settings!ModelsHaveTheirClient'
    BY <1>6 DEF Settings!Stop, Settings!Domains, Settings!ModelsHaveTheirClient, Settings!VersionOf
  <2> QED
    BY <2>1, <2>2, <2>3, <2>4, <2>5
<1>7. CASE Settings!RunReadiness
  <2> DEFINE favourable == /\ Settings!RepositoryIsThere
                           /\ Settings!HarnessIsUsable
                           /\ Settings!RequiresDocker => v3.docker
                           /\ Settings!CommandsAreComplete
  <2>1. v6' = FALSE \/ v6' = favourable
    BY <1>7 DEF Settings!RunReadiness
  <2>2. favourable \in BOOLEAN
    OBVIOUS
  <2>3. favourable => v5.path /\ (Settings!RequiresDocker => v3.docker)
    BY DEF Settings!RepositoryIsThere
  <2> HIDE DEF favourable
  <2>4. v6' \in BOOLEAN
    BY <2>1, <2>2
  <2>5. v5 # None /\ v1' = v1 /\ v2' = v2 /\ v3' = v3 /\ v4' = v4 /\ v5' = v5 /\ v7' = v7 \cup {"report"}
    BY <1>7 DEF Settings!RunReadiness
  <2>6. v6' => v5.path /\ (Settings!RequiresDocker => v3.docker)
    BY <2>1, <2>3
  <2>7. Settings!Domains'
    BY <2>4, <2>5 DEF Settings!Domains
  <2>8. Settings!ReportsAreOfTheRunning'
    BY <2>5, <2>6 DEF Settings!ReportsAreOfTheRunning, Settings!RequiresDocker
  <2>9. Settings!AddressesAreReachable' /\ Settings!PreparationsAreContained'
    BY <2>5 DEF Settings!AddressesAreReachable, Settings!PreparationsAreContained
  <2>10. Settings!ModelsHaveTheirClient'
    BY <2>5 DEF Settings!ModelsHaveTheirClient, Settings!VersionOf
  <2> QED
    BY <2>7, <2>8, <2>9, <2>10
<1>8. CASE UNCHANGED Settings!settingsVars
  BY <1>8 DEF Settings!settingsVars, Settings!Domains, Settings!ReportsAreOfTheRunning,
         Settings!RequiresDocker, Settings!AddressesAreReachable, Settings!PreparationsAreContained,
         Settings!ModelsHaveTheirClient, Settings!VersionOf
<1> QED
  BY <1>1, <1>2, <1>3, <1>4, <1>5, <1>6, <1>7, <1>8 DEF Settings!Next

\* What the agent runs a project with fits the machine, the backend and its own Codex, however
\* often the file, the manifest and the machine change.
THEOREM SettingsAgree ==
  ASSUME None \notin {"loopback", "public", "docker", "codex"}
  PROVE  PartsSpec => []SettingsAgreeWithTheMachine
<1>1. PartsInit /\ part = "settings" => Settings!Init
  BY DEF PartsInit
<1>2. [PartsNext]_all /\ part = "settings" => [Settings!Next]_(Settings!settingsVars)
  BY DEF PartsNext, all, Settings!settingsVars
<1>3. [PartsNext]_all => (part = "settings" <=> (part = "settings")')
  BY PartStays
<1>4. SettingsInv => Settings!ReportsAreTrue /\ Settings!AddressesAreReachable /\ Settings!PreparationsAreContained /\ Settings!ModelsHaveTheirClient
  BY DEF SettingsInv, Settings!ReportsAreTrue, Settings!ReportsAreOfTheRunning, Settings!OpensWithDocker,
         Settings!RequiresDocker, Settings!Domains, Settings!RunSettings, Settings!RunningPreviews,
         Settings!Urls
<1>5. (part = "settings" => SettingsInv) => SettingsAgreeWithTheMachine
  BY <1>4 DEF SettingsAgreeWithTheMachine
<1> QED
  BY <1>1, <1>2, <1>3, <1>5, SettingsInit, SettingsStep, PTL DEF PartsSpec
-----------------------------------------------------------------------------
(***************************************************************************)
(* The public tunnel of a preview.                                         *)
(***************************************************************************)
TunnelInv == Tunnel!Domains /\ Tunnel!RunsAreCounted /\ Tunnel!ProxyFollowsPhase /\ Tunnel!LooseTunnelIsHeld

LEMMA TunnelInit == Tunnel!Init => TunnelInv
<1> SUFFICES ASSUME Tunnel!Init
             PROVE  TunnelInv
  OBVIOUS
<1> USE DEF Tunnel!Init, Tunnel!MaxAttempts
<1>1. Tunnel!Domains
  BY DEF Tunnel!Domains, Tunnel!Phases, Tunnel!Clients
<1>2. Tunnel!TypeOK
  BY DEF Tunnel!TypeOK
<1>3. Tunnel!RunsAreCounted
  BY <1>2 DEF Tunnel!RunsAreCounted
<1>4. Tunnel!ProxyFollowsPhase
  BY DEF Tunnel!ProxyFollowsPhase, Tunnel!TunnelsHaveTheirProxy
<1>5. Tunnel!LooseTunnelIsHeld
  BY DEF Tunnel!LooseTunnelIsHeld
<1> QED
  BY <1>1, <1>3, <1>4, <1>5 DEF TunnelInv

LEMMA TunnelStep == TunnelInv /\ [Tunnel!Next]_(Tunnel!vars) => TunnelInv'
<1> SUFFICES ASSUME TunnelInv, [Tunnel!Next]_(Tunnel!vars)
             PROVE  TunnelInv'
  OBVIOUS
<1> USE DEF TunnelInv, Tunnel!Phases, Tunnel!Boxes, Tunnel!Clients, Tunnel!MaxAttempts, Tunnel!Mine,
       Tunnel!Told, Tunnel!TypeOK, Tunnel!TunnelsHaveTheirProxy
<1>1. CASE Tunnel!Open
  BY <1>1 DEF Tunnel!Open, Tunnel!Domains, Tunnel!RunsAreCounted, Tunnel!ProxyFollowsPhase,
         Tunnel!LooseTunnelIsHeld
<1>2. CASE Tunnel!PrintsUrl
  BY <1>2 DEF Tunnel!PrintsUrl, Tunnel!Domains, Tunnel!RunsAreCounted, Tunnel!ProxyFollowsPhase,
         Tunnel!LooseTunnelIsHeld
<1>3. CASE Tunnel!DockerStop
  <2>1. Tunnel!Domains'
    BY <1>3 DEF Tunnel!DockerStop, Tunnel!Domains
  <2>2. Tunnel!RunsAreCounted'
    BY <1>3 DEF Tunnel!DockerStop, Tunnel!Domains, Tunnel!RunsAreCounted
  <2>3. Tunnel!ProxyFollowsPhase'
    BY <1>3 DEF Tunnel!DockerStop, Tunnel!ProxyFollowsPhase, Tunnel!RunsAreCounted
  <2>4. Tunnel!LooseTunnelIsHeld'
    BY <1>3 DEF Tunnel!DockerStop, Tunnel!Domains, Tunnel!LooseTunnelIsHeld, Tunnel!RunsAreCounted
  <2> QED
    BY <2>1, <2>2, <2>3, <2>4
<1>4. CASE Tunnel!Heed
  BY <1>4 DEF Tunnel!Heed, Tunnel!Domains, Tunnel!RunsAreCounted, Tunnel!ProxyFollowsPhase,
         Tunnel!LooseTunnelIsHeld
<1>5. CASE Tunnel!Die
  BY <1>5 DEF Tunnel!Die, Tunnel!Domains, Tunnel!RunsAreCounted, Tunnel!ProxyFollowsPhase,
         Tunnel!LooseTunnelIsHeld
<1>6. CASE Tunnel!Restart
  <2>1. /\ v11' \in Nat /\ v11' # 0
        /\ v4' \in Tunnel!Phases
    BY <1>6 DEF Tunnel!Restart, Tunnel!Domains
  <2>2. Tunnel!Domains'
    BY <1>6, <2>1 DEF Tunnel!Restart, Tunnel!Domains
  <2>3. Tunnel!RunsAreCounted'
    BY <1>6 DEF Tunnel!Restart, Tunnel!Domains, Tunnel!RunsAreCounted
  <2>4. Tunnel!ProxyFollowsPhase'
    BY <1>6 DEF Tunnel!Restart, Tunnel!ProxyFollowsPhase
  <2>5. Tunnel!LooseTunnelIsHeld'
    BY <2>1 DEF Tunnel!LooseTunnelIsHeld
  <2> QED
    BY <2>2, <2>3, <2>4, <2>5
<1>7. CASE Tunnel!Spawn
  <2>1. /\ [state |-> "runs", killed |-> FALSE] \in Tunnel!Clients
        /\ [state |-> "gone", killed |-> FALSE] \in Tunnel!Clients
    BY DEF Tunnel!Clients
  <2>2. [run |-> v3 + 1, told |-> FALSE] \in Tunnel!Boxes
    BY DEF Tunnel!Boxes, Tunnel!Domains
  <2>3. v1' = None \/ v1' \in Tunnel!Boxes
    BY <1>7, <2>2 DEF Tunnel!Spawn, Tunnel!Domains
  <2>4. v2' \in Tunnel!Clients
    BY <1>7, <2>1 DEF Tunnel!Spawn
  <2>5. Tunnel!Domains'
    BY <1>7, <2>3, <2>4 DEF Tunnel!Spawn, Tunnel!Domains
  <2>6. Tunnel!RunsAreCounted'
    BY <1>7 DEF Tunnel!Spawn, Tunnel!Domains, Tunnel!RunsAreCounted
  <2>7. Tunnel!ProxyFollowsPhase'
    BY <1>7 DEF Tunnel!Spawn, Tunnel!ProxyFollowsPhase
  <2>8. Tunnel!LooseTunnelIsHeld'
    BY <1>7 DEF Tunnel!Spawn, Tunnel!Domains, Tunnel!LooseTunnelIsHeld
  <2> QED
    BY <2>5, <2>6, <2>7, <2>8
<1>8. CASE Tunnel!SeeUrl
  BY <1>8 DEF Tunnel!SeeUrl, Tunnel!Domains, Tunnel!RunsAreCounted, Tunnel!ProxyFollowsPhase,
         Tunnel!LooseTunnelIsHeld
<1>9. CASE Tunnel!Reach
  BY <1>9 DEF Tunnel!Reach, Tunnel!Domains, Tunnel!RunsAreCounted, Tunnel!ProxyFollowsPhase,
         Tunnel!LooseTunnelIsHeld
<1>10. CASE Tunnel!Terminate
  <2>1. Tunnel!Domains'
    BY <1>10 DEF Tunnel!Terminate, Tunnel!Domains
  <2>2. Tunnel!RunsAreCounted'
    BY <1>10 DEF Tunnel!Terminate, Tunnel!Domains, Tunnel!RunsAreCounted
  <2>3. Tunnel!ProxyFollowsPhase'
    BY <1>10 DEF Tunnel!Terminate, Tunnel!ProxyFollowsPhase, Tunnel!RunsAreCounted
  <2>4. Tunnel!LooseTunnelIsHeld'
    BY <1>10 DEF Tunnel!Terminate, Tunnel!Domains, Tunnel!LooseTunnelIsHeld, Tunnel!RunsAreCounted
  <2> QED
    BY <2>1, <2>2, <2>3, <2>4
<1>11. CASE Tunnel!Retry
  BY <1>11 DEF Tunnel!Retry, Tunnel!Domains, Tunnel!RunsAreCounted, Tunnel!ProxyFollowsPhase,
         Tunnel!LooseTunnelIsHeld
<1>12. CASE Tunnel!GiveUp
  BY <1>12 DEF Tunnel!GiveUp, Tunnel!Domains, Tunnel!RunsAreCounted, Tunnel!ProxyFollowsPhase,
         Tunnel!LooseTunnelIsHeld
<1>13. CASE Tunnel!KillClient
  BY <1>13 DEF Tunnel!KillClient, Tunnel!Domains, Tunnel!RunsAreCounted, Tunnel!ProxyFollowsPhase,
         Tunnel!LooseTunnelIsHeld
<1>14. CASE Tunnel!CloseProxy
  BY <1>14 DEF Tunnel!CloseProxy, Tunnel!Domains, Tunnel!RunsAreCounted, Tunnel!ProxyFollowsPhase,
         Tunnel!LooseTunnelIsHeld
<1>15. CASE UNCHANGED Tunnel!vars
  BY <1>15 DEF Tunnel!vars, Tunnel!Domains, Tunnel!RunsAreCounted, Tunnel!ProxyFollowsPhase,
         Tunnel!LooseTunnelIsHeld
<1> QED
  BY <1>1, <1>2, <1>3, <1>4, <1>5, <1>6, <1>7, <1>8, <1>9, <1>10, <1>11, <1>12, <1>13, <1>14,
     <1>15 DEF Tunnel!Next, Tunnel!Progress

\* A published tunnel has its proxy, and nothing is left running that was not told to stop,
\* for any number of openings and restarts.
THEOREM TunnelsAccounted == PartsSpec => []TunnelsAreAccountedFor
<1>1. PartsInit /\ part = "tunnel" => Tunnel!Init
  BY DEF PartsInit
<1>2. [PartsNext]_all /\ part = "tunnel" => [Tunnel!Next]_(Tunnel!vars)
  BY DEF PartsNext, all, Tunnel!vars
<1>3. [PartsNext]_all => (part = "tunnel" <=> (part = "tunnel")')
  BY PartStays
<1>4. TunnelInv => Tunnel!TypeOK /\ Tunnel!TunnelsHaveTheirProxy /\ Tunnel!NothingIsLeftRunning
  BY DEF TunnelInv, Tunnel!RunsAreCounted, Tunnel!ProxyFollowsPhase, Tunnel!LooseTunnelIsHeld,
         Tunnel!NothingIsLeftRunning
<1>5. (part = "tunnel" => TunnelInv) => TunnelsAreAccountedFor
  BY <1>4 DEF TunnelsAreAccountedFor
<1> QED
  BY <1>1, <1>2, <1>3, <1>5, TunnelInit, TunnelStep, PTL DEF PartsSpec
-----------------------------------------------------------------------------
(***************************************************************************)
(* The proxy in front of a preview.                                        *)
(***************************************************************************)
ProxyInv == Proxy!Domains /\ Proxy!ResponseFollowsPage

LEMMA FirstNone == Proxy!FirstChunks(<<>>, 0) /\ Len(<<>>) = 0
  BY DEF Proxy!FirstChunks

LEMMA FirstAppend ==
  ASSUME NEW s, NEW n \in Nat, Proxy!FirstChunks(s, n)
  PROVE  Proxy!FirstChunks(Append(s, n + 1), n + 1)
BY DEF Proxy!FirstChunks

LEMMA FirstConcat ==
  ASSUME NEW s, NEW t, NEW n \in Nat, Proxy!FirstChunks(s, 0), Proxy!FirstChunks(t, n)
  PROVE  Proxy!FirstChunks(s \o t, n)
<1>1. s \in Seq(Nat) /\ t \in Seq(Nat) /\ Len(s) = 0 /\ Len(t) = n
  BY DEF Proxy!FirstChunks
<1>2. s \o t \in Seq(Nat) /\ Len(s \o t) = n
  BY <1>1
<1>3. ASSUME NEW i \in 1..n
      PROVE  (s \o t)[i] = i
  BY <1>1 DEF Proxy!FirstChunks
<1> QED
  BY <1>2, <1>3 DEF Proxy!FirstChunks

LEMMA ProxyInit == Proxy!Init => ProxyInv
<1> SUFFICES ASSUME Proxy!Init
             PROVE  ProxyInv
  OBVIOUS
<1>1. Proxy!Domains
  BY DEF Proxy!Init, Proxy!Domains
<1>2. Proxy!ResponseFollowsPage
  BY FirstNone DEF Proxy!Init, Proxy!ResponseFollowsPage, Proxy!HeadersAreWrittenOnce
<1> QED
  BY <1>1, <1>2 DEF ProxyInv

LEMMA ProxyStep == ProxyInv /\ [Proxy!Next]_(Proxy!vars) => ProxyInv'
<1> SUFFICES ASSUME ProxyInv, [Proxy!Next]_(Proxy!vars)
             PROVE  ProxyInv'
  OBVIOUS
<1> USE DEF ProxyInv, Proxy!page
<1>1. CASE Proxy!Connect
  BY <1>1 DEF Proxy!Connect, Proxy!Domains, Proxy!ResponseFollowsPage, Proxy!HeadersAreWrittenOnce
<1>2. CASE Proxy!Request
  <2>1. /\ v3' = "asked" /\ v4' = 0 /\ v5' = <<>> /\ v6' = <<>> /\ v7' = 0 /\ v9' = FALSE
        /\ Proxy!FirstChunks(v6', 0) /\ Proxy!FirstChunks(v5', 0) /\ Len(v6') = 0
    BY <1>2, FirstNone DEF Proxy!Request
  <2>8. Proxy!Domains'
    BY <2>1 DEF Proxy!Domains
  <2>9. Proxy!ResponseFollowsPage'
    BY <2>1 DEF Proxy!Domains, Proxy!ResponseFollowsPage, Proxy!HeadersAreWrittenOnce
  <2> QED
    BY <2>8, <2>9
<1>3. CASE Proxy!AnswerItself
  BY <1>3 DEF Proxy!AnswerItself, Proxy!Domains, Proxy!ResponseFollowsPage, Proxy!HeadersAreWrittenOnce
<1>4. CASE Proxy!Pass
  BY <1>4 DEF Proxy!Pass, Proxy!Domains, Proxy!ResponseFollowsPage, Proxy!HeadersAreWrittenOnce
<1>5. CASE Proxy!Hold
  BY <1>5 DEF Proxy!Hold, Proxy!Domains, Proxy!ResponseFollowsPage, Proxy!HeadersAreWrittenOnce
<1>6. CASE Proxy!Chunk
  <2>1. CASE v3 = "streaming"
    <3>1. Proxy!FirstChunks(v6, v4) /\ Len(v6) = v4 /\ v4 \in Nat
      BY <2>1 DEF Proxy!Domains, Proxy!ResponseFollowsPage
    <3>2. Proxy!FirstChunks(Append(v6, v4 + 1), v4 + 1)
      BY <3>1, FirstAppend
    <3>3. Proxy!FirstChunks(v6', v4') /\ Len(v6') = v4' /\ v4' \in Nat
      BY <1>6, <2>1, <3>1, <3>2 DEF Proxy!Chunk, Proxy!FirstChunks
    <3>4. v3' = "streaming" /\ v7' = v7 /\ v9' = v9 /\ v9 = FALSE /\ v7 = 1
      BY <1>6, <2>1 DEF Proxy!Chunk, Proxy!Domains, Proxy!ResponseFollowsPage
    <3>8. Proxy!Domains'
      BY <3>3, <3>4 DEF Proxy!Domains
    <3>9. Proxy!ResponseFollowsPage'
      BY <3>3, <3>4 DEF Proxy!Domains, Proxy!ResponseFollowsPage, Proxy!HeadersAreWrittenOnce
    <3> QED
      BY <3>8, <3>9
  <2>2. CASE v3 = "held"
    <3> DEFINE held == Append(v5, v4 + 1)
    <3>1. v4 \in Nat /\ v7 = 0 /\ Proxy!FirstChunks(v6, 0) /\ Proxy!FirstChunks(v5, v4)
      BY <2>2 DEF Proxy!Domains, Proxy!ResponseFollowsPage
    <3>2. Proxy!FirstChunks(held, v4 + 1)
      BY <3>1, FirstAppend
    <3>3. CASE Len(held) > MaxBytes
      <4>1. /\ v4' = v4 + 1 /\ v7' = 1 /\ v6' = v6 \o held /\ v9' = FALSE /\ v3' = "streaming"
        BY <1>6, <2>2, <3>1, <3>3 DEF Proxy!Chunk, Proxy!FlushOriginal
      <4>2. Proxy!FirstChunks(v6 \o held, v4 + 1)
        BY <3>1, <3>2, FirstConcat
      <4>3. Proxy!FirstChunks(v6', v4') /\ Len(v6') = v4' /\ v4' \in Nat
        BY <3>1, <4>1, <4>2 DEF Proxy!FirstChunks
      <4>8. Proxy!Domains'
        BY <4>1, <4>3 DEF Proxy!Domains
      <4>9. Proxy!ResponseFollowsPage'
        BY <4>1, <4>3 DEF Proxy!Domains, Proxy!ResponseFollowsPage, Proxy!HeadersAreWrittenOnce
      <4> QED
        BY <4>8, <4>9
    <3>4. CASE ~(Len(held) > MaxBytes)
      <4>1. /\ v4' = v4 + 1 /\ v5' = held /\ v3' = v3 /\ v6' = v6 /\ v7' = v7 /\ v9' = v9
        BY <1>6, <2>2, <3>4 DEF Proxy!Chunk, Proxy!FlushOriginal
      <4>2. Proxy!FirstChunks(v5', v4') /\ v4' \in Nat
        BY <3>1, <3>2, <4>1
      <4>8. Proxy!Domains'
        BY <2>2, <3>1, <4>1, <4>2 DEF Proxy!Domains
      <4>9. Proxy!ResponseFollowsPage'
        BY <2>2, <3>1, <4>1, <4>2 DEF Proxy!Domains, Proxy!ResponseFollowsPage, Proxy!HeadersAreWrittenOnce
      <4> QED
        BY <4>8, <4>9
    <3> QED
      BY <3>3, <3>4
  <2> QED
    BY <1>6, <2>1, <2>2 DEF Proxy!Chunk
<1>7. CASE Proxy!Timeout
  <2>1. v3 = "held" /\ v4 \in Nat /\ v7 = 0 /\ Proxy!FirstChunks(v6, 0) /\ Proxy!FirstChunks(v5, v4)
    BY <1>7 DEF Proxy!Timeout, Proxy!Domains, Proxy!ResponseFollowsPage
  <2>2. v6' = v6 \o v5 /\ v7' = 1 /\ v4' = v4 /\ v9' = FALSE /\ v3' = "streaming"
    BY <1>7, <2>1 DEF Proxy!Timeout, Proxy!FlushOriginal
  <2>3. Proxy!FirstChunks(v6 \o v5, v4)
    BY <2>1, FirstConcat
  <2>4. Proxy!FirstChunks(v6', v4') /\ Len(v6') = v4' /\ v4' \in Nat
    BY <2>1, <2>2, <2>3 DEF Proxy!FirstChunks
  <2>8. Proxy!Domains'
    BY <2>2, <2>4 DEF Proxy!Domains
  <2>9. Proxy!ResponseFollowsPage'
    BY <2>2, <2>4 DEF Proxy!Domains, Proxy!ResponseFollowsPage, Proxy!HeadersAreWrittenOnce
  <2> QED
    BY <2>8, <2>9
<1>8. CASE Proxy!EndHeld
  <2>1. v3 = "held" /\ v4 \in Nat /\ v7 = 0 /\ Proxy!FirstChunks(v6, 0) /\ Proxy!FirstChunks(v5, v4)
    BY <1>8 DEF Proxy!EndHeld, Proxy!Domains, Proxy!ResponseFollowsPage
  <2>2. v6' = v6 \o v5 /\ v7' = 1 /\ v4' = v4 /\ v9' = FALSE /\ v3' = "ended"
    BY <1>8, <2>1 DEF Proxy!EndHeld, Proxy!FlushOriginal
  <2>3. Proxy!FirstChunks(v6 \o v5, v4)
    BY <2>1, FirstConcat
  <2>4. Proxy!FirstChunks(v6', v4') /\ Len(v6') = v4' /\ v4' \in Nat
    BY <2>1, <2>2, <2>3 DEF Proxy!FirstChunks
  <2>8. Proxy!Domains'
    BY <2>2, <2>4 DEF Proxy!Domains
  <2>9. Proxy!ResponseFollowsPage'
    BY <2>2, <2>4 DEF Proxy!Domains, Proxy!ResponseFollowsPage, Proxy!HeadersAreWrittenOnce
  <2> QED
    BY <2>8, <2>9
<1>9. CASE Proxy!EndStream
  BY <1>9 DEF Proxy!EndStream, Proxy!Domains, Proxy!ResponseFollowsPage, Proxy!HeadersAreWrittenOnce
<1>10. CASE Proxy!BadGateway
  <2>1. v7 = 0 /\ Proxy!FirstChunks(v6, 0) /\ v4 \in Nat
    BY <1>10 DEF Proxy!BadGateway, Proxy!Domains, Proxy!ResponseFollowsPage
  <2>2. v3' = "failed" /\ v4' = v4 /\ v6' = v6 /\ v7' = 1 /\ v9' = FALSE
    BY <1>10, <2>1 DEF Proxy!BadGateway
  <2>3. Proxy!FirstChunks(v6', Len(v6'))
    BY <2>1, <2>2 DEF Proxy!FirstChunks
  <2>8. Proxy!Domains'
    BY <2>1, <2>2 DEF Proxy!Domains
  <2>9. Proxy!ResponseFollowsPage'
    BY <2>2, <2>3 DEF Proxy!ResponseFollowsPage, Proxy!HeadersAreWrittenOnce
  <2> QED
    BY <2>8, <2>9
<1>11. CASE Proxy!Destroy
  BY <1>11 DEF Proxy!Destroy, Proxy!Domains, Proxy!ResponseFollowsPage, Proxy!HeadersAreWrittenOnce
<1>12. CASE Proxy!Close
  BY <1>12 DEF Proxy!Close, Proxy!Domains, Proxy!ResponseFollowsPage, Proxy!HeadersAreWrittenOnce
<1>13. CASE Proxy!Closed
  BY <1>13 DEF Proxy!Closed, Proxy!Domains, Proxy!ResponseFollowsPage, Proxy!HeadersAreWrittenOnce
<1>14. CASE UNCHANGED Proxy!vars
  BY <1>14 DEF Proxy!vars, Proxy!Domains, Proxy!ResponseFollowsPage, Proxy!HeadersAreWrittenOnce
<1> QED
  BY <1>1, <1>2, <1>3, <1>4, <1>5, <1>6, <1>7, <1>8, <1>9, <1>10, <1>11, <1>12, <1>13, <1>14 DEF Proxy!Next

\* A page's headers are written once and its chunks arrive whole and in order, for pages of
\* any length and any bound on what is held back.
THEOREM PagesPass == PartsSpec => []PagesPassWhole
<1>1. PartsInit /\ part = "proxy" => Proxy!Init
  BY DEF PartsInit
<1>2. [PartsNext]_all /\ part = "proxy" => [Proxy!Next]_(Proxy!vars)
  BY DEF PartsNext, all, Proxy!vars, Proxy!page
<1>3. [PartsNext]_all => (part = "proxy" <=> (part = "proxy")')
  BY PartStays
<1>4. ProxyInv => Proxy!HeadersAreWrittenOnce /\ Proxy!PagesArriveWhole
  BY DEF ProxyInv, Proxy!ResponseFollowsPage, Proxy!HeadersAreWrittenOnce, Proxy!PagesArriveWhole,
         Proxy!FirstChunks
<1>5. (part = "proxy" => ProxyInv) => PagesPassWhole
  BY <1>4 DEF PagesPassWhole
<1> QED
  BY <1>1, <1>2, <1>3, <1>5, ProxyInit, ProxyStep, PTL DEF PartsSpec
-----------------------------------------------------------------------------
(***************************************************************************)
(* The volumes with a repository's dependencies.                           *)
(***************************************************************************)
VolumesInv ==
  /\ Dependencies!Domains /\ Dependencies!TypeOK /\ Dependencies!KeysAreHashed
  /\ Dependencies!FilledVolumesFit /\ Dependencies!RepositoryIsLeftClean

LEMMA VolumesInit ==
  ASSUME 1 \in LockVersions, LockVersions \subseteq Nat, None \notin LockVersions
  PROVE  Dependencies!Init => VolumesInv
<1> SUFFICES ASSUME Dependencies!Init
             PROVE  VolumesInv
  OBVIOUS
<1> USE DEF Dependencies!Init, Dependencies!Domains, Dependencies!Stages
<1>1. Dependencies!Domains
  OBVIOUS
<1>2. Dependencies!TypeOK
  BY DEF Dependencies!TypeOK
<1>3. Dependencies!KeysAreHashed
  BY DEF Dependencies!KeysAreHashed
<1>4. Dependencies!FilledVolumesFit
  BY DEF Dependencies!FilledVolumesFit, Dependencies!Filled
<1>5. Dependencies!RepositoryIsLeftClean
  BY DEF Dependencies!RepositoryIsLeftClean
<1> QED
  BY <1>1, <1>2, <1>3, <1>4, <1>5 DEF VolumesInv

LEMMA VolumesStep ==
  ASSUME 1 \in LockVersions, LockVersions \subseteq Nat, None \notin LockVersions
  PROVE  VolumesInv /\ [Dependencies!Next]_(Dependencies!vars) => VolumesInv'
<1> SUFFICES ASSUME VolumesInv, [Dependencies!Next]_(Dependencies!vars)
             PROVE  VolumesInv'
  OBVIOUS
<1> USE DEF VolumesInv, Dependencies!Stages, Dependencies!To, Dependencies!Stale
<1>1. CASE Dependencies!Edit
  BY <1>1 DEF Dependencies!Edit, Dependencies!Domains, Dependencies!KeysAreHashed, Dependencies!TypeOK,
         Dependencies!Filled, Dependencies!FilledVolumesFit, Dependencies!RepositoryIsLeftClean
<1>2. CASE Dependencies!Install
  BY <1>2 DEF Dependencies!Install, Dependencies!Domains, Dependencies!KeysAreHashed, Dependencies!TypeOK,
         Dependencies!Filled, Dependencies!FilledVolumesFit, Dependencies!RepositoryIsLeftClean
<1>3. CASE \E r \in CacheRuntimes : Dependencies!Hash(r)
  BY <1>3 DEF Dependencies!Hash, Dependencies!Domains, Dependencies!KeysAreHashed, Dependencies!TypeOK,
         Dependencies!Filled, Dependencies!FilledVolumesFit, Dependencies!RepositoryIsLeftClean
<1>4. CASE \E r \in CacheRuntimes : Dependencies!EnsureVolume(r)
  BY <1>4 DEF Dependencies!EnsureVolume, Dependencies!Domains, Dependencies!KeysAreHashed,
         Dependencies!TypeOK, Dependencies!Filled, Dependencies!FilledVolumesFit,
         Dependencies!RepositoryIsLeftClean
<1>5. CASE \E r \in CacheRuntimes : Dependencies!Chown(r)
  BY <1>5 DEF Dependencies!Chown, Dependencies!Domains, Dependencies!KeysAreHashed, Dependencies!TypeOK,
         Dependencies!Filled, Dependencies!FilledVolumesFit, Dependencies!RepositoryIsLeftClean
<1>6. CASE \E r \in CacheRuntimes : Dependencies!MakeMountpoint(r)
  <2>1. Dependencies!Domains'
    BY <1>6 DEF Dependencies!MakeMountpoint, Dependencies!Domains, Dependencies!KeysAreHashed
  <2>2. Dependencies!TypeOK'
    BY <1>6 DEF Dependencies!MakeMountpoint, Dependencies!Domains, Dependencies!TypeOK,
           Dependencies!KeysAreHashed
  <2>3. Dependencies!KeysAreHashed'
    BY <1>6 DEF Dependencies!MakeMountpoint, Dependencies!Domains, Dependencies!KeysAreHashed
  <2>4. Dependencies!FilledVolumesFit'
    BY <1>6 DEF Dependencies!MakeMountpoint, Dependencies!Domains, Dependencies!TypeOK,
           Dependencies!KeysAreHashed, Dependencies!Filled, Dependencies!FilledVolumesFit
  <2>5. Dependencies!RepositoryIsLeftClean'
    BY <1>6 DEF Dependencies!MakeMountpoint, Dependencies!Domains, Dependencies!KeysAreHashed,
           Dependencies!RepositoryIsLeftClean
  <2> QED
    BY <2>1, <2>2, <2>3, <2>4, <2>5
<1>7. CASE \E r \in CacheRuntimes : Dependencies!BeginRun(r)
  <2>1. Dependencies!Domains'
    <3>1. PICK r \in CacheRuntimes : Dependencies!BeginRun(r)
      BY <1>7
    <3>2. v5[r] \in LockVersions
      BY <3>1 DEF Dependencies!BeginRun, Dependencies!KeysAreHashed
    <3>3. /\ v2' \in [LockVersions -> {"none", "raw", "owned"}]
          /\ v3' \in [LockVersions -> Nat \cup {None}]
          /\ v4' \in [CacheRuntimes -> Dependencies!Stages]
      BY <3>1, <3>2 DEF Dependencies!BeginRun, Dependencies!Domains
    <3> QED
      BY <3>1, <3>3 DEF Dependencies!BeginRun, Dependencies!Domains
  <2>2. Dependencies!TypeOK'
    BY <1>7 DEF Dependencies!BeginRun, Dependencies!Domains, Dependencies!TypeOK, Dependencies!KeysAreHashed
  <2>3. Dependencies!KeysAreHashed'
    BY <1>7 DEF Dependencies!BeginRun, Dependencies!Domains, Dependencies!KeysAreHashed
  <2>4. Dependencies!FilledVolumesFit'
    BY <1>7 DEF Dependencies!BeginRun, Dependencies!Domains, Dependencies!TypeOK,
           Dependencies!KeysAreHashed, Dependencies!Filled, Dependencies!FilledVolumesFit
  <2>5. Dependencies!RepositoryIsLeftClean'
    BY <1>7 DEF Dependencies!BeginRun, Dependencies!Domains, Dependencies!KeysAreHashed,
           Dependencies!RepositoryIsLeftClean
  <2> QED
    BY <2>1, <2>2, <2>3, <2>4, <2>5
<1>8. CASE \E r \in CacheRuntimes : Dependencies!Run(r)
  BY <1>8 DEF Dependencies!Run, Dependencies!Domains, Dependencies!KeysAreHashed, Dependencies!TypeOK,
         Dependencies!Filled, Dependencies!FilledVolumesFit, Dependencies!RepositoryIsLeftClean
<1>9. CASE \E r \in CacheRuntimes : Dependencies!RunFails(r)
  BY <1>9 DEF Dependencies!RunFails, Dependencies!Domains, Dependencies!KeysAreHashed, Dependencies!TypeOK,
         Dependencies!Filled, Dependencies!FilledVolumesFit, Dependencies!RepositoryIsLeftClean
<1>10. CASE \E r \in CacheRuntimes : Dependencies!RemoveMountpoint(r)
  BY <1>10 DEF Dependencies!RemoveMountpoint, Dependencies!Removed, Dependencies!Domains, Dependencies!KeysAreHashed,
         Dependencies!TypeOK, Dependencies!Filled, Dependencies!FilledVolumesFit,
         Dependencies!RepositoryIsLeftClean
<1>11. CASE \E r \in CacheRuntimes : Dependencies!PrepareFails(r)
  BY <1>11 DEF Dependencies!PrepareFails, Dependencies!Domains, Dependencies!KeysAreHashed,
         Dependencies!TypeOK, Dependencies!Filled, Dependencies!FilledVolumesFit,
         Dependencies!RepositoryIsLeftClean
<1>12. CASE \E r \in CacheRuntimes : Dependencies!Sweep(r)
  BY <1>12 DEF Dependencies!Sweep, Dependencies!Domains, Dependencies!KeysAreHashed, Dependencies!TypeOK,
         Dependencies!Filled, Dependencies!FilledVolumesFit, Dependencies!RepositoryIsLeftClean
<1>13. CASE \E r \in CacheRuntimes : Dependencies!Restart(r)
  BY <1>13 DEF Dependencies!Restart, Dependencies!Domains, Dependencies!KeysAreHashed, Dependencies!TypeOK,
         Dependencies!Filled, Dependencies!FilledVolumesFit, Dependencies!RepositoryIsLeftClean
<1>14. CASE UNCHANGED Dependencies!vars
  BY <1>14 DEF Dependencies!vars, Dependencies!Domains, Dependencies!KeysAreHashed, Dependencies!TypeOK,
         Dependencies!Filled, Dependencies!FilledVolumesFit, Dependencies!RepositoryIsLeftClean
<1>15. CASE \E r \in CacheRuntimes : Dependencies!SweepFails(r)
  BY <1>15 DEF Dependencies!SweepFails, Dependencies!Domains, Dependencies!KeysAreHashed, Dependencies!TypeOK,
         Dependencies!Filled, Dependencies!FilledVolumesFit, Dependencies!RepositoryIsLeftClean
<1> QED
  BY <1>1, <1>2, <1>3, <1>4, <1>5, <1>6, <1>7, <1>8, <1>9, <1>10, <1>11, <1>12, <1>13,
     <1>14, <1>15 DEF Dependencies!Next, Dependencies!Progress

\* A session's container is given a volume that was filled from the session's own lockfiles
\* and that it may write to, and the repository is left clean: for any runtimes and any
\* versions of the lockfiles.
THEOREM VolumesFit ==
  ASSUME 1 \in LockVersions, LockVersions \subseteq Nat, None \notin LockVersions
  PROVE  PartsSpec => []VolumesFitTheirSessions
<1>1. PartsInit /\ part = "dependencies" => Dependencies!Init
  BY DEF PartsInit
<1>2. [PartsNext]_all /\ part = "dependencies" => [Dependencies!Next]_(Dependencies!vars)
  BY DEF PartsNext, all, Dependencies!vars
<1>3. [PartsNext]_all => (part = "dependencies" <=> (part = "dependencies")')
  BY PartStays
<1>4. VolumesInv => Dependencies!TypeOK /\ Dependencies!MountedVolumesFit /\ Dependencies!MountedVolumesAreOwned /\ Dependencies!RepositoryIsLeftClean
  BY DEF VolumesInv, Dependencies!Domains, Dependencies!FilledVolumesFit, Dependencies!Filled,
         Dependencies!MountedVolumesFit, Dependencies!MountedVolumesAreOwned, Dependencies!Mounts
<1>5. (part = "dependencies" => VolumesInv) => VolumesFitTheirSessions
  BY <1>4 DEF VolumesFitTheirSessions
<1> QED
  BY <1>1, <1>2, <1>3, <1>5, VolumesInit, VolumesStep, PTL DEF PartsSpec
-----------------------------------------------------------------------------
(***************************************************************************)
(* The processes behind the previews.                                      *)
(***************************************************************************)
ProcessInv ==
  /\ Process!Domains /\ Process!StepsHaveRefs /\ Process!ManagedRuns
  /\ Process!LeadersAreNamed /\ Process!StrangersAreSpared

\* What the agent knows of its processes when it is told of an exit.
LEMMA NotedRefs ==
  ASSUME None \notin Process!Refs, Process!Domains, NEW p \in Pids, NEW how \in {"exit", "signal"}
  PROVE  /\ Process!Noted(p, how) \in [Sessions -> Process!Refs \cup {None}]
         /\ \A t \in Sessions : Process!Noted(p, how)[t] = None <=> v3[t] = None
         /\ \A t \in Sessions : v3[t] # None =>
              /\ Process!Noted(p, how)[t].pid = v3[t].pid /\ Process!Noted(p, how)[t].token = v3[t].token
              /\ Process!Noted(p, how)[t].managed = v3[t].managed
              /\ v3[t].ended # "no" => Process!Noted(p, how)[t].ended # "no"
              /\ v3[t].pid = p /\ v3[t].managed /\ v1[p].owner = t => Process!Noted(p, how)[t].ended # "no"
<1> DEFINE N == Process!Noted(p, how)
<1>1. N = [t \in Sessions |->
             IF v3[t] # None /\ v3[t].pid = p /\ v3[t].managed /\ v3[t].ended = "no" /\ v1[p].owner = t
               THEN [v3[t] EXCEPT !.ended = how] ELSE v3[t]]
  BY DEF Process!Noted
<1> HIDE DEF N
<1>2. ASSUME NEW t \in Sessions, v3[t] = None
      PROVE  N[t] = None
  BY <1>1, <1>2
<1>3. ASSUME NEW t \in Sessions, v3[t] # None
      PROVE  /\ N[t] \in Process!Refs
             /\ N[t].pid = v3[t].pid /\ N[t].token = v3[t].token /\ N[t].managed = v3[t].managed
             /\ v3[t].ended # "no" => N[t].ended # "no"
             /\ v3[t].pid = p /\ v3[t].managed /\ v1[p].owner = t => N[t].ended # "no"
  <2>1. v3[t] \in Process!Refs
    BY <1>3 DEF Process!Domains
  <2> QED
    BY <1>1, <1>3, <2>1 DEF Process!Refs
<1>4. N \in [Sessions -> Process!Refs \cup {None}]
  BY <1>1, <1>2, <1>3
<1> QED
  BY <1>2, <1>3, <1>4 DEF N

LEMMA ProcessInit ==
  ASSUME None \notin Process!Groups \cup Process!Refs, Other \notin Sessions
  PROVE  Process!Init => ProcessInv
<1> SUFFICES ASSUME Process!Init
             PROVE  ProcessInv
  OBVIOUS
<1> USE DEF Process!Init, Process!Steps, Process!Runs
<1>1. Process!Domains
  BY DEF Process!Domains
<1>2. Process!StepsHaveRefs
  BY DEF Process!StepsHaveRefs
<1>3. Process!ManagedRuns
  BY DEF Process!ManagedRuns
<1>4. Process!LeadersAreNamed
  BY DEF Process!LeadersAreNamed
<1>5. Process!StrangersAreSpared
  BY DEF Process!StrangersAreSpared
<1> QED
  BY <1>1, <1>2, <1>3, <1>4, <1>5 DEF ProcessInv

LEMMA ProcessStep ==
  ASSUME None \notin Process!Groups \cup Process!Refs, Other \notin Sessions
  PROVE  ProcessInv /\ [Process!Next]_(Process!vars) => ProcessInv'
<1> SUFFICES ASSUME ProcessInv, [Process!Next]_(Process!vars)
             PROVE  ProcessInv'
  OBVIOUS
<1> USE DEF ProcessInv, Process!Steps, Process!Runs
<1>1. CASE \E s \in Sessions : Process!AllocateHostPort(s)
  BY <1>1 DEF Process!AllocateHostPort, Process!Domains, Process!StepsHaveRefs, Process!Noted,
         Process!Groups, Process!Refs, Process!ManagedRuns, Process!LeadersAreNamed, Process!MaySignal,
         Process!IsProcessGroupOwned, Process!StrangersAreSpared, Process!Hit
<1>2. CASE \E s \in Sessions : Process!Spawn(s)
  <2>1. PICK s \in Sessions : Process!Spawn(s)
    BY <1>2
  <2> DEFINE G == [owner |-> s, token |-> v5[s] + 1, leader |-> TRUE, port |-> None, left |-> FALSE]
             R(p) == [pid |-> p, token |-> v5[s] + 1, managed |-> TRUE, ended |-> "no"]
  <2>2. PICK p \in Pids : /\ v1[p] = None
                          /\ v1' = [v1 EXCEPT ![p] = G]
                          /\ v3' = [v3 EXCEPT ![s] = R(p)]
    BY <2>1 DEF Process!Spawn
  <2>5. v5[s] + 1 \in Nat /\ v3[s] = None /\ s \notin Docker
    BY <2>1 DEF Process!Spawn, Process!Domains, Process!StepsHaveRefs
  <2>3. G \in Process!Groups /\ G.owner = s /\ G # None
    <3>1. G \in Process!Groups
      BY <2>5 DEF Process!Groups
    <3> QED
      BY <3>1
  <2>4. /\ R(p) \in Process!Refs /\ R(p) # None
        /\ R(p).pid = p /\ R(p).managed /\ R(p).ended = "no" /\ R(p).token = G.token
    <3>1. R(p) \in Process!Refs
      BY <2>2, <2>5 DEF Process!Refs
    <3> QED
      BY <3>1
  <2> HIDE DEF G, R
  <2>6. /\ v3'[s] = R(p) /\ \A t \in Sessions \ {s} : v3'[t] = v3[t]
        /\ v1'[p] = G /\ \A q \in Pids \ {p} : v1'[q] = v1[q]
        /\ v4'[s] = "check" /\ \A t \in Sessions \ {s} : v4'[t] = v4[t]
    BY <2>1, <2>2 DEF Process!Spawn, Process!Domains
  <2>11. Process!Domains'
    BY <2>1, <2>2, <2>3, <2>4, <2>5 DEF Process!Spawn, Process!Domains
  <2>12. Process!StepsHaveRefs'
    BY <2>4, <2>5, <2>6 DEF Process!StepsHaveRefs
  <2>13. Process!ManagedRuns'
    BY <2>2, <2>3, <2>4, <2>6 DEF Process!ManagedRuns, Process!Domains, Process!Refs
  <2>14. Process!LeadersAreNamed'
    <3> SUFFICES ASSUME NEW t \in Sessions, NEW q \in Pids, v1'[q] # None, v1'[q].owner = t, v1'[q].leader, ~v1'[q].left
                 PROVE  v3'[t] # None /\ (t \notin Docker => q = v3'[t].pid /\ v1'[q].token = v3'[t].token)
      BY <2>1 DEF Process!Spawn, Process!LeadersAreNamed
    <3>1. CASE q = p
      BY <3>1, <2>3, <2>4, <2>6
    <3>2. CASE q # p
      BY <3>2, <2>5, <2>6 DEF Process!LeadersAreNamed
    <3> QED
      BY <3>1, <3>2
  <2>15. Process!StrangersAreSpared'
    BY <2>1 DEF Process!Spawn, Process!StrangersAreSpared
  <2> QED
    BY <2>11, <2>12, <2>13, <2>14, <2>15
<1>3. CASE \E s \in Sessions : Process!RunContainer(s)
  <2>1. PICK s \in Sessions : Process!RunContainer(s)
    BY <1>3
  <2> DEFINE G == [owner |-> s, token |-> v5[s] + 1, leader |-> TRUE, port |-> None, left |-> FALSE]
             R(p, e) == [pid |-> p, token |-> v5[s] + 1, managed |-> TRUE, ended |-> IF e THEN "exit" ELSE "no"]
             taken == \E p \in Pids : v1[p] # None /\ v1[p].owner = s
  <2>2. PICK p \in Pids : /\ v1[p] = None
                          /\ v1' = IF taken THEN v1 ELSE [v1 EXCEPT ![p] = G]
                          /\ v3' = [v3 EXCEPT ![s] = R(p, taken)]
    BY <2>1 DEF Process!RunContainer
  <2>5. v5[s] + 1 \in Nat /\ v3[s] = None /\ s \in Docker
    BY <2>1 DEF Process!RunContainer, Process!Domains, Process!StepsHaveRefs
  <2>3. G \in Process!Groups /\ G.owner = s /\ G # None
    <3>1. G \in Process!Groups
      BY <2>5 DEF Process!Groups
    <3> QED
      BY <3>1
  <2>4. /\ R(p, taken) \in Process!Refs /\ R(p, taken) # None
        /\ R(p, taken).pid = p /\ R(p, taken).managed
    <3>1. taken \in BOOLEAN
      OBVIOUS
    <3> HIDE DEF taken
    <3>2. R(p, taken) \in Process!Refs
      BY <2>2, <2>5, <3>1 DEF Process!Refs
    <3> QED
      BY <3>2
  <2>6. R(p, taken).ended = "no" => ~taken
    OBVIOUS
  <2> HIDE DEF G, R
  <2>7. /\ v3'[s] = R(p, taken) /\ \A t \in Sessions \ {s} : v3'[t] = v3[t]
        /\ ~taken => v1'[p] = G
        /\ \A q \in Pids \ {p} : v1'[q] = v1[q]
        /\ taken => v1' = v1
        /\ v4'[s] = "check" /\ \A t \in Sessions \ {s} : v4'[t] = v4[t]
    BY <2>1, <2>2 DEF Process!RunContainer, Process!Domains
  <2>8. v1' \in [Pids -> Process!Groups \cup {None}]
    BY <2>2, <2>3 DEF Process!Domains
  <2> HIDE DEF taken
  <2>11. Process!Domains'
    BY <2>1, <2>2, <2>4, <2>5, <2>8 DEF Process!RunContainer, Process!Domains
  <2>12. Process!StepsHaveRefs'
    BY <2>4, <2>5, <2>7 DEF Process!StepsHaveRefs
  <2>13. Process!ManagedRuns'
    <3> SUFFICES ASSUME NEW t \in Sessions, v3'[t] # None, v3'[t].managed, v3'[t].ended = "no"
                 PROVE  v1'[v3'[t].pid] # None /\ v1'[v3'[t].pid].owner = t
      BY DEF Process!ManagedRuns
    <3>1. CASE t = s
      BY <3>1, <2>3, <2>4, <2>6, <2>7
    <3>2. CASE t # s
      <4>1. v1[v3[t].pid] # None /\ v1[v3[t].pid].owner = t /\ v3[t].pid \in Pids
        BY <3>2, <2>7 DEF Process!ManagedRuns, Process!Domains, Process!Refs
      <4> QED
        BY <3>2, <4>1, <2>2, <2>7
    <3> QED
      BY <3>1, <3>2
  <2>14. Process!LeadersAreNamed'
    <3> SUFFICES ASSUME NEW t \in Sessions, NEW q \in Pids, v1'[q] # None, v1'[q].owner = t, v1'[q].leader, ~v1'[q].left
                 PROVE  v3'[t] # None /\ (t \notin Docker => q = v3'[t].pid /\ v1'[q].token = v3'[t].token)
      BY <2>1 DEF Process!RunContainer, Process!LeadersAreNamed
    <3>1. CASE t = s
      BY <3>1, <2>4, <2>5, <2>7
    <3>2. CASE t # s
      <4>1. v1'[q] = v1[q]
        BY <3>2, <2>2, <2>3, <2>7
      <4> QED
        BY <3>2, <4>1, <2>7 DEF Process!LeadersAreNamed
    <3> QED
      BY <3>1, <3>2
  <2>15. Process!StrangersAreSpared'
    BY <2>1 DEF Process!RunContainer, Process!StrangersAreSpared
  <2> QED
    BY <2>11, <2>12, <2>13, <2>14, <2>15
<1>4. CASE \E s \in Sessions : Process!SpawnFails(s)
  BY <1>4 DEF Process!SpawnFails, Process!Domains, Process!StepsHaveRefs, Process!Noted, Process!Groups,
         Process!Refs, Process!ManagedRuns, Process!LeadersAreNamed, Process!MaySignal,
         Process!IsProcessGroupOwned, Process!StrangersAreSpared, Process!Hit
<1>5. CASE \E s \in Sessions : Process!Request(s)
  BY <1>5 DEF Process!Request, Process!Domains, Process!StepsHaveRefs, Process!Noted, Process!Groups,
         Process!Refs, Process!ManagedRuns, Process!LeadersAreNamed, Process!MaySignal,
         Process!IsProcessGroupOwned, Process!StrangersAreSpared, Process!Hit
<1>6. CASE \E s \in Sessions : Process!Answer(s)
  BY <1>6 DEF Process!Answer, Process!Domains, Process!StepsHaveRefs, Process!Noted, Process!Groups,
         Process!Refs, Process!ManagedRuns, Process!LeadersAreNamed, Process!MaySignal,
         Process!IsProcessGroupOwned, Process!StrangersAreSpared, Process!Hit
<1>7. CASE \E s \in Sessions : Process!Deadline(s)
  BY <1>7 DEF Process!Deadline, Process!Domains, Process!StepsHaveRefs, Process!Noted, Process!Groups,
         Process!Refs, Process!ManagedRuns, Process!LeadersAreNamed, Process!MaySignal,
         Process!IsProcessGroupOwned, Process!StrangersAreSpared, Process!Hit
<1>8. CASE \E s \in Sessions : Process!StopNothing(s)
  BY <1>8 DEF Process!StopNothing, Process!Domains, Process!StepsHaveRefs, Process!Noted, Process!Groups,
         Process!Refs, Process!ManagedRuns, Process!LeadersAreNamed, Process!MaySignal,
         Process!IsProcessGroupOwned, Process!StrangersAreSpared, Process!Hit
<1>9. CASE \E s \in Sessions : Process!Terminate(s)
  <2>1. PICK s \in Sessions : Process!Terminate(s)
    BY <1>9
  <2>2. v3[s] \in Process!Refs /\ v3[s].pid \in Pids /\ v3[s] # None /\ s \notin Docker /\ v1[v3[s].pid] # None
    BY <2>1 DEF Process!Terminate, Process!Domains, Process!StepsHaveRefs, Process!Refs
  <2>3. \/ v1' = v1 /\ v3' = v3
        \/ v1' = [v1 EXCEPT ![v3[s].pid] = None] /\ v3' = Process!Noted(v3[s].pid, "signal")
    BY <2>1 DEF Process!Terminate
  <2>4. /\ v1' \in [Pids -> Process!Groups \cup {None}]
        /\ \A q \in Pids : v1'[q] = v1[q] \/ (q = v3[s].pid /\ (v1'[q] = None \/ ~v1'[q].leader))
    BY <2>2, <2>3 DEF Process!Domains
  <2>5. /\ v3' \in [Sessions -> Process!Refs \cup {None}]
        /\ \A t \in Sessions : v3'[t] = None <=> v3[t] = None
        /\ \A t \in Sessions : v3[t] # None =>
             /\ v3'[t].pid = v3[t].pid /\ v3'[t].token = v3[t].token /\ v3'[t].managed = v3[t].managed
             /\ v3[t].ended # "no" => v3'[t].ended # "no"
             /\ v3[t].pid = v3[s].pid /\ v3[t].managed /\ v1[v3[s].pid].owner = t /\ v1' # v1 => v3'[t].ended # "no"
    BY <2>2, <2>3, NotedRefs DEF Process!Domains
  <2>6. v4' = [v4 EXCEPT ![s] = "kill"] /\ v4[s] \in {"ready", "failed"} /\ v2' = v2 /\ v5' = v5
    BY <2>1 DEF Process!Terminate
  <2>11. Process!Domains'
    BY <2>2, <2>4, <2>5, <2>6 DEF Process!Domains
  <2>12. Process!StepsHaveRefs'
    BY <2>2, <2>4, <2>5, <2>6 DEF Process!StepsHaveRefs
  <2>13. Process!ManagedRuns'
    <3> SUFFICES ASSUME NEW t \in Sessions, v3'[t] # None, v3'[t].managed, v3'[t].ended = "no"
                 PROVE  v1'[v3'[t].pid] # None /\ v1'[v3'[t].pid].owner = t
      BY DEF Process!ManagedRuns
    <3>1. v3[t] # None /\ v3[t].managed /\ v3[t].ended = "no" /\ v3'[t].pid = v3[t].pid
      BY <2>5
    <3>2. v1[v3[t].pid] # None /\ v1[v3[t].pid].owner = t /\ v3[t].pid \in Pids
      BY <3>1 DEF Process!ManagedRuns, Process!Domains, Process!Refs
    <3>3. v1'[v3[t].pid] = v1[v3[t].pid]
      BY <2>4, <2>5, <3>1, <3>2
    <3> QED
      BY <3>1, <3>2, <3>3
  <2>14. Process!LeadersAreNamed'
    <3> SUFFICES ASSUME NEW t \in Sessions, NEW q \in Pids, v1'[q] # None, v1'[q].owner = t, v1'[q].leader, ~v1'[q].left
                 PROVE  v3'[t] # None /\ (t \notin Docker => q = v3'[t].pid /\ v1'[q].token = v3'[t].token)
      BY <2>6 DEF Process!LeadersAreNamed
    <3>1. v1'[q] = v1[q]
      BY <2>4
    <3>2. v3[t] # None /\ (t \notin Docker => q = v3[t].pid /\ v1[q].token = v3[t].token)
      BY <3>1 DEF Process!LeadersAreNamed
    <3> QED
      BY <3>1, <3>2, <2>5
  <2>15. Process!StrangersAreSpared'
    <3> DEFINE h == [signal |-> "SIGTERM", ended |-> v3[s].ended]
    <3>1. v1[v3[s].pid].owner # s => h.ended # "no"
      BY <2>1, <2>2 DEF Process!Terminate, Process!MaySignal, Process!IsProcessGroupOwned, Process!ManagedRuns
    <3>2. v6' = v6 \/ (v6' = v6 \cup {h} /\ h.ended # "no")
      BY <2>1, <3>1 DEF Process!Terminate, Process!Hit
    <3> HIDE DEF h
    <3> QED
      BY <3>2 DEF Process!StrangersAreSpared
  <2> QED
    BY <2>11, <2>12, <2>13, <2>14, <2>15
<1>10. CASE \E s \in Sessions : Process!Kill(s)
  <2>1. PICK s \in Sessions : Process!Kill(s)
    BY <1>10
  <2>2. v3[s] \in Process!Refs /\ v3[s].pid \in Pids /\ v3[s] # None /\ s \notin Docker
    BY <2>1 DEF Process!Kill, Process!Domains, Process!StepsHaveRefs, Process!Refs
  <2> DEFINE told == IF v1[v3[s].pid] # None THEN Process!Noted(v3[s].pid, "signal") ELSE v3
  <2>3. v1' = [v1 EXCEPT ![v3[s].pid] = None] /\ v3' = [told EXCEPT ![s] = None]
    BY <2>1 DEF Process!Kill
  <2>4. v1' \in [Pids -> Process!Groups \cup {None}] /\ v1'[v3[s].pid] = None
        /\ \A q \in Pids : v1'[q] = v1[q] \/ (q = v3[s].pid /\ v1'[q] = None)
    BY <2>2, <2>3 DEF Process!Domains
  <2>7. /\ told \in [Sessions -> Process!Refs \cup {None}]
        /\ \A t \in Sessions : told[t] = None <=> v3[t] = None
        /\ \A t \in Sessions : v3[t] # None =>
             /\ told[t].pid = v3[t].pid /\ told[t].token = v3[t].token /\ told[t].managed = v3[t].managed
             /\ v3[t].ended # "no" => told[t].ended # "no"
             /\ v3[t].pid = v3[s].pid /\ v3[t].managed /\ v1[v3[s].pid].owner = t /\ v1[v3[s].pid] # None
                  => told[t].ended # "no"
    BY <2>2, NotedRefs DEF Process!Domains
  <2> HIDE DEF told
  <2>5. /\ v3' \in [Sessions -> Process!Refs \cup {None}]
        /\ v3'[s] = None /\ \A t \in Sessions \ {s} : v3'[t] = told[t]
    BY <2>3, <2>7
  <2>6. v4' = [v4 EXCEPT ![s] = "idle"] /\ v4[s] = "kill" /\ v2' = v2 /\ v5' = v5
    BY <2>1 DEF Process!Kill
  <2>11. Process!Domains'
    BY <2>4, <2>5, <2>6 DEF Process!Domains
  <2>12. Process!StepsHaveRefs'
    <3> SUFFICES ASSUME NEW t \in Sessions
                 PROVE  /\ v4'[t] \in {"check", "answered", "ready", "failed", "kill"} <=> v3'[t] # None
                        /\ v4'[t] \in {"check", "answered"} => v3'[t].managed
                        /\ v4'[t] = "kill" => t \notin Docker
      BY DEF Process!StepsHaveRefs
    <3>1. CASE t = s
      BY <3>1, <2>5, <2>6 DEF Process!Domains
    <3>2. CASE t # s
      BY <3>2, <2>5, <2>6, <2>7 DEF Process!Domains, Process!StepsHaveRefs
    <3> QED
      BY <3>1, <3>2
  <2>13. Process!ManagedRuns'
    <3> SUFFICES ASSUME NEW t \in Sessions, v3'[t] # None, v3'[t].managed, v3'[t].ended = "no"
                 PROVE  v1'[v3'[t].pid] # None /\ v1'[v3'[t].pid].owner = t
      BY DEF Process!ManagedRuns
    <3>1. t # s /\ v3[t] # None /\ v3[t].managed /\ v3[t].ended = "no" /\ v3'[t] = told[t] /\ v3'[t].pid = v3[t].pid
      BY <2>5, <2>7
    <3>2. v1[v3[t].pid] # None /\ v1[v3[t].pid].owner = t /\ v3[t].pid \in Pids
      BY <3>1 DEF Process!ManagedRuns, Process!Domains, Process!Refs
    <3>3. v1'[v3[t].pid] = v1[v3[t].pid]
      BY <2>4, <2>7, <3>1, <3>2
    <3> QED
      BY <3>1, <3>2, <3>3
  <2>14. Process!LeadersAreNamed'
    <3> SUFFICES ASSUME NEW t \in Sessions, NEW q \in Pids, v1'[q] # None, v1'[q].owner = t, v1'[q].leader, ~v1'[q].left
                 PROVE  v3'[t] # None /\ (t \notin Docker => q = v3'[t].pid /\ v1'[q].token = v3'[t].token)
      BY <2>6 DEF Process!LeadersAreNamed
    <3>1. v1'[q] = v1[q] /\ q # v3[s].pid
      BY <2>4
    <3>2. v3[t] # None /\ (t \notin Docker => q = v3[t].pid /\ v1[q].token = v3[t].token)
      BY <3>1 DEF Process!LeadersAreNamed
    <3>3. t # s
      BY <3>1, <3>2, <2>2
    <3> QED
      BY <3>1, <3>2, <3>3, <2>5, <2>7
  <2>15. Process!StrangersAreSpared'
    <3> DEFINE h == [signal |-> "SIGKILL", ended |-> v3[s].ended]
    <3>1. h.signal = "SIGKILL" /\ (v6' = v6 \/ v6' = v6 \cup {h})
      BY <2>1 DEF Process!Kill, Process!Hit
    <3> HIDE DEF h
    <3> QED
      BY <3>1 DEF Process!StrangersAreSpared
  <2> QED
    BY <2>11, <2>12, <2>13, <2>14, <2>15
<1>11. CASE \E s \in Sessions : Process!StopContainer(s)
  <2>1. PICK s \in Sessions : Process!StopContainer(s)
    BY <1>11
  <2> DEFINE of(g, stopped) == IF stopped THEN None ELSE [g EXCEPT !.left = TRUE]
  <2>2. PICK stopped \in BOOLEAN :
          v1' = [p \in Pids |-> IF v1[p] # None /\ v1[p].owner = s THEN of(v1[p], stopped) ELSE v1[p]]
    BY <2>1 DEF Process!StopContainer
  <2>3. /\ s \in Docker /\ v3' = [v3 EXCEPT ![s] = None] /\ v4' = [v4 EXCEPT ![s] = "idle"]
        /\ v2' = v2 /\ v5' = v5 /\ v6' = v6
    BY <2>1 DEF Process!StopContainer
  <2>4. v3'[s] = None /\ \A t \in Sessions \ {s} : v3'[t] = v3[t]
    BY <2>3 DEF Process!Domains
  <2>5. ASSUME NEW p \in Pids, v1[p] # None
        PROVE  of(v1[p], stopped) = None \/ (of(v1[p], stopped) \in Process!Groups /\ of(v1[p], stopped).left)
    <3>1. v1[p] \in Process!Groups
      BY <2>5 DEF Process!Domains
    <3> QED
      BY <3>1 DEF Process!Groups
  <2> HIDE DEF of
  <2>6. /\ v1' \in [Pids -> Process!Groups \cup {None}]
        /\ \A p \in Pids : v1'[p] = v1[p] \/ (v1[p].owner = s /\ (v1'[p] = None \/ v1'[p].left))
    BY <2>2, <2>5 DEF Process!Domains
  <2>11. Process!Domains'
    BY <2>3, <2>6 DEF Process!Domains
  <2>12. Process!StepsHaveRefs'
    BY <2>3 DEF Process!StepsHaveRefs, Process!Domains
  <2>13. Process!ManagedRuns'
    <3> SUFFICES ASSUME NEW t \in Sessions \ {s}, v3[t] # None, v3[t].managed, v3[t].ended = "no"
                 PROVE  v1'[v3[t].pid] # None /\ v1'[v3[t].pid].owner = t
      BY <2>4 DEF Process!ManagedRuns
    <3>1. v1[v3[t].pid] # None /\ v1[v3[t].pid].owner = t /\ v3[t].pid \in Pids
      BY DEF Process!ManagedRuns, Process!Domains, Process!Refs
    <3> QED
      BY <2>6, <3>1
  <2>14. Process!LeadersAreNamed'
    <3> SUFFICES ASSUME NEW t \in Sessions, NEW q \in Pids, v1'[q] # None, v1'[q].owner = t, v1'[q].leader, ~v1'[q].left
                 PROVE  v3'[t] # None /\ (t \notin Docker => q = v3'[t].pid /\ v1'[q].token = v3'[t].token)
      BY DEF Process!LeadersAreNamed
    <3>1. v1'[q] = v1[q]
      BY <2>6
    <3>2. v3[t] # None /\ (t \notin Docker => q = v3[t].pid /\ v1[q].token = v3[t].token)
      BY <3>1 DEF Process!LeadersAreNamed
    <3>3. t # s
      BY <2>2, <2>5, <3>1
    <3> QED
      BY <2>4, <3>1, <3>2, <3>3
  <2>15. Process!StrangersAreSpared'
    BY <2>3 DEF Process!StrangersAreSpared
  <2> QED
    BY <2>11, <2>12, <2>13, <2>14, <2>15
<1>12. CASE \E p \in Pids : Process!Bind(p)
  BY <1>12 DEF Process!Bind, Process!Domains, Process!StepsHaveRefs, Process!Noted, Process!Groups,
         Process!Refs, Process!ManagedRuns, Process!LeadersAreNamed, Process!MaySignal,
         Process!IsProcessGroupOwned, Process!StrangersAreSpared, Process!Hit
<1>13. CASE \E p \in Pids : Process!Ends(p)
  <2>1. PICK p \in Pids : Process!Ends(p)
    BY <1>13
  <2>2. v1[p] # None /\ v1[p] \in Process!Groups
    BY <2>1 DEF Process!Ends, Process!Domains
  <2>3. /\ v1' = [v1 EXCEPT ![p] = None] \/ v1' = [v1 EXCEPT ![p] = [v1[p] EXCEPT !.leader = FALSE]] \/ v1' = v1
        /\ \E how \in {"exit", "signal"} : v3' = Process!Noted(p, how)
    BY <2>1 DEF Process!Ends
  <2> DEFINE lost == [v1[p] EXCEPT !.leader = FALSE]
  <2>7. lost \in Process!Groups /\ ~lost.leader
    BY <2>2 DEF Process!Groups
  <2> HIDE DEF lost
  <2>8. v1' = [v1 EXCEPT ![p] = None] \/ v1' = [v1 EXCEPT ![p] = lost] \/ v1' = v1
    BY <2>3 DEF lost
  <2>4. /\ v1' \in [Pids -> Process!Groups \cup {None}]
        /\ \A q \in Pids : v1'[q] = v1[q] \/ (q = p /\ (v1'[q] = None \/ ~v1'[q].leader))
    BY <2>2, <2>7, <2>8 DEF Process!Domains
  <2>5. /\ v3' \in [Sessions -> Process!Refs \cup {None}]
        /\ \A t \in Sessions : v3'[t] = None <=> v3[t] = None
        /\ \A t \in Sessions : v3[t] # None =>
             /\ v3'[t].pid = v3[t].pid /\ v3'[t].token = v3[t].token /\ v3'[t].managed = v3[t].managed
             /\ v3[t].ended # "no" => v3'[t].ended # "no"
             /\ v3[t].pid = p /\ v3[t].managed /\ v1[p].owner = t /\ v1' # v1 => v3'[t].ended # "no"
    BY <2>2, <2>3, NotedRefs DEF Process!Domains
  <2>6. v4' = v4 /\ v2' = v2 /\ v5' = v5
    BY <2>1 DEF Process!Ends
  <2>11. Process!Domains'
    BY <2>4, <2>5, <2>6 DEF Process!Domains
  <2>12. Process!StepsHaveRefs'
    BY <2>4, <2>5, <2>6 DEF Process!StepsHaveRefs
  <2>13. Process!ManagedRuns'
    <3> SUFFICES ASSUME NEW t \in Sessions, v3'[t] # None, v3'[t].managed, v3'[t].ended = "no"
                 PROVE  v1'[v3'[t].pid] # None /\ v1'[v3'[t].pid].owner = t
      BY DEF Process!ManagedRuns
    <3>1. v3[t] # None /\ v3[t].managed /\ v3[t].ended = "no" /\ v3'[t].pid = v3[t].pid
      BY <2>5
    <3>2. v1[v3[t].pid] # None /\ v1[v3[t].pid].owner = t /\ v3[t].pid \in Pids
      BY <3>1 DEF Process!ManagedRuns, Process!Domains, Process!Refs
    <3>3. v1'[v3[t].pid] = v1[v3[t].pid]
      BY <2>4, <2>5, <3>1, <3>2
    <3> QED
      BY <3>1, <3>2, <3>3
  <2>14. Process!LeadersAreNamed'
    <3> SUFFICES ASSUME NEW t \in Sessions, NEW q \in Pids, v1'[q] # None, v1'[q].owner = t, v1'[q].leader, ~v1'[q].left
                 PROVE  v3'[t] # None /\ (t \notin Docker => q = v3'[t].pid /\ v1'[q].token = v3'[t].token)
      BY <2>6 DEF Process!LeadersAreNamed
    <3>1. v1'[q] = v1[q]
      BY <2>4
    <3>2. v3[t] # None /\ (t \notin Docker => q = v3[t].pid /\ v1[q].token = v3[t].token)
      BY <3>1 DEF Process!LeadersAreNamed
    <3> QED
      BY <3>1, <3>2, <2>5
  <2>15. Process!StrangersAreSpared'
    BY <2>1 DEF Process!Ends, Process!StrangersAreSpared
  <2> QED
    BY <2>11, <2>12, <2>13, <2>14, <2>15
<1>14. CASE \E p \in Pids : Process!Reuse(p)
  BY <1>14 DEF Process!Reuse, Process!Domains, Process!StepsHaveRefs, Process!Noted, Process!Groups,
         Process!Refs, Process!ManagedRuns, Process!LeadersAreNamed, Process!MaySignal,
         Process!IsProcessGroupOwned, Process!StrangersAreSpared, Process!Hit
<1>15. CASE Process!Restart
  <2>1. /\ v3' = [s \in Sessions |-> IF v3[s] = None THEN None ELSE [v3[s] EXCEPT !.managed = FALSE, !.ended = "no"]]
        /\ v4' = [s \in Sessions |-> IF v3[s] = None THEN "idle" ELSE "failed"]
        /\ v1' = v1 /\ v2' = v2 /\ v5' = v5 /\ v6' = v6
    BY <1>15 DEF Process!Restart
  <2>2. ASSUME NEW t \in Sessions, v3[t] # None
        PROVE  /\ v3'[t] \in Process!Refs
               /\ v3'[t].pid = v3[t].pid /\ v3'[t].token = v3[t].token /\ ~v3'[t].managed
    BY <2>1, <2>2 DEF Process!Domains, Process!Refs
  <2>3. ASSUME NEW t \in Sessions, v3[t] = None
        PROVE  v3'[t] = None
    BY <2>1, <2>3
  <2>4. v3' \in [Sessions -> Process!Refs \cup {None}]
    BY <2>1, <2>2, <2>3
  <2>11. Process!Domains'
    BY <2>1, <2>4 DEF Process!Domains
  <2>12. Process!StepsHaveRefs'
    BY <2>1, <2>2, <2>3 DEF Process!StepsHaveRefs
  <2>13. Process!ManagedRuns'
    BY <2>2, <2>3 DEF Process!ManagedRuns
  <2>14. Process!LeadersAreNamed'
    <3> SUFFICES ASSUME NEW t \in Sessions, NEW q \in Pids, v1'[q] # None, v1'[q].owner = t, v1'[q].leader, ~v1'[q].left
                 PROVE  v3'[t] # None /\ (t \notin Docker => q = v3'[t].pid /\ v1'[q].token = v3'[t].token)
      BY DEF Process!LeadersAreNamed
    <3>1. v1'[q] = v1[q]
      BY <2>1
    <3>2. v3[t] # None /\ (t \notin Docker => q = v3[t].pid /\ v1[q].token = v3[t].token)
      BY <3>1 DEF Process!LeadersAreNamed
    <3>3. v3'[t] # None
      BY <3>2, <2>2
    <3> QED
      BY <3>1, <3>2, <3>3, <2>2
  <2>15. Process!StrangersAreSpared'
    BY <2>1 DEF Process!StrangersAreSpared
  <2> QED
    BY <2>11, <2>12, <2>13, <2>14, <2>15
<1>16. CASE UNCHANGED Process!vars
  BY <1>16 DEF Process!vars, Process!Domains, Process!StepsHaveRefs, Process!Noted, Process!Groups,
         Process!Refs, Process!ManagedRuns, Process!LeadersAreNamed, Process!MaySignal,
         Process!IsProcessGroupOwned, Process!StrangersAreSpared, Process!Hit
<1>17. CASE \E s \in Sessions : Process!PsFails(s)
  <2>1. PICK s \in Sessions : Process!PsFails(s)
    BY <1>17
  <2> DEFINE g == [v1[v3[s].pid] EXCEPT !.left = TRUE]
  <2>2. v3[s] \in Process!Refs /\ v3[s].pid \in Pids /\ v1[v3[s].pid] \in Process!Groups
    BY <2>1 DEF Process!PsFails, Process!Domains, Process!StepsHaveRefs, Process!Refs, Process!IsProcessGroupOwned
  <2>3. g \in Process!Groups /\ g.owner = v1[v3[s].pid].owner /\ g.left
    BY <2>2 DEF Process!Groups
  <2>4. v1' = [v1 EXCEPT ![v3[s].pid] = g]
    BY <2>1 DEF Process!PsFails
  <2> HIDE DEF g
  <2>5. /\ v1' \in [Pids -> Process!Groups \cup {None}] /\ v1'[v3[s].pid] = g /\ g # None
        /\ \A q \in Pids \ {v3[s].pid} : v1'[q] = v1[q]
    BY <2>2, <2>3, <2>4 DEF Process!Domains
  <2>6. /\ v3' = [v3 EXCEPT ![s] = None] /\ v4' = [v4 EXCEPT ![s] = "idle"] /\ v2' = v2 /\ v5' = v5 /\ v6' = v6
    BY <2>1 DEF Process!PsFails
  <2>7. v3'[s] = None /\ \A t \in Sessions \ {s} : v3'[t] = v3[t]
    BY <2>6 DEF Process!Domains
  <2>11. Process!Domains'
    BY <2>5, <2>6 DEF Process!Domains
  <2>12. Process!StepsHaveRefs'
    BY <2>6 DEF Process!StepsHaveRefs, Process!Domains
  <2>13. Process!ManagedRuns'
    <3> SUFFICES ASSUME NEW t \in Sessions \ {s}, v3[t] # None, v3[t].managed, v3[t].ended = "no"
                 PROVE  v1'[v3[t].pid] # None /\ v1'[v3[t].pid].owner = t
      BY <2>7 DEF Process!ManagedRuns
    <3>1. v1[v3[t].pid] # None /\ v1[v3[t].pid].owner = t /\ v3[t].pid \in Pids
      BY DEF Process!ManagedRuns, Process!Domains, Process!Refs
    <3> QED
      BY <2>3, <2>5, <3>1
  <2>14. Process!LeadersAreNamed'
    <3> SUFFICES ASSUME NEW t \in Sessions, NEW q \in Pids, v1'[q] # None, v1'[q].owner = t, v1'[q].leader, ~v1'[q].left
                 PROVE  v3'[t] # None /\ (t \notin Docker => q = v3'[t].pid /\ v1'[q].token = v3'[t].token)
      BY DEF Process!LeadersAreNamed
    <3>1. q # v3[s].pid /\ v1'[q] = v1[q]
      BY <2>3, <2>5
    <3>2. v3[t] # None /\ (t \notin Docker => q = v3[t].pid /\ v1[q].token = v3[t].token)
      BY <3>1 DEF Process!LeadersAreNamed
    <3>3. t # s
      BY <2>1, <3>1, <3>2 DEF Process!PsFails
    <3> QED
      BY <2>7, <3>1, <3>2, <3>3
  <2>15. Process!StrangersAreSpared'
    BY <2>6 DEF Process!StrangersAreSpared
  <2> QED
    BY <2>11, <2>12, <2>13, <2>14, <2>15
<1> QED
  BY <1>1, <1>2, <1>3, <1>4, <1>5, <1>6, <1>7, <1>8, <1>9, <1>10, <1>11, <1>12, <1>13, <1>14, <1>15,
     <1>16, <1>17 DEF Process!Next, Process!Wait

\* No group of somebody else is signalled because its number was read from the state file,
\* and a stop leaves no leader behind: for any sessions, process numbers and ports.
THEOREM SignalsAreOwn ==
  ASSUME None \notin Process!Groups \cup Process!Refs, Other \notin Sessions
  PROVE  PartsSpec => []ProcessesAreThePreviews
<1>1. PartsInit /\ part = "process" => Process!Init
  BY DEF PartsInit
<1>2. [PartsNext]_all /\ part = "process" => [Process!Next]_(Process!vars)
  BY DEF PartsNext, all, Process!vars
<1>3. [PartsNext]_all => (part = "process" <=> (part = "process")')
  BY PartStays
<1>4. ProcessInv => Process!TypeOK /\ Process!StrangersAreSpared /\ Process!StoppedIsGone
  BY DEF ProcessInv, Process!Domains, Process!StepsHaveRefs, Process!LeadersAreNamed, Process!TypeOK,
         Process!StoppedIsGone, Process!Groups, Process!Refs, Process!Runs
<1>5. (part = "process" => ProcessInv) => ProcessesAreThePreviews
  BY <1>4 DEF ProcessesAreThePreviews
<1> QED
  BY <1>1, <1>2, <1>3, <1>5, ProcessInit, ProcessStep, PTL DEF PartsSpec
LEMMA ProcessReadyStep ==
  ASSUME None \notin Process!Groups \cup Process!Refs, Other \notin Sessions
  PROVE  ProcessInv /\ [Process!Next]_(Process!vars) => Process!ReadyStep
<1> SUFFICES ASSUME ProcessInv, [Process!Next]_(Process!vars)
             PROVE  Process!ReadyStep
  OBVIOUS
<1> USE DEF ProcessInv
<1>1. CASE \E s \in Sessions : Process!AllocateHostPort(s)
  BY <1>1 DEF Process!AllocateHostPort, Process!Domains, Process!StepsHaveRefs, Process!ManagedRuns,
         Process!ReadyStep, Process!Refs, Process!Runs
<1>2. CASE \E s \in Sessions : Process!Spawn(s)
  BY <1>2 DEF Process!Spawn, Process!Domains, Process!StepsHaveRefs, Process!ManagedRuns, Process!ReadyStep,
         Process!Refs, Process!Runs
<1>3. CASE \E s \in Sessions : Process!RunContainer(s)
  BY <1>3 DEF Process!RunContainer, Process!Domains, Process!StepsHaveRefs, Process!ManagedRuns,
         Process!ReadyStep, Process!Refs, Process!Runs
<1>4. CASE \E s \in Sessions : Process!SpawnFails(s)
  BY <1>4 DEF Process!SpawnFails, Process!Domains, Process!StepsHaveRefs, Process!ManagedRuns,
         Process!ReadyStep, Process!Refs, Process!Runs
<1>5. CASE \E s \in Sessions : Process!Request(s)
  BY <1>5 DEF Process!Request, Process!Domains, Process!StepsHaveRefs, Process!ManagedRuns,
         Process!ReadyStep, Process!Refs, Process!Runs
<1>6. CASE \E s \in Sessions : Process!Answer(s)
  BY <1>6 DEF Process!Answer, Process!Domains, Process!StepsHaveRefs, Process!ManagedRuns,
         Process!ReadyStep, Process!Refs, Process!Runs
<1>7. CASE \E s \in Sessions : Process!Deadline(s)
  BY <1>7 DEF Process!Deadline, Process!Domains, Process!StepsHaveRefs, Process!ManagedRuns,
         Process!ReadyStep, Process!Refs, Process!Runs
<1>8. CASE \E s \in Sessions : Process!StopNothing(s)
  BY <1>8 DEF Process!StopNothing, Process!Domains, Process!StepsHaveRefs, Process!ManagedRuns,
         Process!ReadyStep, Process!Refs, Process!Runs
<1>9. CASE \E s \in Sessions : Process!Terminate(s)
  BY <1>9 DEF Process!Terminate, Process!Domains, Process!StepsHaveRefs, Process!ManagedRuns,
         Process!ReadyStep, Process!Refs, Process!Runs
<1>10. CASE \E s \in Sessions : Process!Kill(s)
  BY <1>10 DEF Process!Kill, Process!Domains, Process!StepsHaveRefs, Process!ManagedRuns, Process!ReadyStep,
         Process!Refs, Process!Runs
<1>11. CASE \E s \in Sessions : Process!StopContainer(s)
  BY <1>11 DEF Process!StopContainer, Process!Domains, Process!StepsHaveRefs, Process!ManagedRuns,
         Process!ReadyStep, Process!Refs, Process!Runs
<1>12. CASE \E p \in Pids : Process!Bind(p)
  BY <1>12 DEF Process!Bind, Process!Domains, Process!StepsHaveRefs, Process!ManagedRuns, Process!ReadyStep,
         Process!Refs, Process!Runs
<1>13. CASE \E p \in Pids : Process!Ends(p)
  BY <1>13 DEF Process!Ends, Process!Domains, Process!StepsHaveRefs, Process!ManagedRuns, Process!ReadyStep,
         Process!Refs, Process!Runs
<1>14. CASE \E p \in Pids : Process!Reuse(p)
  BY <1>14 DEF Process!Reuse, Process!Domains, Process!StepsHaveRefs, Process!ManagedRuns,
         Process!ReadyStep, Process!Refs, Process!Runs
<1>15. CASE Process!Restart
  BY <1>15 DEF Process!Restart, Process!Domains, Process!StepsHaveRefs, Process!ManagedRuns,
         Process!ReadyStep, Process!Refs, Process!Runs
<1>16. CASE UNCHANGED Process!vars
  BY <1>16 DEF Process!vars, Process!Domains, Process!StepsHaveRefs, Process!ManagedRuns, Process!ReadyStep,
         Process!Refs, Process!Runs
<1>17. CASE \E s \in Sessions : Process!PsFails(s)
  BY <1>17 DEF Process!PsFails, Process!ReadyStep, Process!StepsHaveRefs, Process!Domains
<1> QED
  BY <1>1, <1>2, <1>3, <1>4, <1>5, <1>6, <1>7, <1>8, <1>9, <1>10, <1>11, <1>12, <1>13, <1>14, <1>15,
     <1>16, <1>17 DEF Process!Next, Process!Wait
-----------------------------------------------------------------------------
(***************************************************************************)
(* The companion of a preview.                                             *)
(***************************************************************************)
CompanionInv == Companion!Domains /\ Companion!RuntimesAreForgotten /\ Companion!CleanedUpOrMissed

LEMMA CompanionInit == Companion!Init => CompanionInv
BY DEF CompanionInv, Companion!Init, Companion!Domains, Companion!RuntimesAreForgotten, Companion!CleanedUpOrMissed

LEMMA CompanionStep == CompanionInv /\ [Companion!Next]_(Companion!companionVars) => CompanionInv'
<1> SUFFICES ASSUME CompanionInv, [Companion!Next]_(Companion!companionVars)
             PROVE  CompanionInv'
  OBVIOUS
<1> USE DEF CompanionInv, Companion!Fault, Companion!Undoing, Companion!StopRuntime,
       Companion!FailStopRuntime, Companion!Forget
<1>1. CASE Companion!Prepare
  BY <1>1 DEF Companion!Prepare, Companion!Domains, Companion!RuntimesAreForgotten,
         Companion!CleanedUpOrMissed
<1>2. CASE Companion!StartSandbox
  BY <1>2 DEF Companion!StartSandbox, Companion!Domains, Companion!RuntimesAreForgotten,
         Companion!CleanedUpOrMissed
<1>3. CASE Companion!StartRuntime
  BY <1>3 DEF Companion!StartRuntime, Companion!Domains, Companion!RuntimesAreForgotten,
         Companion!CleanedUpOrMissed
<1>4. CASE Companion!Join
  BY <1>4 DEF Companion!Join, Companion!Domains, Companion!RuntimesAreForgotten, Companion!CleanedUpOrMissed
<1>5. CASE Companion!Refuse
  BY <1>5 DEF Companion!Refuse, Companion!Domains, Companion!RuntimesAreForgotten,
         Companion!CleanedUpOrMissed
<1>6. CASE Companion!OpenTunnel
  BY <1>6 DEF Companion!OpenTunnel, Companion!Domains, Companion!RuntimesAreForgotten,
         Companion!CleanedUpOrMissed
<1>7. CASE Companion!FailPrepare
  BY <1>7 DEF Companion!FailPrepare, Companion!Domains, Companion!RuntimesAreForgotten,
         Companion!CleanedUpOrMissed
<1>8. CASE Companion!FailStart
  BY <1>8 DEF Companion!FailStart, Companion!Domains, Companion!RuntimesAreForgotten,
         Companion!CleanedUpOrMissed
<1>9. CASE Companion!Remove
  BY <1>9 DEF Companion!Remove, Companion!Domains, Companion!RuntimesAreForgotten,
         Companion!CleanedUpOrMissed
<1>10. CASE Companion!CleanUp
  BY <1>10 DEF Companion!CleanUp, Companion!Domains, Companion!RuntimesAreForgotten,
         Companion!CleanedUpOrMissed
<1>11. CASE Companion!StopSandbox
  BY <1>11 DEF Companion!StopSandbox, Companion!Domains, Companion!RuntimesAreForgotten,
         Companion!CleanedUpOrMissed
<1>12. CASE Companion!FailStopSandbox
  BY <1>12 DEF Companion!FailStopSandbox, Companion!Domains, Companion!RuntimesAreForgotten,
         Companion!CleanedUpOrMissed
<1>13. CASE Companion!Close
  BY <1>13 DEF Companion!Close, Companion!Domains, Companion!RuntimesAreForgotten,
         Companion!CleanedUpOrMissed
<1>14. CASE Companion!ShutDown
  BY <1>14 DEF Companion!ShutDown, Companion!Domains, Companion!RuntimesAreForgotten,
         Companion!CleanedUpOrMissed
<1>15. CASE Companion!OpenInner
  BY <1>15 DEF Companion!OpenInner, Companion!Domains, Companion!RuntimesAreForgotten,
         Companion!CleanedUpOrMissed
<1>16. CASE Companion!CloseInner
  BY <1>16 DEF Companion!CloseInner, Companion!Domains, Companion!RuntimesAreForgotten,
         Companion!CleanedUpOrMissed
<1>17. CASE Companion!Restart
  BY <1>17 DEF Companion!Restart, Companion!Domains, Companion!RuntimesAreForgotten,
         Companion!CleanedUpOrMissed
<1>18. CASE Companion!Revive
  BY <1>18 DEF Companion!Revive, Companion!Domains, Companion!RuntimesAreForgotten,
         Companion!CleanedUpOrMissed
<1>19. CASE UNCHANGED Companion!companionVars
  BY <1>19 DEF Companion!companionVars, Companion!Domains, Companion!RuntimesAreForgotten,
         Companion!CleanedUpOrMissed
<1> QED
  BY <1>1, <1>2, <1>3, <1>4, <1>5, <1>6, <1>7, <1>8, <1>9, <1>10, <1>11, <1>12, <1>13, <1>14, <1>15, <1>16,
     <1>17, <1>18, <1>19 DEF Companion!Next, Companion!BringUp, Companion!TakeDown

\* The companion's sessions end with the session, and a preview that is down has no companion,
\* whatever fails and however often the agent's process ends.
THEOREM CompanionsFollow == PartsSpec => []CompanionsFollowTheirPreview
<1>1. PartsInit /\ part = "companion" => Companion!Init
  BY DEF PartsInit
<1>2. [PartsNext]_all /\ part = "companion" => [Companion!Next]_(Companion!companionVars)
  BY DEF PartsNext, all, Companion!companionVars
<1>3. [PartsNext]_all => (part = "companion" <=> (part = "companion")')
  BY PartStays
<1>4. CompanionInv => Companion!InnerEndsWithOuter /\ Companion!NoCompanionWithoutPreview
  BY DEF CompanionInv, Companion!Domains, Companion!RuntimesAreForgotten, Companion!CleanedUpOrMissed,
         Companion!InnerEndsWithOuter, Companion!NoCompanionWithoutPreview
<1>5. (part = "companion" => CompanionInv) => CompanionsFollowTheirPreview
  BY <1>4 DEF CompanionsFollowTheirPreview
<1> QED
  BY <1>1, <1>2, <1>3, <1>5, CompanionInit, CompanionStep, PTL DEF PartsSpec
-----------------------------------------------------------------------------
(***************************************************************************)
(* The turns of a session.                                                 *)
(***************************************************************************)
TurnInv ==
  /\ Turn!Domains /\ Turn!RunsAreAlone /\ Turn!QueuesAreKept
  /\ Turn!ClosedRunsAreDone /\ Turn!SomebodyCleansUp

LEMMA LastOfTail ==
  ASSUME NEW S, NEW s \in Seq(S), s # <<>>
  PROVE  /\ Head(s) \in S /\ Tail(s) \in Seq(S) /\ Len(Tail(s)) = Len(s) - 1
         /\ Tail(s) = <<>> => Head(s) = s[Len(s)]
         /\ Tail(s) # <<>> => Tail(s)[Len(Tail(s))] = s[Len(s)]
         /\ \A t \in Seq(S) : Append(t, Head(s)) \in Seq(S) /\ Append(t, Head(s))[Len(Append(t, Head(s)))] = Head(s)
<1>1. Len(s) \in Nat /\ Len(s) > 0
  OBVIOUS
<1>2. Head(s) \in S /\ Tail(s) \in Seq(S) /\ Len(Tail(s)) = Len(s) - 1
  BY <1>1
<1>3. ASSUME Tail(s) = <<>>
      PROVE  Head(s) = s[Len(s)]
  <2>1. Len(<<>>) = 0
    OBVIOUS
  <2>2. Len(Tail(s)) = 0
    BY <1>3, <2>1, Zenon
  <2> DEFINE n == Len(s)
             m == Len(Tail(s))
  <2>4. n \in Nat /\ m = n - 1 /\ m = 0
    BY <1>1, <1>2, <2>2, Zenon
  <2> HIDE DEF n, m
  <2>5. n = 1
    BY <2>4
  <2>3. Len(s) = 1
    BY <2>5 DEF n
  <2> QED
    BY <2>3
<1>4. Tail(s) # <<>> => Tail(s)[Len(Tail(s))] = s[Len(s)]
  BY <1>1, <1>2
<1>5. ASSUME NEW t \in Seq(S)
      PROVE  Append(t, Head(s)) \in Seq(S) /\ Append(t, Head(s))[Len(Append(t, Head(s)))] = Head(s)
  BY <1>2
<1> QED
  BY <1>2, <1>3, <1>4, <1>5

LEMMA LastOfConcat ==
  ASSUME NEW S, NEW s \in Seq(S), NEW t \in Seq(S), Len(t) > 0
  PROVE  /\ s \o t \in Seq(S) /\ s \o t # <<>>
         /\ (s \o t)[Len(s \o t)] = t[Len(t)]
<1>1. Len(s) \in Nat /\ Len(t) \in Nat /\ s \o t \in Seq(S) /\ Len(s \o t) = Len(s) + Len(t)
  OBVIOUS
<1> QED
  BY <1>1

LEMMA TurnInit == Turn!Init => TurnInv
<1> SUFFICES ASSUME Turn!Init
             PROVE  TurnInv
  OBVIOUS
<1> USE DEF Turn!Init
<1>1. Turn!Domains
  BY DEF Turn!Domains, Turn!Stages
<1>2. Turn!RunsAreAlone
  BY DEF Turn!RunsAreAlone
<1>3. Turn!QueuesAreKept
  BY DEF Turn!QueuesAreKept
<1>4. Turn!ClosedRunsAreDone
  BY DEF Turn!ClosedRunsAreDone
<1>5. Turn!SomebodyCleansUp
  BY DEF Turn!SomebodyCleansUp
<1> QED
  BY <1>1, <1>2, <1>3, <1>4, <1>5 DEF TurnInv

LEMMA TurnStep ==
  ASSUME None \notin TwoSockets
  PROVE  TurnInv /\ [Turn!Next]_(Turn!vars) => TurnInv'
<1> SUFFICES ASSUME TurnInv, [Turn!Next]_(Turn!vars)
             PROVE  TurnInv'
  OBVIOUS
<1> USE DEF TurnInv, Turn!At, Turn!To, Turn!turnVars, Turn!runVars, Turn!fileVars, Turn!Stages, Turn!Events,
       Turn!CancelRun, Turn!Removed, Turn!RemovalFails
<1>1. CASE \E p \in TwoSockets : Turn!Begin(p)
  <2>1. Turn!Domains'
    BY <1>1 DEF Turn!Begin, Turn!Domains
  <2>2. Turn!RunsAreAlone'
    BY <1>1 DEF Turn!Begin, Turn!Domains, Turn!RunsAreAlone
  <2>3. Turn!QueuesAreKept'
    BY <1>1 DEF Turn!Begin, Turn!Domains, Turn!QueuesAreKept, Turn!RunsAreAlone
  <2>4. Turn!ClosedRunsAreDone'
    BY <1>1 DEF Turn!Begin, Turn!Domains, Turn!QueuesAreKept, Turn!ClosedRunsAreDone, Turn!RunsAreAlone
  <2>5. Turn!SomebodyCleansUp'
    <3>1. PICK p \in TwoSockets : Turn!Begin(p)
      BY <1>1
    <3>2. v1[p] = "idle" /\ v12' = v12 /\ \A q \in TwoSockets \ {p} : v1'[q] = v1[q]
      BY <3>1 DEF Turn!Begin, Turn!Domains
    <3> QED
      BY <3>2 DEF Turn!SomebodyCleansUp
  <2> QED
    BY <2>1, <2>2, <2>3, <2>4, <2>5
<1>2. CASE \E p \in TwoSockets : Turn!ClearScreenshots(p)
  <2>1. Turn!Domains'
    BY <1>2 DEF Turn!ClearScreenshots, Turn!Domains
  <2>2. Turn!RunsAreAlone'
    BY <1>2 DEF Turn!ClearScreenshots, Turn!Domains, Turn!RunsAreAlone
  <2>3. Turn!QueuesAreKept'
    BY <1>2 DEF Turn!ClearScreenshots, Turn!Domains, Turn!QueuesAreKept, Turn!RunsAreAlone
  <2>4. Turn!ClosedRunsAreDone'
    BY <1>2 DEF Turn!ClearScreenshots, Turn!Domains, Turn!QueuesAreKept, Turn!ClosedRunsAreDone,
           Turn!RunsAreAlone
  <2>5. Turn!SomebodyCleansUp'
    BY <1>2 DEF Turn!ClearScreenshots, Turn!Domains, Turn!SomebodyCleansUp
  <2> QED
    BY <2>1, <2>2, <2>3, <2>4, <2>5
<1>3. CASE \E p \in TwoSockets : Turn!MakeDirectory(p)
  BY <1>3 DEF Turn!MakeDirectory, Turn!Domains, Turn!RunsAreAlone, Turn!QueuesAreKept,
         Turn!ClosedRunsAreDone, Turn!SomebodyCleansUp
<1>4. CASE \E p \in TwoSockets : Turn!Fetch(p)
  <2>1. Turn!Domains'
    BY <1>4 DEF Turn!Fetch, Turn!Domains
  <2>2. Turn!RunsAreAlone'
    BY <1>4 DEF Turn!Fetch, Turn!Domains, Turn!RunsAreAlone
  <2>3. Turn!QueuesAreKept'
    BY <1>4 DEF Turn!Fetch, Turn!Domains, Turn!QueuesAreKept, Turn!RunsAreAlone
  <2>4. Turn!ClosedRunsAreDone'
    BY <1>4 DEF Turn!Fetch, Turn!Domains, Turn!QueuesAreKept, Turn!ClosedRunsAreDone, Turn!RunsAreAlone
  <2>5. Turn!SomebodyCleansUp'
    BY <1>4 DEF Turn!Fetch, Turn!Domains, Turn!SomebodyCleansUp
  <2> QED
    BY <2>1, <2>2, <2>3, <2>4, <2>5
<1>5. CASE \E p \in TwoSockets : Turn!FetchFails(p)
  BY <1>5 DEF Turn!FetchFails, Turn!Domains, Turn!RunsAreAlone, Turn!QueuesAreKept, Turn!ClosedRunsAreDone,
         Turn!SomebodyCleansUp
<1>6. CASE \E p \in TwoSockets : Turn!UndoDownload(p)
  BY <1>6 DEF Turn!UndoDownload, Turn!Domains, Turn!RunsAreAlone, Turn!QueuesAreKept,
         Turn!ClosedRunsAreDone, Turn!SomebodyCleansUp
<1>7. CASE \E p \in TwoSockets : Turn!Refuse(p)
  BY <1>7 DEF Turn!Refuse, Turn!Domains, Turn!RunsAreAlone, Turn!QueuesAreKept, Turn!ClosedRunsAreDone,
         Turn!SomebodyCleansUp
<1>8. CASE \E p \in TwoSockets : Turn!Spawn(p)
  BY <1>8 DEF Turn!Spawn, Turn!Domains, Turn!RunsAreAlone, Turn!QueuesAreKept, Turn!ClosedRunsAreDone,
         Turn!SomebodyCleansUp
<1>9. CASE \E p \in TwoSockets : Turn!Read(p)
  <2>1. Turn!Domains'
    <3>1. PICK p \in TwoSockets : Turn!Read(p)
      BY <1>9
    <3>2. /\ v7[p] \in Seq(Turn!Events) /\ v7[p] # <<>> /\ v9[p] \in Seq(Turn!Events)
          /\ v7' = [v7 EXCEPT ![p] = Tail(v7[p])] /\ v9' = [v9 EXCEPT ![p] = Append(v9[p], Head(v7[p]))]
          /\ v1' \in [TwoSockets -> Turn!Stages]
          /\ UNCHANGED <<v4, v6, v8, v10>>
      BY <3>1 DEF Turn!Read, Turn!Domains
    <3> HIDE DEF Turn!Events, Turn!Stages
    <3>3. Tail(v7[p]) \in Seq(Turn!Events) /\ Append(v9[p], Head(v7[p])) \in Seq(Turn!Events)
      BY <3>2, LastOfTail
    <3>4. v7' \in [TwoSockets -> Seq(Turn!Events)] /\ v9' \in [TwoSockets -> Seq(Turn!Events)]
      BY <3>2, <3>3 DEF Turn!Domains
    <3> QED
      BY <3>2, <3>4 DEF Turn!Domains
  <2>2. Turn!RunsAreAlone'
    BY <1>9 DEF Turn!Read, Turn!Domains, Turn!RunsAreAlone
  <2>3. Turn!QueuesAreKept'
    BY <1>9 DEF Turn!Read, Turn!Domains, Turn!QueuesAreKept, Turn!RunsAreAlone
  <2>4. Turn!ClosedRunsAreDone'
    <3>1. PICK p \in TwoSockets : Turn!Read(p)
      BY <1>9
    <3>2. /\ v7[p] \in Seq(Turn!Events) /\ v7[p] # <<>> /\ v9[p] \in Seq(Turn!Events)
          /\ v7'[p] = Tail(v7[p]) /\ v9'[p] = Append(v9[p], Head(v7[p]))
          /\ v1[p] = "reading" /\ v1'[p] \in {"reading", "interrupted"}
          /\ v8' = v8 /\ v10' = v10
          /\ \A q \in TwoSockets \ {p} : v7'[q] = v7[q] /\ v9'[q] = v9[q] /\ v1'[q] = v1[q]
      BY <3>1 DEF Turn!Read, Turn!Domains
    <3> HIDE DEF Turn!Events
    <3> SUFFICES ASSUME NEW q \in TwoSockets
                 PROVE  /\ v1'[q] = "reading" /\ v10'[q] = "closed" => v8'[q] > 0
                        /\ v1'[q] = "ran" => v8'[q] > 0 /\ v10'[q] = "closed" /\ v7'[q] = <<>>
                        /\ v10'[q] = "closed" /\ v8'[q] > 0 =>
                             IF v7'[q] = <<>> THEN v9'[q][Len(v9'[q])] = "done" ELSE v7'[q][Len(v7'[q])] = "done"
      BY DEF Turn!ClosedRunsAreDone
    <3>3. CASE q # p
      BY <3>2, <3>3 DEF Turn!ClosedRunsAreDone
    <3>4. CASE q = p
      <4>1. v10[p] = "closed" /\ v8[p] > 0 => v7[p][Len(v7[p])] = "done"
        BY <3>2 DEF Turn!ClosedRunsAreDone
      <4>2. v9'[p][Len(v9'[p])] = Head(v7[p])
        BY <3>2, LastOfTail
      <4>3. /\ v7'[p] = <<>> => Head(v7[p]) = v7[p][Len(v7[p])]
            /\ v7'[p] # <<>> => v7'[p][Len(v7'[p])] = v7[p][Len(v7[p])]
        BY <3>2, LastOfTail
      <4>4. v1[p] = "reading" /\ v10[p] = "closed" => v8[p] > 0
        BY DEF Turn!ClosedRunsAreDone
      <4> QED
        BY <3>2, <3>4, <4>1, <4>2, <4>3, <4>4
    <3> QED
      BY <3>3, <3>4
  <2>5. Turn!SomebodyCleansUp'
    BY <1>9 DEF Turn!Read, Turn!Domains, Turn!SomebodyCleansUp
  <2> QED
    BY <2>1, <2>2, <2>3, <2>4, <2>5
<1>10. CASE \E p \in TwoSockets : Turn!ReadEnd(p)
  BY <1>10 DEF Turn!ReadEnd, Turn!Domains, Turn!RunsAreAlone, Turn!QueuesAreKept, Turn!ClosedRunsAreDone,
         Turn!SomebodyCleansUp
<1>11. CASE \E p \in TwoSockets : Turn!Interrupt(p)
  BY <1>11 DEF Turn!Interrupt, Turn!Domains, Turn!RunsAreAlone, Turn!QueuesAreKept, Turn!ClosedRunsAreDone,
         Turn!SomebodyCleansUp
<1>12. CASE \E p \in TwoSockets : Turn!Ran(p)
  <2>1. Turn!Domains'
    BY <1>12 DEF Turn!Ran, Turn!Domains
  <2>2. Turn!RunsAreAlone'
    BY <1>12 DEF Turn!Ran, Turn!Domains, Turn!RunsAreAlone
  <2>3. Turn!QueuesAreKept'
    BY <1>12 DEF Turn!Ran, Turn!Domains, Turn!QueuesAreKept, Turn!RunsAreAlone
  <2>4. Turn!ClosedRunsAreDone'
    BY <1>12 DEF Turn!Ran, Turn!Domains, Turn!QueuesAreKept, Turn!ClosedRunsAreDone, Turn!RunsAreAlone
  <2>5. Turn!SomebodyCleansUp'
    BY <1>12 DEF Turn!Ran, Turn!Domains, Turn!SomebodyCleansUp
  <2> QED
    BY <2>1, <2>2, <2>3, <2>4, <2>5
<1>13. CASE \E p \in TwoSockets : Turn!Checks(p)
  <2>1. Turn!Domains'
    BY <1>13 DEF Turn!Checks, Turn!Domains
  <2>2. Turn!RunsAreAlone'
    BY <1>13 DEF Turn!Checks, Turn!Domains, Turn!RunsAreAlone
  <2>3. Turn!QueuesAreKept'
    BY <1>13 DEF Turn!Checks, Turn!Domains, Turn!QueuesAreKept, Turn!RunsAreAlone
  <2>4. Turn!ClosedRunsAreDone'
    BY <1>13 DEF Turn!Checks, Turn!Domains, Turn!QueuesAreKept, Turn!ClosedRunsAreDone, Turn!RunsAreAlone
  <2>5. Turn!SomebodyCleansUp'
    BY <1>13 DEF Turn!Checks, Turn!Domains, Turn!SomebodyCleansUp
  <2> QED
    BY <2>1, <2>2, <2>3, <2>4, <2>5
<1>14. CASE \E p \in TwoSockets : Turn!Answer(p)
  BY <1>14 DEF Turn!Answer, Turn!Domains, Turn!RunsAreAlone, Turn!QueuesAreKept, Turn!ClosedRunsAreDone,
         Turn!SomebodyCleansUp
<1>15. CASE \E p \in TwoSockets : Turn!Cleanup(p)
  BY <1>15 DEF Turn!Cleanup, Turn!Domains, Turn!RunsAreAlone, Turn!QueuesAreKept, Turn!ClosedRunsAreDone,
         Turn!SomebodyCleansUp
<1>16. CASE \E p \in TwoSockets : Turn!Exit(p)
  BY <1>16 DEF Turn!Exit, Turn!Domains, Turn!RunsAreAlone, Turn!QueuesAreKept, Turn!ClosedRunsAreDone,
         Turn!SomebodyCleansUp
<1>17. CASE \E p \in TwoSockets : Turn!Close(p)
  <2>1. Turn!Domains'
    <3>1. PICK p \in TwoSockets : Turn!Close(p)
      BY <1>17
    <3> DEFINE words(last) == IF v6[p] THEN <<last, "done">> ELSE <<"done">>
    <3>2. PICK last \in Turn!Events :
            /\ v7' = [v7 EXCEPT ![p] = v7[p] \o words(last)]
            /\ v8' = [v8 EXCEPT ![p] = v8[p] + Len(words(last))]
      <4>1. \E last \in IF p \in v5 THEN {"progress"} ELSE {"final", "progress"} :
              /\ v7' = [v7 EXCEPT ![p] = v7[p] \o words(last)]
              /\ v8' = [v8 EXCEPT ![p] = v8[p] + Len(words(last))]
        BY <3>1 DEF Turn!Close
      <4> QED
        BY <4>1 DEF Turn!Events
    <3> DEFINE w == words(last)
    <3>3. w \in Seq(Turn!Events) /\ Len(w) \in Nat /\ Len(w) > 0 /\ w[Len(w)] = "done"
      <4>1. CASE v6[p]
        BY <4>1
      <4>2. CASE ~v6[p]
        BY <4>2
      <4> QED
        BY <4>1, <4>2
    <3> HIDE DEF Turn!Events, w
    <3>4. v7[p] \in Seq(Turn!Events) /\ v8[p] \in Nat
      BY <3>1 DEF Turn!Domains
    <3>5. /\ v7[p] \o w \in Seq(Turn!Events) /\ v7[p] \o w # <<>>
          /\ (v7[p] \o w)[Len(v7[p] \o w)] = "done"
          /\ v8[p] + Len(w) \in Nat /\ v8[p] + Len(w) > 0
      BY <3>3, <3>4, LastOfConcat
    <3> DEFINE q1 == v7[p] \o w
               n1 == v8[p] + Len(w)
    <3>6. v7' = [v7 EXCEPT ![p] = q1] /\ v8' = [v8 EXCEPT ![p] = n1]
      BY <3>2 DEF w
    <3>7. q1 \in Seq(Turn!Events) /\ q1 # <<>> /\ q1[Len(q1)] = "done" /\ n1 \in Nat /\ n1 > 0
      BY <3>5
    <3> HIDE DEF q1, n1
    <3>8. /\ v7' \in [TwoSockets -> Seq(Turn!Events)] /\ v8' \in [TwoSockets -> Nat]
      BY <3>6, <3>7 DEF Turn!Domains
    <3> QED
      BY <3>1, <3>8 DEF Turn!Close, Turn!Domains
  <2>2. Turn!RunsAreAlone'
    BY <1>17 DEF Turn!Close, Turn!Domains, Turn!RunsAreAlone
  <2>3. Turn!QueuesAreKept'
    BY <1>17 DEF Turn!Close, Turn!Domains, Turn!QueuesAreKept, Turn!RunsAreAlone
  <2>4. Turn!ClosedRunsAreDone'
    <3>1. PICK p \in TwoSockets : Turn!Close(p)
      BY <1>17
    <3> DEFINE words(last) == IF v6[p] THEN <<last, "done">> ELSE <<"done">>
    <3>2. PICK last \in Turn!Events :
            /\ v7' = [v7 EXCEPT ![p] = v7[p] \o words(last)]
            /\ v8' = [v8 EXCEPT ![p] = v8[p] + Len(words(last))]
      <4>1. \E last \in IF p \in v5 THEN {"progress"} ELSE {"final", "progress"} :
              /\ v7' = [v7 EXCEPT ![p] = v7[p] \o words(last)]
              /\ v8' = [v8 EXCEPT ![p] = v8[p] + Len(words(last))]
        BY <3>1 DEF Turn!Close
      <4> QED
        BY <4>1 DEF Turn!Events
    <3> DEFINE w == words(last)
    <3>3. w \in Seq(Turn!Events) /\ Len(w) \in Nat /\ Len(w) > 0 /\ w[Len(w)] = "done"
      <4>1. CASE v6[p]
        BY <4>1
      <4>2. CASE ~v6[p]
        BY <4>2
      <4> QED
        BY <4>1, <4>2
    <3> HIDE DEF Turn!Events, w
    <3>4. v7[p] \in Seq(Turn!Events) /\ v8[p] \in Nat
      BY <3>1 DEF Turn!Domains
    <3>5. /\ v7[p] \o w \in Seq(Turn!Events) /\ v7[p] \o w # <<>>
          /\ (v7[p] \o w)[Len(v7[p] \o w)] = "done"
          /\ v8[p] + Len(w) \in Nat /\ v8[p] + Len(w) > 0
      BY <3>3, <3>4, LastOfConcat
    <3> DEFINE q1 == v7[p] \o w
               n1 == v8[p] + Len(w)
    <3>6. v7' = [v7 EXCEPT ![p] = q1] /\ v8' = [v8 EXCEPT ![p] = n1]
      BY <3>2 DEF w
    <3>7. q1 \in Seq(Turn!Events) /\ q1 # <<>> /\ q1[Len(q1)] = "done" /\ n1 \in Nat /\ n1 > 0
      BY <3>5
    <3> HIDE DEF q1, n1
    <3>8. /\ v4[p] = "exited" /\ v1' = v1 /\ v9' = v9 /\ v10' = [v10 EXCEPT ![p] = "closed"]
      BY <3>1 DEF Turn!Close, Turn!turnVars
    <3> SUFFICES ASSUME NEW q \in TwoSockets
                 PROVE  /\ v1'[q] = "reading" /\ v10'[q] = "closed" => v8'[q] > 0
                        /\ v1'[q] = "ran" => v8'[q] > 0 /\ v10'[q] = "closed" /\ v7'[q] = <<>>
                        /\ v10'[q] = "closed" /\ v8'[q] > 0 =>
                             IF v7'[q] = <<>> THEN v9'[q][Len(v9'[q])] = "done" ELSE v7'[q][Len(v7'[q])] = "done"
      BY DEF Turn!ClosedRunsAreDone
    <3>9. CASE q # p
      <4>1. v7'[q] = v7[q] /\ v8'[q] = v8[q] /\ v10'[q] = v10[q]
        BY <3>6, <3>8, <3>9 DEF Turn!Domains
      <4> QED
        BY <3>8, <4>1 DEF Turn!ClosedRunsAreDone
    <3>10. CASE q = p
      <4>1. v7'[q] = q1 /\ v8'[q] = n1 /\ v10'[q] = "closed"
        BY <3>6, <3>8, <3>10 DEF Turn!Domains
      <4>2. v1[p] # "ran"
        BY <3>8 DEF Turn!ClosedRunsAreDone, Turn!QueuesAreKept
      <4> QED
        BY <3>7, <3>8, <3>10, <4>1, <4>2
    <3> QED
      BY <3>9, <3>10
  <2>5. Turn!SomebodyCleansUp'
    BY <1>17 DEF Turn!Close, Turn!Domains, Turn!SomebodyCleansUp
  <2> QED
    BY <2>1, <2>2, <2>3, <2>4, <2>5
<1>18. CASE \E p \in TwoSockets : Turn!LateFile(p)
  BY <1>18 DEF Turn!LateFile, Turn!Domains, Turn!RunsAreAlone, Turn!QueuesAreKept, Turn!ClosedRunsAreDone,
         Turn!SomebodyCleansUp
<1>19. CASE \E p \in TwoSockets : Turn!SpawnFails(p)
  BY <1>19 DEF Turn!SpawnFails, Turn!Domains, Turn!RunsAreAlone, Turn!QueuesAreKept, Turn!ClosedRunsAreDone,
         Turn!SomebodyCleansUp
<1>20. CASE \E p \in TwoSockets : Turn!Message(p)
  <2>1. Turn!Domains'
    BY <1>20 DEF Turn!Message, Turn!Domains
  <2>2. Turn!RunsAreAlone'
    BY <1>20 DEF Turn!Message, Turn!Domains, Turn!RunsAreAlone
  <2>3. Turn!QueuesAreKept'
    <3>1. PICK p \in TwoSockets : Turn!Message(p)
      BY <1>20
    <3>2. /\ v7' = [v7 EXCEPT ![p] = Append(v7[p], "progress")] /\ v8' = [v8 EXCEPT ![p] = v8[p] + 1]
          /\ v1' = v1 /\ v4' = v4 /\ v9' = v9 /\ v10' = v10 /\ v4[p] = "runs"
      BY <3>1 DEF Turn!Message
    <3>3. v7[p] \in Seq(Turn!Events) /\ v8[p] \in Nat /\ v9[p] \in Seq(Turn!Events)
      BY <3>1 DEF Turn!Domains
    <3>4. v7'[p] = Append(v7[p], "progress") /\ v8'[p] = v8[p] + 1
      BY <3>2 DEF Turn!Domains
    <3>5. \A q \in TwoSockets \ {p} : v7'[q] = v7[q] /\ v8'[q] = v8[q]
      BY <3>2 DEF Turn!Domains
    <3> HIDE DEF Turn!Events
    <3>6. Len(v7'[p]) = Len(v7[p]) + 1 /\ Len(v7[p]) \in Nat /\ Len(v9[p]) \in Nat
      BY <3>3, <3>4
    <3> SUFFICES ASSUME NEW q \in TwoSockets
                 PROVE  /\ v10'[q] = "open" <=> v4'[q] # "none"
                        /\ Len(v9'[q]) + Len(v7'[q]) = v8'[q]
      BY DEF Turn!QueuesAreKept
    <3>7. CASE q # p
      BY <3>2, <3>5, <3>7 DEF Turn!QueuesAreKept
    <3>8. CASE q = p
      <4>1. Len(v9[p]) + Len(v7[p]) = v8[p]
        BY DEF Turn!QueuesAreKept
      <4>2. Len(v9'[p]) + Len(v7'[p]) = v8'[p]
        <5> DEFINE a == Len(v9[p])
                   b == Len(v7[p])
        <5>1. a \in Nat /\ b \in Nat /\ a + b = v8[p] /\ v8[p] \in Nat
          BY <3>3, <3>6, <4>1
        <5>2. Len(v9'[p]) = a /\ Len(v7'[p]) = b + 1 /\ v8'[p] = v8[p] + 1
          BY <3>2, <3>4, <3>6
        <5> HIDE DEF a, b
        <5> QED
          BY <5>1, <5>2
      <4>3. v10'[p] = "open" <=> v4'[p] # "none"
        BY <3>2 DEF Turn!QueuesAreKept
      <4> QED
        BY <3>8, <4>2, <4>3
    <3> QED
      BY <3>7, <3>8
  <2>4. Turn!ClosedRunsAreDone'
    <3>1. PICK p \in TwoSockets : Turn!Message(p)
      BY <1>20
    <3>2. /\ v7' = [v7 EXCEPT ![p] = Append(v7[p], "progress")] /\ v8' = [v8 EXCEPT ![p] = v8[p] + 1]
          /\ v1' = v1 /\ v4' = v4 /\ v9' = v9 /\ v10' = v10 /\ v4[p] = "runs"
      BY <3>1 DEF Turn!Message
    <3>3. v7[p] \in Seq(Turn!Events) /\ v8[p] \in Nat /\ v9[p] \in Seq(Turn!Events)
      BY <3>1 DEF Turn!Domains
    <3>4. v7'[p] = Append(v7[p], "progress") /\ v8'[p] = v8[p] + 1
      BY <3>2 DEF Turn!Domains
    <3>5. \A q \in TwoSockets \ {p} : v7'[q] = v7[q] /\ v8'[q] = v8[q]
      BY <3>2 DEF Turn!Domains
    <3> HIDE DEF Turn!Events
    <3>6. v10[p] # "closed"
      BY <3>2 DEF Turn!QueuesAreKept
    <3> QED
      BY <3>2, <3>5, <3>6 DEF Turn!ClosedRunsAreDone
  <2>5. Turn!SomebodyCleansUp'
    BY <1>20 DEF Turn!Message, Turn!Domains, Turn!SomebodyCleansUp
  <2> QED
    BY <2>1, <2>2, <2>3, <2>4, <2>5
<1>21. CASE Turn!Cancel
  BY <1>21 DEF Turn!Cancel, Turn!Domains, Turn!RunsAreAlone, Turn!QueuesAreKept, Turn!ClosedRunsAreDone,
         Turn!SomebodyCleansUp
<1>22. CASE UNCHANGED Turn!vars
  BY <1>22 DEF Turn!vars, Turn!Domains, Turn!RunsAreAlone, Turn!QueuesAreKept, Turn!ClosedRunsAreDone,
         Turn!SomebodyCleansUp
<1> QED
  BY <1>1, <1>2, <1>3, <1>4, <1>5, <1>6, <1>7, <1>8, <1>9, <1>10, <1>11, <1>12, <1>13, <1>14, <1>15, <1>16,
     <1>17, <1>18, <1>19, <1>20, <1>21, <1>22 DEF Turn!Next, Turn!Progress, Turn!Run

\* The turns of a session keep their processes, their events and their screenshots apart,
\* for any messages and any number of repairs.
THEOREM TurnsApart ==
  ASSUME None \notin TwoSockets
  PROVE  PartsSpec => []TurnsAreKeptApart
<1>1. PartsInit /\ part = "turn" => Turn!Init
  BY DEF PartsInit
<1>2. [PartsNext]_all /\ part = "turn" => [Turn!Next]_(Turn!vars)
  BY DEF PartsNext, all, Turn!vars, Turn!turnVars, Turn!runVars, Turn!fileVars
<1>3. [PartsNext]_all => (part = "turn" <=> (part = "turn")')
  BY PartStays
<1>4. TurnInv => Turn!RunsAreAlone /\ Turn!RunsAreReadWhole /\ Turn!ScreenshotsAreRemoved
  BY DEF TurnInv, Turn!Domains, Turn!QueuesAreKept, Turn!ClosedRunsAreDone, Turn!SomebodyCleansUp,
         Turn!RunsAreReadWhole, Turn!ScreenshotsAreRemoved, Turn!At
<1>5. (part = "turn" => TurnInv) => TurnsAreKeptApart
  BY <1>4 DEF TurnsAreKeptApart
<1> QED
  BY <1>1, <1>2, <1>3, <1>5, TurnInit, TurnStep, PTL DEF PartsSpec
-----------------------------------------------------------------------------
(***************************************************************************)
(* The Codex commands of the desktop application.                          *)
(***************************************************************************)
CodexInv == Codex!Domains /\ Codex!EndedIsDead /\ Codex!PagesFollow

LEMMA CodexInit ==
  ASSUME None \notin Cursors \cup {"ok", "failed", "resolved", "rejected"}, "first" \notin Cursors
  PROVE  Codex!Init => CodexInv
<1> SUFFICES ASSUME Codex!Init
             PROVE  CodexInv
  OBVIOUS
<1> USE DEF Codex!Init, Codex!Commands, Codex!Dead
<1>1. Codex!Domains
  BY DEF Codex!Domains, Codex!Programs
<1>2. Codex!EndedIsDead
  BY DEF Codex!EndedIsDead
<1>3. Codex!PagesFollow
  BY DEF Codex!PagesFollow
<1> QED
  BY <1>1, <1>2, <1>3 DEF CodexInv

LEMMA CodexStep ==
  ASSUME None \notin Cursors \cup {"ok", "failed", "resolved", "rejected"}, "first" \notin Cursors
  PROVE  CodexInv /\ [Codex!Next]_(Codex!codexVars) => CodexInv'
<1> SUFFICES ASSUME CodexInv, [Codex!Next]_(Codex!codexVars)
             PROVE  CodexInv'
  OBVIOUS
<1> USE DEF CodexInv, Codex!Commands, Codex!First, Codex!Started, Codex!Open, Codex!End, Codex!Killed,
       Codex!Reads, Codex!IsEnough, Codex!MayContinue, Codex!catalogVars
<1>1. CASE \E c \in Codex!Commands : Codex!Spawn(c)
  BY <1>1 DEF Codex!Spawn, Codex!Domains, Codex!Programs, Codex!ReadPages, Codex!Asked, Codex!EndedIsDead,
         Codex!PagesFollow
<1>2. CASE \E c \in Codex!Commands : Codex!FailSpawn(c)
  BY <1>2 DEF Codex!FailSpawn, Codex!Domains, Codex!Programs, Codex!ReadPages, Codex!Asked,
         Codex!EndedIsDead, Codex!PagesFollow
<1>3. CASE \E c \in Codex!Commands : Codex!Fail(c)
  BY <1>3 DEF Codex!Fail, Codex!Domains, Codex!Programs, Codex!ReadPages, Codex!Asked, Codex!EndedIsDead,
         Codex!PagesFollow
<1>4. CASE \E c \in Codex!Commands : Codex!ExitLauncher(c)
  <2>1. Codex!Domains'
    BY <1>4 DEF Codex!ExitLauncher, Codex!Domains, Codex!Programs, Codex!ReadPages, Codex!Asked
  <2>2. Codex!EndedIsDead'
    BY <1>4 DEF Codex!ExitLauncher, Codex!Domains, Codex!Programs, Codex!EndedIsDead
  <2>3. Codex!PagesFollow'
    BY <1>4 DEF Codex!ExitLauncher, Codex!Domains, Codex!EndedIsDead, Codex!PagesFollow, Codex!ReadPages,
           Codex!Asked
  <2> QED
    BY <2>1, <2>2, <2>3
<1>5. CASE \E c \in Codex!Commands : Codex!ExitNative(c)
  <2>1. Codex!Domains'
    <3>1. PICK c \in Codex!Commands : Codex!ExitNative(c)
      BY <1>5
    <3>2. [v1[c] EXCEPT !.native = FALSE] \in Codex!Programs
      BY <3>1 DEF Codex!Domains, Codex!Programs
    <3>3. v1' = [v1 EXCEPT ![c] = [v1[c] EXCEPT !.native = FALSE]] /\ UNCHANGED <<v2, v3, v4, v7, v8>>
      BY <3>1 DEF Codex!ExitNative
    <3> QED
      BY <3>1, <3>2, <3>3 DEF Codex!Domains
  <2>2. Codex!EndedIsDead'
    BY <1>5 DEF Codex!ExitNative, Codex!Domains, Codex!Programs, Codex!EndedIsDead
  <2>3. Codex!PagesFollow'
    BY <1>5 DEF Codex!ExitNative, Codex!Domains, Codex!EndedIsDead, Codex!PagesFollow, Codex!ReadPages,
           Codex!Asked
  <2> QED
    BY <2>1, <2>2, <2>3
<1>6. CASE \E c \in Codex!Commands : Codex!Close(c)
  BY <1>6 DEF Codex!Close, Codex!Domains, Codex!Programs, Codex!ReadPages, Codex!Asked, Codex!EndedIsDead,
         Codex!PagesFollow
<1>7. CASE Codex!Answer
  BY <1>7 DEF Codex!Answer, Codex!Domains, Codex!Programs, Codex!ReadPages, Codex!Asked, Codex!EndedIsDead,
         Codex!PagesFollow
<1>8. CASE Codex!Receive
  <2>1. Codex!Domains'
    <3> DEFINE Answers == [ok : BOOLEAN, next : Cursors \cup {None}]
               a == Head(v7)
               further == [page |-> Codex!Asked, next |-> a.next]
    <3>1. "models" \in v2 /\ v7 # <<>> /\ v7 \in Seq(Answers)
      BY <1>8 DEF Codex!Receive, Codex!Domains
    <3> HIDE DEF Answers
    <3>2. a \in Answers /\ Tail(v7) \in Seq(Answers)
      BY <3>1
    <3>3. a.next \in Cursors \cup {None}
      BY <3>2 DEF Answers
    <3>4. v3["models"] = None /\ v1["models"].launcher # "none"
      BY <3>1 DEF Codex!EndedIsDead
    <3>5. v8 \in Seq(Codex!ReadPages) /\ Len(v8) \in Nat
      BY DEF Codex!Domains
    <3>6. ASSUME v8 # <<>>
          PROVE  Len(v8) \in 1..Len(v8) /\ v8[Len(v8)].next \in Cursors
      <4>1. Len(v8) \in 1..Len(v8)
        BY <3>5, <3>6
      <4>2. v8[Len(v8)] \in Codex!ReadPages
        BY <3>5, <4>1
      <4>3. v8[Len(v8)].next # None
        BY <3>4, <4>1 DEF Codex!PagesFollow
      <4> QED
        BY <4>1, <4>2, <4>3 DEF Codex!ReadPages
    <3>7. further \in Codex!ReadPages
      BY <3>3, <3>6 DEF Codex!ReadPages, Codex!Asked
    <3> HIDE DEF a, further
    <3>8. /\ v7' = Tail(v7) /\ v4' = v4
          /\ \/ /\ v8' = v8 /\ v6' = v6 /\ UNCHANGED <<v1, v2, v3>>
             \/ /\ v8' = Append(v8, further) /\ a.next # None /\ a.next \notin v6
                /\ v6' = v6 \cup {a.next} /\ UNCHANGED <<v1, v2, v3>>
             \/ /\ v8' = Append(v8, further) /\ a.next = None /\ v6' = v6
                /\ v3' = [v3 EXCEPT !["models"] = v3'["models"]] /\ v3'["models"] \in {"ok", "failed"}
                /\ v2' = v2 \ {"models"} /\ v1' = Codex!Killed("models")
             \/ /\ v8' = v8 /\ v6' = v6
                /\ v3' = [v3 EXCEPT !["models"] = "failed"]
                /\ v2' = v2 \ {"models"} /\ v1' = Codex!Killed("models")
      <4>1. v3 \in [Codex!Commands -> {None, "ok", "failed"}]
        BY DEF Codex!Domains
      <4> QED
        BY <1>8, <4>1 DEF Codex!Receive, a, further
    <3>9. Append(v8, further) \in Seq(Codex!ReadPages)
      BY <3>5, <3>7
    <3>10. Codex!Killed("models") \in [Codex!Commands -> Codex!Programs]
      <4>1. v1["models"] \in Codex!Programs
        BY DEF Codex!Domains
      <4>2. [launcher |-> IF v1["models"].launcher = "alive" THEN "failed" ELSE v1["models"].launcher,
             native |-> FALSE] \in Codex!Programs
        BY <4>1 DEF Codex!Programs
      <4> QED
        BY <4>2 DEF Codex!Domains
    <3>11. v8' \in Seq(Codex!ReadPages)
      BY <3>5, <3>8, <3>9
    <3>12. v1' \in [Codex!Commands -> Codex!Programs] /\ v2' \subseteq Codex!Commands
      <4> HIDE DEF Codex!Killed
      <4> QED
        BY <3>8, <3>10 DEF Codex!Domains
    <3>13. v3' \in [Codex!Commands -> {None, "ok", "failed"}]
      BY <3>8 DEF Codex!Domains
    <3> QED
      BY <3>2, <3>8, <3>11, <3>12, <3>13 DEF Codex!Domains, Answers
  <2>2. Codex!EndedIsDead'
    BY <1>8 DEF Codex!Receive, Codex!Domains, Codex!Programs, Codex!EndedIsDead
  <2>3. Codex!PagesFollow'
    <3> DEFINE Answers == [ok : BOOLEAN, next : Cursors \cup {None}]
               a == Head(v7)
               further == [page |-> Codex!Asked, next |-> a.next]
    <3>1. "models" \in v2 /\ v7 # <<>> /\ v7 \in Seq(Answers)
      BY <1>8 DEF Codex!Receive, Codex!Domains
    <3> HIDE DEF Answers
    <3>2. a \in Answers /\ Tail(v7) \in Seq(Answers)
      BY <3>1
    <3>3. a.next \in Cursors \cup {None}
      BY <3>2 DEF Answers
    <3>4. v3["models"] = None /\ v1["models"].launcher # "none"
      BY <3>1 DEF Codex!EndedIsDead
    <3>5. v8 \in Seq(Codex!ReadPages) /\ Len(v8) \in Nat
      BY DEF Codex!Domains
    <3>6. ASSUME v8 # <<>>
          PROVE  Len(v8) \in 1..Len(v8) /\ v8[Len(v8)].next \in Cursors
      <4>1. Len(v8) \in 1..Len(v8)
        BY <3>5, <3>6
      <4>2. v8[Len(v8)] \in Codex!ReadPages
        BY <3>5, <4>1
      <4>3. v8[Len(v8)].next # None
        BY <3>4, <4>1 DEF Codex!PagesFollow
      <4> QED
        BY <4>1, <4>2, <4>3 DEF Codex!ReadPages
    <3>7. further \in Codex!ReadPages
      BY <3>3, <3>6 DEF Codex!ReadPages, Codex!Asked
    <3> HIDE DEF a, further
    <3>8. /\ v7' = Tail(v7) /\ v4' = v4
          /\ \/ /\ v8' = v8 /\ v6' = v6 /\ UNCHANGED <<v1, v2, v3>>
             \/ /\ v8' = Append(v8, further) /\ a.next # None /\ a.next \notin v6
                /\ v6' = v6 \cup {a.next} /\ UNCHANGED <<v1, v2, v3>>
             \/ /\ v8' = Append(v8, further) /\ a.next = None /\ v6' = v6
                /\ v3' = [v3 EXCEPT !["models"] = v3'["models"]] /\ v3'["models"] \in {"ok", "failed"}
                /\ v2' = v2 \ {"models"} /\ v1' = Codex!Killed("models")
             \/ /\ v8' = v8 /\ v6' = v6
                /\ v3' = [v3 EXCEPT !["models"] = "failed"]
                /\ v2' = v2 \ {"models"} /\ v1' = Codex!Killed("models")
      <4>1. v3 \in [Codex!Commands -> {None, "ok", "failed"}]
        BY DEF Codex!Domains
      <4> QED
        BY <1>8, <4>1 DEF Codex!Receive, a, further
    <3>9. Append(v8, further) \in Seq(Codex!ReadPages)
      BY <3>5, <3>7
    <3>10. CASE v8' = v8 /\ v6' = v6
      <4>1. v3'["models"] # "ok"
        BY <3>4, <3>8, <3>10 DEF Codex!Domains
      <4> QED
        BY <3>10, <4>1, <3>4 DEF Codex!PagesFollow
    <3>11. CASE /\ v8' = Append(v8, further)
                /\ \/ a.next # None /\ a.next \notin v6 /\ v6' = v6 \cup {a.next} /\ v3' = v3
                   \/ a.next = None /\ v6' = v6 /\ v3'["models"] \in {"ok", "failed"}
      <4> DEFINE n == Len(v8)
      <4>1. n \in Nat /\ Len(v8') = n + 1 /\ v8'[n + 1] = further /\ \A i \in 1..n : v8'[i] = v8[i]
        BY <3>5, <3>7, <3>11
      <4>2. further.next = a.next /\ further.page = IF n = 0 THEN "first" ELSE v8[n].next
        <5>1. n = 0 <=> v8 = <<>>
          BY <3>5
        <5> QED
          BY <5>1 DEF further, Codex!Asked
      <4>3. \A i \in 1..n : v8[i].next # None /\ v8[i].next \in v6 /\ v8[i].next # a.next
        <5> SUFFICES ASSUME NEW i \in 1..n
                     PROVE  v8[i].next # None /\ v8[i].next \in v6 /\ v8[i].next # a.next
          OBVIOUS
        <5>1. v8[i].next # None
          BY <3>4 DEF Codex!PagesFollow
        <5>2. v8[i].next \in v6
          BY <5>1 DEF Codex!PagesFollow
        <5> QED
          BY <5>1, <5>2, <3>11
      <4>4. v8'[n + 1].next = a.next /\ v8'[n + 1].page = IF n = 0 THEN "first" ELSE v8[n].next
        BY <4>1, <4>2
      <4>5. \A i \in 1..n + 1 : i = n + 1 \/ i \in 1..n
        BY <4>1
      <4>6. n + 1 # 0 /\ n + 1 - 1 = n /\ (n # 0 => n \in 1..n /\ n + 1 # 1) /\ (n = 0 => n + 1 = 1)
        BY <4>1
      <4> HIDE DEF n
      <4>7. \A i \in 1..n + 1 : v8'[i].page = IF i = 1 THEN "first" ELSE v8'[i - 1].next
        <5> SUFFICES ASSUME NEW i \in 1..n + 1
                     PROVE  v8'[i].page = IF i = 1 THEN "first" ELSE v8'[i - 1].next
          OBVIOUS
        <5>1. CASE i = n + 1
          BY <5>1, <4>1, <4>4, <4>6
        <5>2. CASE i \in 1..n
          <6>1. v8[i].page = IF i = 1 THEN "first" ELSE v8[i - 1].next
            BY <5>2 DEF Codex!PagesFollow, n
          <6>2. i # 1 => i - 1 \in 1..n
            BY <5>2, <4>1
          <6> QED
            BY <5>2, <6>1, <6>2, <4>1
        <5> QED
          BY <5>1, <5>2, <4>5
      <4>8. \A i \in 1..n + 1 : v8'[i].next = None => i = n + 1 /\ v3'["models"] # None
        BY <4>1, <4>3, <4>4, <4>5, <3>11
      <4>9. \A i \in 1..n + 1 : v8'[i].next # None => v8'[i].next \in v6'
        BY <4>1, <4>3, <4>4, <4>5, <3>11
      <4>10. \A i, j \in 1..n + 1 : v8'[i].next = v8'[j].next => i = j
        <5> SUFFICES ASSUME NEW i \in 1..n + 1, NEW j \in 1..n + 1, v8'[i].next = v8'[j].next
                     PROVE  i = j
          OBVIOUS
        <5>1. CASE i \in 1..n /\ j \in 1..n
          <6>1. v8[i].next = v8[j].next
            BY <5>1, <4>1
          <6> QED
            BY <5>1, <6>1 DEF Codex!PagesFollow, n
        <5>2. CASE i = n + 1 \/ j = n + 1
          BY <5>2, <4>1, <4>3, <4>4, <4>5
        <5> QED
          BY <5>1, <5>2, <4>5
      <4>11. v3'["models"] = "ok" => v8' # <<>> /\ v8'[Len(v8')].next = None
        <5>1. v8' # <<>>
          BY <3>5, <3>7, <3>11
        <5> QED
          BY <5>1, <4>1, <4>4, <3>4, <3>11
      <4> QED
        BY <4>1, <4>7, <4>8, <4>9, <4>10, <4>11 DEF Codex!PagesFollow
    <3> QED
      BY <3>8, <3>10, <3>11
  <2> QED
    BY <2>1, <2>2, <2>3
<1>9. CASE UNCHANGED Codex!codexVars
  BY <1>9 DEF Codex!codexVars, Codex!Domains, Codex!Programs, Codex!ReadPages, Codex!Asked,
         Codex!EndedIsDead, Codex!PagesFollow
<1> QED
  BY <1>1, <1>2, <1>3, <1>4, <1>5, <1>6, <1>7, <1>8, <1>9 DEF Codex!Next

\* Nothing of a Codex command outlives its promise, and an accepted catalog was read whole,
\* for any cursors and any limit on the pages.
THEOREM CommandsContained ==
  ASSUME None \notin Cursors \cup {"ok", "failed", "resolved", "rejected"}, "first" \notin Cursors
  PROVE  PartsSpec => []CommandsAreContained
<1>1. PartsInit /\ part = "codex" => Codex!Init
  BY DEF PartsInit
<1>2. [PartsNext]_all /\ part = "codex" => [Codex!Next]_(Codex!codexVars)
  BY DEF PartsNext, all, Codex!codexVars, Codex!catalogVars
<1>3. [PartsNext]_all => (part = "codex" <=> (part = "codex")')
  BY PartStays
<1>4. CodexInv => Codex!NothingOutlivesItsCommand /\ Codex!CatalogIsWhole
  <2> SUFFICES ASSUME CodexInv
               PROVE  Codex!NothingOutlivesItsCommand /\ Codex!CatalogIsWhole
    OBVIOUS
  <2> USE DEF CodexInv
  <2>1. Codex!NothingOutlivesItsCommand
    BY DEF Codex!NothingOutlivesItsCommand, Codex!EndedIsDead
  <2>2. ASSUME v4["models"] = "resolved"
        PROVE  v8 # <<>> /\ v8[Len(v8)].next = None
    BY <2>2 DEF Codex!EndedIsDead, Codex!PagesFollow
  <2>3. ASSUME NEW i \in 1..Len(v8), NEW j \in 1..Len(v8), v8[i].page = v8[j].page
        PROVE  i = j
    <3> DEFINE n == Len(v8)
    <3>1. n \in Nat /\ v8 \in Seq(Codex!ReadPages)
      BY DEF Codex!Domains
    <3>2. ASSUME NEW k \in 1..n, k # 1
          PROVE  k - 1 \in 1..n /\ k - 1 # n /\ v8[k].page = v8[k - 1].next /\ v8[k].page # "first"
      <4>1. k - 1 \in 1..n /\ k - 1 # n
        BY <3>1, <3>2
      <4>2. v8[k].page = v8[k - 1].next
        BY <3>2 DEF Codex!PagesFollow, Codex!First
      <4>3. v8[k - 1].next # None
        BY <4>1 DEF Codex!PagesFollow
      <4>4. v8[k - 1] \in Codex!ReadPages
        BY <3>1, <4>1
      <4> QED
        BY <4>1, <4>2, <4>3, <4>4 DEF Codex!ReadPages
    <3>3. ASSUME NEW k \in 1..n, k = 1
          PROVE  v8[k].page = "first"
      BY <3>3 DEF Codex!PagesFollow, Codex!First
    <3>4. CASE i = 1 \/ j = 1
      BY <3>2, <3>3, <3>4, <2>3
    <3>5. CASE i # 1 /\ j # 1
      <4>1. v8[i - 1].next = v8[j - 1].next
        BY <3>2, <3>5, <2>3
      <4>2. i - 1 = j - 1
        BY <3>2, <3>5, <4>1 DEF Codex!PagesFollow
      <4> QED
        BY <3>1, <4>2
    <3> QED
      BY <3>4, <3>5
  <2> QED
    BY <2>1, <2>2, <2>3 DEF Codex!CatalogIsWhole
<1>5. (part = "codex" => CodexInv) => CommandsAreContained
  BY <1>4 DEF CommandsAreContained
<1> QED
  BY <1>1, <1>2, <1>3, <1>5, CodexInit, CodexStep, PTL DEF PartsSpec
-----------------------------------------------------------------------------
(***************************************************************************)
(* The validation on the developer's computer.                             *)
(***************************************************************************)
ChecksInv ==
  /\ Checks!Domains /\ Checks!RunsAreInTurn /\ Checks!ResultsAreOfTheChecks
  /\ Checks!TimedOutGroupIsGone /\ Checks!OutputIsWhole

\* Whatever becomes of one command leaves the others, the results and their order alone.
LEMMA RunAges ==
  ASSUME ChecksInv, Len(Labels) \in Nat, NEW i \in 1..Len(v4), NEW r, Checks!Ages(v4[i], r), v4' = [v4 EXCEPT ![i] = r],
         v1' = v1, v2' = v2, v5' = v5, v3' = v3 \/ (v3 = "running" /\ v3' = "rejected")
  PROVE  ChecksInv'
<1> USE DEF ChecksInv
<1>1. v4 \in Seq(Checks!Runs) /\ r \in Checks!Runs /\ Len(v4) \in Nat /\ Len(v2) \in Nat
  BY DEF Checks!Domains, Checks!Ages
<1>2. /\ v4' \in Seq(Checks!Runs) /\ Len(v4') = Len(v4)
      /\ v4'[i] = r /\ \A j \in 1..Len(v4) : j # i => v4'[j] = v4[j]
  BY <1>1, ExceptSeq
<1>3. ASSUME NEW j \in 1..Len(v4)
      PROVE  /\ v4'[j].of = v4[j].of /\ v4'[j].of \in Nat
             /\ v4[j].shell # "alive" => v4'[j].shell = v4[j].shell
             /\ v4'[j].writes = v4[j].writes /\ v4'[j].child \in {v4[j].child, "none"}
             /\ v4'[j].ended \in {"killed", "noneLeft"} =>
                  v4'[j] = v4[j] \/ (v4'[j].shell # "alive" /\ v4'[j].child # "grouped")
  <2>1. v4[j] \in Checks!Runs
    BY <1>1
  <2>2. CASE j = i
    BY <2>1, <2>2, <1>2 DEF Checks!Ages, Checks!Runs
  <2>3. CASE j # i
    BY <2>1, <2>3, <1>2 DEF Checks!Runs
  <2> QED
    BY <2>2, <2>3
<1>4. Checks!Domains'
  BY <1>2 DEF Checks!Domains, Checks!Commands
<1>5. Checks!RunsAreInTurn'
  <2>1. v3' = "idle" => v2 = <<>> /\ v4' = <<>>
    BY <1>1, <1>2 DEF Checks!RunsAreInTurn
  <2>2. v3' \in {"between", "running"} => Len(v2) <= Len(Labels)
    BY DEF Checks!RunsAreInTurn, Checks!Commands
  <2>3. v3' = "running" => /\ Len(v4') > 0 /\ v4'[Len(v4')].of = Len(v2) + 1
                           /\ Len(v2) < Len(Labels) /\ Labels[Len(v2) + 1] \in v1
    <3>1. v3' = "running" => v3 = "running"
      OBVIOUS
    <3>2. v3 = "running" => /\ Len(v4) > 0 /\ v4[Len(v4)].of = Len(v2) + 1
                            /\ Len(v2) < Len(Labels) /\ Labels[Len(v2) + 1] \in v1
      BY DEF Checks!RunsAreInTurn, Checks!Current, Checks!Commands, Checks!Check
    <3>3. Len(v4) > 0 => Len(v4) \in 1..Len(v4)
      BY <1>1
    <3>4. Len(v4) > 0 => v4'[Len(v4)].of = v4[Len(v4)].of
      BY <3>3, <1>3
    <3> QED
      BY <3>1, <3>2, <3>4, <1>2
  <2>4. \A j \in 1..Len(v4') : v4'[j].of <= Len(v2) + 1
    BY <1>2, <1>3 DEF Checks!RunsAreInTurn, Checks!Current
  <2>5. \A j \in 1..Len(v4') : v4'[j].of <= Len(v2) => v4'[j].shell # "alive"
    BY <1>2, <1>3 DEF Checks!RunsAreInTurn, Checks!Current
  <2> QED
    BY <2>1, <2>2, <2>3, <2>4, <2>5 DEF Checks!RunsAreInTurn, Checks!Current, Checks!Commands, Checks!Check
<1>6. Checks!ResultsAreOfTheChecks'
  <2>1. v3' = "over" => Len(v2) = Len(Labels) + 1
    BY DEF Checks!ResultsAreOfTheChecks, Checks!Commands
  <2>2. \A k \in 1..Len(v2) : k <= Len(Labels) /\ v2[k] # "skipped" => Labels[k] \in v1
    BY DEF Checks!ResultsAreOfTheChecks, Checks!Commands
  <2>3. ASSUME NEW k \in 1..Len(v2), k <= Len(Labels), Labels[k] \in v1
        PROVE  \E j \in 1..Len(v4') :
                 /\ v4'[j].of = k /\ \A l \in 1..Len(v4') : v4'[l].of = k => l <= j
                 /\ v2[k] = "passed" <=> v4'[j].shell = "ok"
    <3>1. PICK j \in 1..Len(v4) : /\ v4[j].of = k /\ \A l \in 1..Len(v4) : v4[l].of = k => l <= j
                                  /\ v2[k] = "passed" <=> v4[j].shell = "ok"
      BY <2>3 DEF Checks!ResultsAreOfTheChecks, Checks!Commands, Checks!Current
    <3>2. v4[j].shell # "alive"
      BY <1>1, <3>1 DEF Checks!RunsAreInTurn, Checks!Current
    <3>3. v4'[j].of = k /\ v4'[j].shell = v4[j].shell
      BY <3>1, <3>2, <1>3
    <3>4. \A l \in 1..Len(v4') : v4'[l].of = k => l <= j
      BY <3>1, <1>2, <1>3
    <3> QED
      BY <3>1, <3>3, <3>4, <1>2
  <2> QED
    BY <2>1, <2>2, <2>3 DEF Checks!ResultsAreOfTheChecks, Checks!Commands, Checks!Current
<1>7. Checks!TimedOutGroupIsGone'
  BY <1>2, <1>3 DEF Checks!TimedOutGroupIsGone, Checks!Current, Checks!Grouped
<1>8. Checks!OutputIsWhole'
  BY <1>2, <1>3 DEF Checks!OutputIsWhole, Checks!Current, Checks!Written
<1> QED
  BY <1>4, <1>5, <1>6, <1>7, <1>8

\* All passed: none was skipped, and each of them has its last run.
LEMMA PassesFollow ==
  ASSUME ChecksInv, Len(Labels) \in Nat
  PROVE  Checks!PassesAreOfTheLastRun
<1> USE DEF ChecksInv, Checks!Commands, Checks!Current
<1>1. v2 \in Seq({"passed", "failed", "skipped"}) /\ Len(v2) \in Nat
  BY DEF Checks!Domains
<1>2. ASSUME Checks!Ok
      PROVE  v1 = {Labels[i] : i \in 1..Len(Labels)}
  <2>1. Len(v2) = Len(Labels) + 1 /\ \A k \in 1..Len(v2) : v2[k] = "passed"
    BY <1>2 DEF Checks!Ok, Checks!ResultsAreOfTheChecks
  <2>2. \A k \in 1..Len(Labels) : k \in 1..Len(v2) /\ k <= Len(Labels)
    BY <1>1, <2>1
  <2>3. \A k \in 1..Len(v2) : k <= Len(Labels) /\ v2[k] # "skipped" => Labels[k] \in v1
    BY DEF Checks!ResultsAreOfTheChecks
  <2>4. ASSUME NEW k \in 1..Len(Labels)
        PROVE  Labels[k] \in v1
    <3>1. k \in 1..Len(v2) /\ v2[k] # "skipped"
      BY <2>1, <2>2
    <3> QED
      BY <2>2, <2>3, <3>1
  <2>5. v1 \subseteq {Labels[i] : i \in 1..Len(Labels)}
    BY DEF Checks!Domains
  <2> QED
    BY <2>4, <2>5
<1> QED
  BY <1>2 DEF Checks!PassesAreOfTheLastRun, Checks!ResultsAreOfTheChecks

LEMMA ChecksInit == Checks!Init => ChecksInv
<1> SUFFICES ASSUME Checks!Init
             PROVE  ChecksInv
  OBVIOUS
<1> USE DEF Checks!Init, Checks!Current
<1>1. Checks!Domains
  <2>1. v5 \in BOOLEAN /\ v3 = "idle"
    OBVIOUS
  <2>2. v1 \subseteq {Labels[i] : i \in 1..Checks!Commands}
    OBVIOUS
  <2>3. v2 \in Seq({"passed", "failed", "skipped"}) /\ v4 \in Seq(Checks!Runs)
    OBVIOUS
  <2> QED
    BY <2>1, <2>2, <2>3 DEF Checks!Domains
<1>2. Checks!RunsAreInTurn
  BY DEF Checks!RunsAreInTurn
<1>3. Checks!ResultsAreOfTheChecks
  BY DEF Checks!ResultsAreOfTheChecks
<1>4. Checks!TimedOutGroupIsGone
  BY DEF Checks!TimedOutGroupIsGone
<1>5. Checks!OutputIsWhole
  BY DEF Checks!OutputIsWhole
<1> QED
  BY <1>1, <1>2, <1>3, <1>4, <1>5 DEF ChecksInv

LEMMA ChecksStep ==
  ASSUME Len(Labels) \in Nat
  PROVE  ChecksInv /\ [Checks!Next]_(Checks!checksVars) => ChecksInv'
<1> SUFFICES ASSUME ChecksInv, [Checks!Next]_(Checks!checksVars)
             PROVE  ChecksInv'
  OBVIOUS
<1> USE DEF ChecksInv, Checks!Current, Checks!Commands, Checks!Check, Checks!Written, Checks!Grouped
<1>1. CASE Checks!Begin
  BY <1>1 DEF Checks!Begin, Checks!Domains, Checks!Runs, Checks!Fresh, Checks!RunsAreInTurn,
         Checks!OutputIsWhole, Checks!ResultsAreOfTheChecks, Checks!TimedOutGroupIsGone
<1>2. CASE Checks!Spawn
  <2>1. PICK child \in {"none", "grouped", "apart"}, writes \in BOOLEAN :
          v4' = Append(v4, Checks!Fresh(child, writes))
    BY <1>2 DEF Checks!Spawn
  <2> DEFINE r == Checks!Fresh(child, writes)
  <2>2. /\ v3 = "between" /\ v3' = "running" /\ Len(v2) < Len(Labels) /\ Labels[Len(v2) + 1] \in v1
        /\ v1' = v1 /\ v2' = v2 /\ v5' = v5
    BY <1>2 DEF Checks!Spawn
  <2>3. v4 \in Seq(Checks!Runs) /\ Len(v4) \in Nat /\ Len(v2) \in Nat
    BY DEF Checks!Domains
  <2>4. r \in Checks!Runs /\ r.of = Len(v2) + 1 /\ r.shell = "alive" /\ r.ended = "no"
    BY <2>3 DEF Checks!Fresh, Checks!Runs
  <2> HIDE DEF r
  <2>5. /\ v4' = Append(v4, r) /\ v4' \in Seq(Checks!Runs) /\ Len(v4') = Len(v4) + 1 /\ v4'[Len(v4) + 1] = r
        /\ \A j \in 1..Len(v4) : v4'[j] = v4[j]
    BY <2>1, <2>3, <2>4 DEF r
  <2>6. \A j \in 1..Len(v4) : ~Checks!Written(j)
    BY <2>2 DEF Checks!OutputIsWhole
  <2>7. Checks!Domains'
    BY <2>2, <2>5 DEF Checks!Domains
  <2>8. Checks!RunsAreInTurn'
    <3>1. \A j \in 1..Len(v4) : v4[j].of <= Len(v2) + 1 /\ (v4[j].of <= Len(v2) => v4[j].shell # "alive")
      BY DEF Checks!RunsAreInTurn
    <3>2. ASSUME NEW j \in 1..(Len(v4) + 1)
          PROVE  v4'[j].of <= Len(v2) + 1 /\ (v4'[j].of <= Len(v2) => v4'[j].shell # "alive")
      <4>1. CASE j = Len(v4) + 1
        BY <4>1, <2>3, <2>4, <2>5
      <4>2. CASE j # Len(v4) + 1
        BY <4>2, <3>1, <2>3, <2>5
      <4> QED
        BY <4>1, <4>2
    <3>3. v4'[Len(v4')].of = Len(v2) + 1 /\ Len(v4') > 0
      BY <2>3, <2>4, <2>5
    <3> QED
      BY <3>2, <3>3, <2>2, <2>3, <2>5 DEF Checks!RunsAreInTurn
  <2>9. Checks!ResultsAreOfTheChecks'
    <3>1. ASSUME NEW k \in 1..Len(v2), k <= Len(Labels), Labels[k] \in v1
          PROVE  \E j \in 1..Len(v4') :
                   /\ v4'[j].of = k /\ \A l \in 1..Len(v4') : v4'[l].of = k => l <= j
                   /\ v2[k] = "passed" <=> v4'[j].shell = "ok"
      <4>1. PICK j \in 1..Len(v4) : /\ v4[j].of = k /\ \A l \in 1..Len(v4) : v4[l].of = k => l <= j
                                    /\ v2[k] = "passed" <=> v4[j].shell = "ok"
        BY <3>1 DEF Checks!ResultsAreOfTheChecks
      <4>2. \A l \in 1..Len(v4') : v4'[l].of = k => l <= j
        BY <4>1, <2>3, <2>4, <2>5, <3>1
      <4>3. j \in 1..Len(v4') /\ v4'[j] = v4[j]
        BY <2>3, <2>5
      <4> QED
        BY <4>1, <4>2, <4>3
    <3> QED
      BY <3>1, <2>2 DEF Checks!ResultsAreOfTheChecks
  <2>10. Checks!TimedOutGroupIsGone'
    BY <2>3, <2>4, <2>5 DEF Checks!TimedOutGroupIsGone
  <2>11. Checks!OutputIsWhole'
    BY <2>2, <2>3, <2>5, <2>6 DEF Checks!OutputIsWhole
  <2> QED
    BY <2>7, <2>8, <2>9, <2>10, <2>11
<1>3. CASE Checks!FailSpawn
  BY <1>3 DEF Checks!FailSpawn, Checks!Domains, Checks!Runs, Checks!Fresh, Checks!RunsAreInTurn,
         Checks!OutputIsWhole, Checks!ResultsAreOfTheChecks, Checks!TimedOutGroupIsGone
<1>4. CASE Checks!Terminate
  <2> DEFINE i == Len(v4)
  <2>1. i \in 1..Len(v4) /\ v4[i] \in Checks!Runs
    BY <1>4 DEF Checks!Terminate, Checks!RunsAreInTurn, Checks!Current, Checks!Domains
  <2>2. v4[i].ended = "no" /\ v1' = v1 /\ v2' = v2 /\ v5' = v5 /\ v3' = v3
    BY <1>4 DEF Checks!Terminate, Checks!Current
  <2>3. CASE v4[i].shell # "alive" /\ v4[i].child # "grouped"
    <3> DEFINE r == [v4[i] EXCEPT !.ended = "noneLeft"]
    <3>1. v4' = [v4 EXCEPT ![i] = r]
      BY <1>4, <2>3 DEF Checks!Terminate, Checks!Current, Checks!Grouped
    <3>2. Checks!Ages(v4[i], r)
      BY <2>1, <2>3 DEF Checks!Ages, Checks!Runs
    <3> HIDE DEF r, i
    <3> QED
      BY <2>1, <2>2, <3>1, <3>2, RunAges DEF i
  <2>4. CASE ~(v4[i].shell # "alive" /\ v4[i].child # "grouped")
    <3>1. PICK shell \in {"alive", "ok", "failed"}, child \in {v4[i].child, "none"} :
            /\ v4[i].shell # "alive" => shell = v4[i].shell
            /\ v4' = [v4 EXCEPT ![i].ended = "terminated", ![i].shell = shell, ![i].child = child]
      BY <1>4, <2>4 DEF Checks!Terminate, Checks!Current, Checks!Grouped
    <3> DEFINE r == [v4[i] EXCEPT !.ended = "terminated", !.shell = shell, !.child = child]
    <3>2. v4' = [v4 EXCEPT ![i] = r]
      BY <2>1, <3>1 DEF Checks!Domains
    <3>3. Checks!Ages(v4[i], r)
      BY <2>1, <3>1 DEF Checks!Ages, Checks!Runs
    <3> HIDE DEF r, i
    <3> QED
      BY <2>1, <2>2, <3>2, <3>3, RunAges DEF i
  <2> QED
    BY <2>3, <2>4
<1>5. CASE Checks!Close
  <2>1. /\ v3 = "running" /\ v3' = "between" /\ v1' = v1 /\ v4' = v4
        /\ v4[Len(v4)].shell # "alive" /\ ~Checks!Written(Len(v4))
        /\ v5' \in BOOLEAN /\ (v2' = v2 \/ v2' = Append(v2, Checks!Status))
    BY <1>5 DEF Checks!Close, Checks!Closed
  <2>2. v2 \in Seq({"passed", "failed", "skipped"}) /\ v4 \in Seq(Checks!Runs) /\ Len(v4) \in Nat /\ Len(v2) \in Nat
    BY DEF Checks!Domains
  <2>3. /\ Len(v4) \in 1..Len(v4) /\ v4[Len(v4)].of = Len(v2) + 1
        /\ Len(v2) < Len(Labels) /\ Labels[Len(v2) + 1] \in v1
    BY <2>1, <2>2 DEF Checks!RunsAreInTurn
  <2>4. Checks!Status \in {"passed", "failed"} /\ (Checks!Status = "passed" <=> v4[Len(v4)].shell = "ok")
    BY DEF Checks!Status
  <2>5. \A j \in 1..Len(v4) : ~Checks!Written(j)
    BY <2>1, <2>2 DEF Checks!OutputIsWhole
  <2>6. \A j \in 1..Len(v4) : v4[j].shell # "alive" /\ v4[j].of <= Len(v2) + 1 /\ v4[j].of \in Nat
    <3>1. \A j \in 1..Len(v4) : v4[j] \in Checks!Runs
      BY <2>2
    <3>2. \A j \in 1..Len(v4) : v4[j].of \in Nat
      BY <3>1 DEF Checks!Runs
    <3> QED
      BY <3>2, <2>5 DEF Checks!RunsAreInTurn
  <2>7. Checks!OutputIsWhole' /\ Checks!TimedOutGroupIsGone'
    BY <2>1, <2>5 DEF Checks!OutputIsWhole, Checks!TimedOutGroupIsGone
  <2>8. CASE v2' = v2
    <3>1. Checks!Domains' /\ Checks!RunsAreInTurn' /\ Checks!ResultsAreOfTheChecks'
      BY <2>1, <2>2, <2>3, <2>6, <2>8 DEF Checks!Domains, Checks!RunsAreInTurn, Checks!ResultsAreOfTheChecks
    <3> QED
      BY <2>7, <3>1
  <2>9. CASE v2' = Append(v2, Checks!Status)
    <3> DEFINE s == Checks!Status
    <3>1. s \in {"passed", "failed"} /\ v2' = Append(v2, s)
      BY <2>4, <2>9
    <3> HIDE DEF s
    <3>2. /\ v2' \in Seq({"passed", "failed", "skipped"}) /\ Len(v2') = Len(v2) + 1 /\ v2'[Len(v2) + 1] = s
          /\ \A k \in 1..Len(v2) : v2'[k] = v2[k]
      BY <2>2, <3>1
    <3>3. Checks!Domains'
      BY <2>1, <3>2 DEF Checks!Domains
    <3>4. Checks!RunsAreInTurn'
      BY <2>1, <2>2, <2>3, <2>6, <3>2 DEF Checks!RunsAreInTurn
    <3>5. \A k \in 1..Len(v2') : k <= Len(Labels) /\ v2'[k] # "skipped" => Labels[k] \in v1
      <4>1. \A k \in 1..Len(v2) : k <= Len(Labels) /\ v2[k] # "skipped" => Labels[k] \in v1
        BY DEF Checks!ResultsAreOfTheChecks
      <4> QED
        BY <4>1, <2>2, <2>3, <3>2
    <3>6. ASSUME NEW k \in 1..Len(v2'), k <= Len(Labels), Labels[k] \in v1
          PROVE  \E j \in 1..Len(v4) :
                   /\ v4[j].of = k /\ \A l \in 1..Len(v4) : v4[l].of = k => l <= j
                   /\ v2'[k] = "passed" <=> v4[j].shell = "ok"
      <4>1. CASE k = Len(v2) + 1
        <5>1. v2'[k] = "passed" <=> v4[Len(v4)].shell = "ok"
          BY <4>1, <3>2, <2>4 DEF s
        <5>2. \A l \in 1..Len(v4) : l <= Len(v4)
          BY <2>2
        <5> QED
          BY <4>1, <5>1, <5>2, <2>3
      <4>2. CASE k # Len(v2) + 1
        <5>1. k \in 1..Len(v2)
          BY <4>2, <2>2, <3>2
        <5>2. PICK j \in 1..Len(v4) : /\ v4[j].of = k /\ \A l \in 1..Len(v4) : v4[l].of = k => l <= j
                                      /\ v2[k] = "passed" <=> v4[j].shell = "ok"
          BY <3>6, <5>1 DEF Checks!ResultsAreOfTheChecks
        <5> QED
          BY <5>1, <5>2, <3>2
      <4> QED
        BY <4>1, <4>2
    <3>7. Checks!ResultsAreOfTheChecks'
      BY <2>1, <3>5, <3>6 DEF Checks!ResultsAreOfTheChecks
    <3> QED
      BY <2>7, <3>3, <3>4, <3>7
  <2> QED
    BY <2>1, <2>8, <2>9
<1>6. CASE Checks!Skip
  <2>1. Checks!Domains'
    BY <1>6 DEF Checks!Skip, Checks!Domains, Checks!Runs, Checks!Fresh
  <2>2. Checks!RunsAreInTurn'
<3>1. /\ v3 = "between" /\ v3' = "between" /\ v1' = v1 /\ v4' = v4 /\ Len(v2) < Len(Labels)
          /\ \E s \in {"passed", "failed", "skipped"} : v2' = Append(v2, s)
      BY <1>6 DEF Checks!Skip
    <3>2. v2 \in Seq({"passed", "failed", "skipped"}) /\ v4 \in Seq(Checks!Runs) /\ Len(v4) \in Nat /\ Len(v2) \in Nat
      BY DEF Checks!Domains
    <3>3. Len(v2') = Len(v2) + 1
      BY <3>1, <3>2
    <3>4. \A j \in 1..Len(v4) : v4[j].shell # "alive"
      BY <3>1 DEF Checks!OutputIsWhole
    <3>5. \A j \in 1..Len(v4) : v4[j].of \in Nat
      <4>1. \A j \in 1..Len(v4) : v4[j] \in Checks!Runs
        BY <3>2
      <4> QED
        BY <4>1 DEF Checks!Runs
    <3>6. \A j \in 1..Len(v4) : v4[j].of <= Len(v2) + 1
      BY DEF Checks!RunsAreInTurn
    <3> QED
      BY <3>1, <3>2, <3>3, <3>4, <3>5, <3>6 DEF Checks!RunsAreInTurn
  <2>3. Checks!ResultsAreOfTheChecks'
    <3>1. /\ v3' = "between" /\ v1' = v1 /\ v4' = v4 /\ Len(v2) <= Len(Labels)
          /\ Len(v2) < Len(Labels)
      BY <1>6 DEF Checks!Skip
    <3>2. PICK s \in {"passed", "failed", "skipped"} :
            v2' = Append(v2, s) /\ (Len(v2) < Len(Labels) => s = "skipped" /\ Labels[Len(v2) + 1] \notin v1)
      BY <1>6 DEF Checks!Skip
    <3>3. v2 \in Seq({"passed", "failed", "skipped"}) /\ Len(v2) \in Nat
      BY DEF Checks!Domains
    <3>4. /\ Len(v2') = Len(v2) + 1 /\ v2'[Len(v2) + 1] = s
          /\ \A k \in 1..Len(v2) : v2'[k] = v2[k]
      BY <3>2, <3>3
    <3>5. /\ \A k \in 1..Len(v2) : k <= Len(Labels) /\ v2[k] # "skipped" => Labels[k] \in v1
          /\ \A k \in 1..Len(v2) : k <= Len(Labels) /\ Labels[k] \in v1 =>
               \E i \in 1..Len(v4) : /\ v4[i].of = k /\ \A j \in 1..Len(v4) : v4[j].of = k => j <= i
                                     /\ v2[k] = "passed" <=> v4[i].shell = "ok"
      BY DEF Checks!ResultsAreOfTheChecks
    <3>6. \A k \in 1..Len(v2') : k <= Len(Labels) /\ v2'[k] # "skipped" => Labels[k] \in v1
      BY <3>1, <3>2, <3>3, <3>4, <3>5
    <3>7. ASSUME NEW k \in 1..Len(v2'), k <= Len(Labels), Labels[k] \in v1
          PROVE  \E i \in 1..Len(v4) : /\ v4[i].of = k /\ \A j \in 1..Len(v4) : v4[j].of = k => j <= i
                                       /\ v2'[k] = "passed" <=> v4[i].shell = "ok"
      <4>1. k \in 1..Len(v2) /\ v2'[k] = v2[k]
        BY <3>1, <3>2, <3>3, <3>4, <3>7
      <4> QED
        BY <3>5, <3>7, <4>1
    <3>8. v3' = "over" => Len(v2') = Len(Labels) + 1
      BY <3>1, <3>4
    <3> QED
      BY <3>1, <3>6, <3>7, <3>8 DEF Checks!ResultsAreOfTheChecks
  <2>4. Checks!TimedOutGroupIsGone'
    BY <1>6 DEF Checks!Skip, Checks!Domains, Checks!TimedOutGroupIsGone, Checks!Fresh
  <2>5. Checks!OutputIsWhole'
    BY <1>6 DEF Checks!Skip, Checks!Domains, Checks!RunsAreInTurn, Checks!OutputIsWhole, Checks!Fresh
  <2> QED
    BY <2>1, <2>2, <2>3, <2>4, <2>5
<1>7. CASE Checks!CheckPreview
  <2>1. Checks!Domains'
    BY <1>7 DEF Checks!CheckPreview, Checks!Domains, Checks!Runs, Checks!Fresh
  <2>2. Checks!RunsAreInTurn'
<3>1. /\ v3 = "between" /\ v3' = "over" /\ v1' = v1 /\ v4' = v4 /\ Len(v2) = Len(Labels)
          /\ \E s \in {"passed", "failed", "skipped"} : v2' = Append(v2, s)
      BY <1>7 DEF Checks!CheckPreview
    <3>2. v2 \in Seq({"passed", "failed", "skipped"}) /\ v4 \in Seq(Checks!Runs) /\ Len(v4) \in Nat /\ Len(v2) \in Nat
      BY DEF Checks!Domains
    <3>3. Len(v2') = Len(v2) + 1
      BY <3>1, <3>2
    <3>4. \A j \in 1..Len(v4) : v4[j].shell # "alive"
      BY <3>1 DEF Checks!OutputIsWhole
    <3>5. \A j \in 1..Len(v4) : v4[j].of \in Nat
      <4>1. \A j \in 1..Len(v4) : v4[j] \in Checks!Runs
        BY <3>2
      <4> QED
        BY <4>1 DEF Checks!Runs
    <3>6. \A j \in 1..Len(v4) : v4[j].of <= Len(v2) + 1
      BY DEF Checks!RunsAreInTurn
    <3> QED
      BY <3>1, <3>2, <3>3, <3>4, <3>5, <3>6 DEF Checks!RunsAreInTurn
  <2>3. Checks!ResultsAreOfTheChecks'
    <3>1. /\ v3' = "over" /\ v1' = v1 /\ v4' = v4 /\ Len(v2) <= Len(Labels)
          /\ Len(v2) = Len(Labels)
      BY <1>7 DEF Checks!CheckPreview
    <3>2. PICK s \in {"passed", "failed", "skipped"} :
            v2' = Append(v2, s) /\ (Len(v2) < Len(Labels) => s = "skipped" /\ Labels[Len(v2) + 1] \notin v1)
      BY <1>7 DEF Checks!CheckPreview
    <3>3. v2 \in Seq({"passed", "failed", "skipped"}) /\ Len(v2) \in Nat
      BY DEF Checks!Domains
    <3>4. /\ Len(v2') = Len(v2) + 1 /\ v2'[Len(v2) + 1] = s
          /\ \A k \in 1..Len(v2) : v2'[k] = v2[k]
      BY <3>2, <3>3
    <3>5. /\ \A k \in 1..Len(v2) : k <= Len(Labels) /\ v2[k] # "skipped" => Labels[k] \in v1
          /\ \A k \in 1..Len(v2) : k <= Len(Labels) /\ Labels[k] \in v1 =>
               \E i \in 1..Len(v4) : /\ v4[i].of = k /\ \A j \in 1..Len(v4) : v4[j].of = k => j <= i
                                     /\ v2[k] = "passed" <=> v4[i].shell = "ok"
      BY DEF Checks!ResultsAreOfTheChecks
    <3>6. \A k \in 1..Len(v2') : k <= Len(Labels) /\ v2'[k] # "skipped" => Labels[k] \in v1
      BY <3>1, <3>2, <3>3, <3>4, <3>5
    <3>7. ASSUME NEW k \in 1..Len(v2'), k <= Len(Labels), Labels[k] \in v1
          PROVE  \E i \in 1..Len(v4) : /\ v4[i].of = k /\ \A j \in 1..Len(v4) : v4[j].of = k => j <= i
                                       /\ v2'[k] = "passed" <=> v4[i].shell = "ok"
      <4>1. k \in 1..Len(v2) /\ v2'[k] = v2[k]
        BY <3>1, <3>2, <3>3, <3>4, <3>7
      <4> QED
        BY <3>5, <3>7, <4>1
    <3>8. v3' = "over" => Len(v2') = Len(Labels) + 1
      BY <3>1, <3>4
    <3> QED
      BY <3>1, <3>6, <3>7, <3>8 DEF Checks!ResultsAreOfTheChecks
  <2>4. Checks!TimedOutGroupIsGone'
    BY <1>7 DEF Checks!CheckPreview, Checks!Domains, Checks!TimedOutGroupIsGone, Checks!Fresh
  <2>5. Checks!OutputIsWhole'
    BY <1>7 DEF Checks!CheckPreview, Checks!Domains, Checks!RunsAreInTurn, Checks!OutputIsWhole,
           Checks!Fresh
  <2> QED
    BY <2>1, <2>2, <2>3, <2>4, <2>5
<1>8. CASE \E i \in 1..Checks!Current : Checks!ExitShell(i)
  <2>1. PICK i \in 1..Len(v4) : Checks!ExitShell(i)
    BY <1>8 DEF Checks!Current
  <2>2. v4[i] \in Checks!Runs
    BY DEF Checks!Domains
  <2>3. v4[i].ended \in {"killed", "noneLeft"} => v4[i].shell # "alive" /\ v4[i].child # "grouped"
    BY DEF Checks!TimedOutGroupIsGone, Checks!Grouped, Checks!Current
  <2>4. PICK how \in {"ok", "failed"} : v4' = [v4 EXCEPT ![i] = [v4[i] EXCEPT !.shell = how]]
    BY <2>1 DEF Checks!ExitShell
  <2> DEFINE r == [v4[i] EXCEPT !.shell = how]
  <2>5. v4' = [v4 EXCEPT ![i] = r]
    BY <2>1, <2>4 DEF Checks!ExitShell, Checks!Killed
  <2>6. Checks!Ages(v4[i], r)
    BY <2>1, <2>2, <2>3, <2>4 DEF Checks!ExitShell, Checks!Ages, Checks!Runs, Checks!Grouped
  <2>7. v1' = v1 /\ v2' = v2 /\ v5' = v5 /\ (v3' = v3 \/ (v3 = "running" /\ v3' = "rejected"))
    BY <2>1 DEF Checks!ExitShell
  <2> HIDE DEF r
  <2> QED
    BY <2>5, <2>6, <2>7, RunAges
<1>9. CASE \E i \in 1..Checks!Current : Checks!ExitChild(i)
  <2>1. PICK i \in 1..Len(v4) : Checks!ExitChild(i)
    BY <1>9 DEF Checks!Current
  <2>2. v4[i] \in Checks!Runs
    BY DEF Checks!Domains
  <2>3. v4[i].ended \in {"killed", "noneLeft"} => v4[i].shell # "alive" /\ v4[i].child # "grouped"
    BY DEF Checks!TimedOutGroupIsGone, Checks!Grouped, Checks!Current
  <2> DEFINE r == [v4[i] EXCEPT !.child = "none"]
  <2>5. v4' = [v4 EXCEPT ![i] = r]
    BY <2>1 DEF Checks!ExitChild, Checks!Killed
  <2>6. Checks!Ages(v4[i], r)
    BY <2>1, <2>2, <2>3 DEF Checks!ExitChild, Checks!Ages, Checks!Runs, Checks!Grouped
  <2>7. v1' = v1 /\ v2' = v2 /\ v5' = v5 /\ (v3' = v3 \/ (v3 = "running" /\ v3' = "rejected"))
    BY <2>1 DEF Checks!ExitChild
  <2> HIDE DEF r
  <2> QED
    BY <2>5, <2>6, <2>7, RunAges
<1>10. CASE \E i \in 1..Checks!Current : Checks!Kill(i)
  <2>1. PICK i \in 1..Len(v4) : Checks!Kill(i)
    BY <1>10 DEF Checks!Current
  <2>2. v4[i] \in Checks!Runs
    BY DEF Checks!Domains
  <2>3. v4[i].ended \in {"killed", "noneLeft"} => v4[i].shell # "alive" /\ v4[i].child # "grouped"
    BY DEF Checks!TimedOutGroupIsGone, Checks!Grouped, Checks!Current
  <2> DEFINE r == [v4[i] EXCEPT !.ended = "killed", !.shell = IF v4[i].shell = "alive" THEN "failed" ELSE v4[i].shell,
                           !.child = IF v4[i].child = "grouped" THEN "none" ELSE v4[i].child]
  <2>5. v4' = [v4 EXCEPT ![i] = r]
    BY <2>1 DEF Checks!Kill, Checks!Killed
  <2>6. Checks!Ages(v4[i], r)
    BY <2>1, <2>2, <2>3 DEF Checks!Kill, Checks!Ages, Checks!Runs, Checks!Grouped
  <2>7. v1' = v1 /\ v2' = v2 /\ v5' = v5 /\ (v3' = v3 \/ (v3 = "running" /\ v3' = "rejected"))
    BY <2>1 DEF Checks!Kill
  <2> HIDE DEF r
  <2> QED
    BY <2>5, <2>6, <2>7, RunAges
<1>11. CASE \E i \in 1..Checks!Current : Checks!Deny(i)
  <2>1. PICK i \in 1..Len(v4) : Checks!Deny(i)
    BY <1>11 DEF Checks!Current
  <2>2. v4[i] \in Checks!Runs
    BY DEF Checks!Domains
  <2>3. v4[i].ended \in {"killed", "noneLeft"} => v4[i].shell # "alive" /\ v4[i].child # "grouped"
    BY DEF Checks!TimedOutGroupIsGone, Checks!Grouped, Checks!Current
  <2> DEFINE r == [v4[i] EXCEPT !.ended = "denied"]
  <2>5. v4' = [v4 EXCEPT ![i] = r]
    BY <2>1 DEF Checks!Deny, Checks!Killed
  <2>6. Checks!Ages(v4[i], r)
    BY <2>1, <2>2, <2>3 DEF Checks!Deny, Checks!Ages, Checks!Runs, Checks!Grouped
  <2>7. v1' = v1 /\ v2' = v2 /\ v5' = v5 /\ (v3' = v3 \/ (v3 = "running" /\ v3' = "rejected"))
    BY <2>1 DEF Checks!Deny
  <2> HIDE DEF r
  <2> QED
    BY <2>5, <2>6, <2>7, RunAges
<1>12. CASE UNCHANGED Checks!checksVars
  BY <1>12 DEF Checks!checksVars, Checks!Domains, Checks!Runs, Checks!Fresh, Checks!RunsAreInTurn,
         Checks!OutputIsWhole, Checks!ResultsAreOfTheChecks, Checks!TimedOutGroupIsGone
<1> QED
  BY <1>1, <1>2, <1>3, <1>4, <1>5, <1>6, <1>7, <1>8, <1>9, <1>10, <1>11,
     <1>12 DEF Checks!Next, Checks!Current

\* What the validation reports is what ran, whole, and what timed out is gone: for any commands
\* and anything they leave behind.
THEOREM ChecksReport ==
  ASSUME Len(Labels) \in Nat
  PROVE  PartsSpec => []ChecksReportWhatRan
<1>1. PartsInit /\ part = "checks" => Checks!Init
  BY DEF PartsInit
<1>2. [PartsNext]_all /\ part = "checks" => [Checks!Next]_(Checks!checksVars)
  BY DEF PartsNext, all, Checks!checksVars
<1>3. [PartsNext]_all => (part = "checks" <=> (part = "checks")')
  BY PartStays
<1>4. ChecksInv => Checks!TimedOutGroupIsGone /\ Checks!OutputIsWhole /\ Checks!PassesAreOfTheLastRun
  BY PassesFollow DEF ChecksInv
<1>5. (part = "checks" => ChecksInv) => ChecksReportWhatRan
  BY <1>4 DEF ChecksReportWhatRan
<1> QED
  BY <1>1, <1>2, <1>3, <1>5, ChecksInit, ChecksStep, PTL DEF PartsSpec
-----------------------------------------------------------------------------
(***************************************************************************)
(* The desktop application.                                                *)
(***************************************************************************)
ApplicationInv == Application!Domains /\ Application!RequirementIsCurrent /\ Application!ReadinessIsOfTheProject

\* A stop aborts the logins and leaves the queue what it is.
LEMMA AbortedIsAQueue == v2 \in Seq(Application!Operations) => Application!Aborted \in Seq(Application!Operations)
<1> SUFFICES ASSUME v2 \in Seq(Application!Operations)
             PROVE  Application!Aborted \in Seq(Application!Operations)
  OBVIOUS
<1>1. v2 \in [1..Len(v2) -> Application!Operations] /\ Len(v2) \in Nat /\ DOMAIN v2 = 1..Len(v2)
  OBVIOUS
<1>2. ASSUME NEW o \in Application!Operations
      PROVE  [o EXCEPT !.aborted = o.kind = "login"] \in Application!Operations
  <2>1. (o.kind = "login") \in BOOLEAN
    OBVIOUS
  <2> DEFINE b == o.kind = "login"
  <2> HIDE DEF b
  <2>2. b \in BOOLEAN => [o EXCEPT !.aborted = b] \in Application!Operations
    BY DEF Application!Operations
  <2> QED
    BY <2>1, <2>2 DEF b
<1>3. Application!Aborted \in [1..Len(v2) -> Application!Operations]
  BY <1>1, <1>2 DEF Application!Aborted
<1> QED
  BY <1>1, <1>3, SeqDef

\* What is asked for waits behind the rest.
LEMMA Queues ==
  ASSUME Application!Domains, NEW q, q = v2 \/ q = Application!Aborted,
         NEW kind \in {"tools", "login", "readiness", "start", "stop", "save", "remove", "pair"},
         NEW by \in {"window", "poll", "quit"}
  PROVE  Append(q, Application!Operation(kind, by)) \in Seq(Application!Operations)
<1>1. q \in Seq(Application!Operations)
  BY AbortedIsAQueue DEF Application!Domains
<1>2. Application!Operation(kind, by) \in Application!Operations
  BY DEF Application!Operation, Application!Operations, Application!Domains, Application!Drafts
<1> QED
  BY <1>1, <1>2, AppendProperties

LEMMA ApplicationInit == Application!Init => ApplicationInv
<1> SUFFICES ASSUME Application!Init
             PROVE  ApplicationInv
  OBVIOUS
<1>1. Application!Operation("start", "launch") \in Application!Operations
  BY DEF Application!Init, Application!Operation, Application!Operations, Application!Drafts
<1>2. <<Application!Operation("start", "launch")>> \in Seq(Application!Operations) /\ <<>> \in Seq(Application!Operations)
  BY <1>1
<1>3. Application!Domains
  BY <1>2 DEF Application!Init, Application!Domains, Application!Drafts, Application!Runtimes
<1> QED
  BY <1>3 DEF ApplicationInv, Application!Init, Application!RequirementIsCurrent, Application!ReadinessIsOfTheProject

LEMMA ApplicationStep == ApplicationInv /\ [Application!Next]_(Application!applicationVars) => ApplicationInv'
<1> SUFFICES ASSUME ApplicationInv, [Application!Next]_(Application!applicationVars)
             PROVE  ApplicationInv'
  OBVIOUS
<1> USE DEF ApplicationInv
<1>1. CASE Application!EditFolder
  <2>1. Application!Domains'
    BY <1>1 DEF Application!EditFolder, Application!Domains, Application!Drafts, Application!Operations,
           Application!Runtimes
  <2>2. Application!RequirementIsCurrent'
    BY <1>1 DEF Application!EditFolder, Application!RequirementIsCurrent, Application!Requirement,
           Application!UsesDocker, Application!Public, Application!Loaded
  <2>3. Application!ReadinessIsOfTheProject'
    BY <1>1 DEF Application!EditFolder, Application!ReadinessIsOfTheProject
  <2> QED
    BY <2>1, <2>2, <2>3
<1>2. CASE Application!Work
  <2>1. Application!Domains'
    BY <1>2 DEF Application!Work, Application!projectVars, Application!worldVars, Application!Domains,
           Application!Drafts, Application!Operations, Application!Runtimes
  <2>2. Application!RequirementIsCurrent'
    BY <1>2 DEF Application!Work, Application!projectVars, Application!worldVars,
           Application!RequirementIsCurrent, Application!Requirement, Application!UsesDocker,
           Application!Public, Application!Loaded
  <2>3. Application!ReadinessIsOfTheProject'
    BY <1>2 DEF Application!Work, Application!projectVars, Application!worldVars,
           Application!ReadinessIsOfTheProject
  <2> QED
    BY <2>1, <2>2, <2>3
<1>3. CASE Application!OpenForm
  <2>1. Application!Domains'
    BY <1>3 DEF Application!OpenForm, Application!projectVars, Application!worldVars, Application!Domains,
           Application!Drafts, Application!Operations, Application!Runtimes
  <2>2. Application!RequirementIsCurrent'
    BY <1>3 DEF Application!OpenForm, Application!projectVars, Application!worldVars,
           Application!RequirementIsCurrent, Application!Requirement, Application!UsesDocker,
           Application!Public, Application!Loaded
  <2>3. Application!ReadinessIsOfTheProject'
    BY <1>3 DEF Application!OpenForm, Application!projectVars, Application!worldVars,
           Application!ReadinessIsOfTheProject
  <2> QED
    BY <2>1, <2>2, <2>3
<1>4. CASE Application!Quit
  <2>1. Application!Domains'
    BY <1>4, Queues DEF Application!Quit, Application!projectVars, Application!Domains
  <2>2. Application!RequirementIsCurrent'
    BY <1>4 DEF Application!Quit, Application!projectVars, Application!worldVars,
           Application!RequirementIsCurrent, Application!Requirement, Application!UsesDocker,
           Application!Public, Application!Loaded
  <2>3. Application!ReadinessIsOfTheProject'
    BY <1>4 DEF Application!Quit, Application!projectVars, Application!worldVars,
           Application!ReadinessIsOfTheProject
  <2> QED
    BY <2>1, <2>2, <2>3
<1>5. CASE Application!FailHead
  <2>1. Application!Domains'
    BY <1>5 DEF Application!FailHead, Application!Ends, Application!projectVars, Application!worldVars,
           Application!Domains, Application!Drafts, Application!Operations, Application!Runtimes
  <2>2. Application!RequirementIsCurrent'
    BY <1>5 DEF Application!FailHead, Application!Ends, Application!projectVars, Application!worldVars,
           Application!RequirementIsCurrent, Application!Requirement, Application!UsesDocker,
           Application!Public, Application!Loaded
  <2>3. Application!ReadinessIsOfTheProject'
    BY <1>5 DEF Application!FailHead, Application!Ends, Application!projectVars, Application!worldVars,
           Application!ReadinessIsOfTheProject
  <2> QED
    BY <2>1, <2>2, <2>3
<1>6. CASE Application!EndTools
  <2>1. Application!Domains'
    BY <1>6 DEF Application!EndTools, Application!Ends, Application!projectVars, Application!worldVars,
           Application!Domains, Application!Drafts, Application!Operations, Application!Runtimes
  <2>2. Application!RequirementIsCurrent'
    BY <1>6 DEF Application!EndTools, Application!Ends, Application!projectVars, Application!worldVars,
           Application!RequirementIsCurrent, Application!Requirement, Application!UsesDocker,
           Application!Public, Application!Loaded
  <2>3. Application!ReadinessIsOfTheProject'
    BY <1>6 DEF Application!EndTools, Application!Ends, Application!projectVars, Application!worldVars,
           Application!ReadinessIsOfTheProject
  <2> QED
    BY <2>1, <2>2, <2>3
<1>7. CASE Application!EndLogin
  <2>1. Application!Domains'
    BY <1>7 DEF Application!EndLogin, Application!Ends, Application!projectVars, Application!worldVars,
           Application!Domains, Application!Drafts, Application!Operations, Application!Runtimes
  <2>2. Application!RequirementIsCurrent'
    BY <1>7 DEF Application!EndLogin, Application!Ends, Application!projectVars, Application!worldVars,
           Application!RequirementIsCurrent, Application!Requirement, Application!UsesDocker,
           Application!Public, Application!Loaded
  <2>3. Application!ReadinessIsOfTheProject'
    BY <1>7 DEF Application!EndLogin, Application!Ends, Application!projectVars, Application!worldVars,
           Application!ReadinessIsOfTheProject
  <2> QED
    BY <2>1, <2>2, <2>3
<1>8. CASE Application!EndReadiness
  <2>1. Application!Domains'
    BY <1>8 DEF Application!EndReadiness, Application!Ends, Application!projectVars, Application!worldVars,
           Application!Domains, Application!Drafts, Application!Operations, Application!Runtimes
  <2>2. Application!RequirementIsCurrent'
    BY <1>8 DEF Application!EndReadiness, Application!Ends, Application!projectVars, Application!worldVars,
           Application!RequirementIsCurrent, Application!Requirement, Application!UsesDocker,
           Application!Public, Application!Loaded
  <2>3. Application!ReadinessIsOfTheProject'
    BY <1>8 DEF Application!EndReadiness, Application!Ends, Application!projectVars, Application!worldVars,
           Application!ReadinessIsOfTheProject
  <2> QED
    BY <2>1, <2>2, <2>3
<1>9. CASE Application!EndStart
  <2>1. Application!Domains'
    BY <1>9 DEF Application!EndStart, Application!Ends, Application!projectVars, Application!worldVars,
           Application!Domains, Application!Drafts, Application!Operations, Application!Runtimes
  <2>2. Application!RequirementIsCurrent'
    BY <1>9 DEF Application!EndStart, Application!Ends, Application!projectVars, Application!worldVars,
           Application!RequirementIsCurrent, Application!Requirement, Application!UsesDocker,
           Application!Public, Application!Loaded
  <2>3. Application!ReadinessIsOfTheProject'
    BY <1>9 DEF Application!EndStart, Application!Ends, Application!projectVars, Application!worldVars,
           Application!ReadinessIsOfTheProject
  <2> QED
    BY <2>1, <2>2, <2>3
<1>10. CASE Application!EndStop
  <2>1. Application!Domains'
    BY <1>10 DEF Application!EndStop, Application!Ends, Application!projectVars, Application!worldVars,
           Application!Domains, Application!Drafts, Application!Operations, Application!Runtimes
  <2>2. Application!RequirementIsCurrent'
    BY <1>10 DEF Application!EndStop, Application!Ends, Application!projectVars, Application!worldVars,
           Application!RequirementIsCurrent, Application!Requirement, Application!UsesDocker,
           Application!Public, Application!Loaded
  <2>3. Application!ReadinessIsOfTheProject'
    BY <1>10 DEF Application!EndStop, Application!Ends, Application!projectVars, Application!worldVars,
           Application!ReadinessIsOfTheProject
  <2> QED
    BY <2>1, <2>2, <2>3
<1>11. CASE Application!EndEdit
  <2>1. Application!Domains'
    <3>1. PICK kind \in {"save", "remove", "pair"} :
            /\ Application!Ends(kind)
            /\ v7' = CASE kind = "save" -> Head(v2).draft [] kind = "remove" -> None [] kind = "pair" -> v7
            /\ v6' = IF kind = "save" THEN None ELSE v6
      BY <1>11 DEF Application!EndEdit
    <3>2. v2 \in Seq(Application!Operations) /\ v2 # <<>> /\ v2' = Tail(v2)
      BY <3>1 DEF Application!Ends, Application!Domains
    <3>3. Head(v2) \in Application!Operations /\ v2' \in Seq(Application!Operations)
      BY <3>2
    <3>4. Head(v2).draft \in Application!Drafts
      BY <3>3 DEF Application!Operations
    <3>5. v7' \in Application!Drafts /\ v6' \in Application!Drafts
      BY <3>1, <3>4 DEF Application!Domains, Application!Drafts
    <3> QED
      BY <3>3, <3>5 DEF Application!Domains
  <2>2. Application!RequirementIsCurrent'
    BY <1>11 DEF Application!EndEdit, Application!Ends, Application!projectVars, Application!worldVars,
           Application!Forget, Application!RequirementIsCurrent, Application!Requirement,
           Application!UsesDocker, Application!Public, Application!Loaded
  <2>3. Application!ReadinessIsOfTheProject'
    BY <1>11 DEF Application!EndEdit, Application!Ends, Application!projectVars, Application!worldVars,
           Application!Forget, Application!ReadinessIsOfTheProject
  <2> QED
    BY <2>1, <2>2, <2>3
<1>12. CASE \E kind \in {"tools", "login", "readiness", "start", "stop", "save", "remove"} : Application!Act(kind)
  <2>1. Application!Domains'
    BY <1>12, Queues DEF Application!Act, Application!projectVars, Application!Domains
  <2>2. Application!RequirementIsCurrent'
    BY <1>12 DEF Application!Act, Application!projectVars, Application!worldVars,
           Application!RequirementIsCurrent, Application!Requirement, Application!UsesDocker,
           Application!Public, Application!Loaded
  <2>3. Application!ReadinessIsOfTheProject'
    BY <1>12 DEF Application!Act, Application!projectVars, Application!worldVars,
           Application!ReadinessIsOfTheProject
  <2> QED
    BY <2>1, <2>2, <2>3
<1>13. CASE \E kind \in {"tools", "pair"} : Application!Poll(kind)
  <2>1. Application!Domains'
    BY <1>13, Queues DEF Application!Poll, Application!projectVars, Application!Domains
  <2>2. Application!RequirementIsCurrent'
    BY <1>13 DEF Application!Poll, Application!projectVars, Application!worldVars,
           Application!RequirementIsCurrent, Application!Requirement, Application!UsesDocker,
           Application!Public, Application!Loaded
  <2>3. Application!ReadinessIsOfTheProject'
    BY <1>13 DEF Application!Poll, Application!projectVars, Application!worldVars,
           Application!ReadinessIsOfTheProject
  <2> QED
    BY <2>1, <2>2, <2>3
<1>14. CASE UNCHANGED Application!applicationVars
  BY <1>14 DEF Application!applicationVars, Application!Domains, Application!Drafts, Application!Operations,
         Application!Runtimes, Application!RequirementIsCurrent, Application!Requirement,
         Application!UsesDocker, Application!Public, Application!Loaded, Application!ReadinessIsOfTheProject
<1> QED
  BY <1>1, <1>2, <1>3, <1>4, <1>5, <1>6, <1>7, <1>8, <1>9, <1>10, <1>11, <1>12, <1>13,
     <1>14 DEF Application!Next, Application!Finish

\* A saved project can be built as long as its folder is there, a start asks for Docker when
\* the window does, and the readiness on display is of what is saved, for any manifests.
THEOREM SavedProjectsAreReady == PartsSpec => []SavedProjectsStayReady
<1>1. PartsInit /\ part = "application" => Application!Init
  BY DEF PartsInit
<1>2. [PartsNext]_all /\ part = "application" => [Application!Next]_(Application!applicationVars)
  BY DEF PartsNext, all, Application!applicationVars
<1>3. [PartsNext]_all => (part = "application" <=> (part = "application")')
  BY PartStays
<1>4. ApplicationInv => Application!SavedProjectsCanBeBuilt /\ Application!DockerWarningIsTrue /\ Application!ReadinessIsOfTheProject
  BY DEF ApplicationInv, Application!Domains, Application!Drafts, Application!Runtimes,
         Application!RequirementIsCurrent, Application!Requirement, Application!CanBuild,
         Application!Loaded, Application!SavedProjectsCanBeBuilt, Application!DockerWarningIsTrue
<1>5. (part = "application" => ApplicationInv) => SavedProjectsStayReady
  BY <1>4 DEF SavedProjectsStayReady
<1> QED
  BY <1>1, <1>2, <1>3, <1>5, ApplicationInit, ApplicationStep, PTL DEF PartsSpec
-----------------------------------------------------------------------------
(***************************************************************************)
(* The window of the desktop application.                                  *)
(***************************************************************************)
WindowInv ==
  /\ Window!Domains /\ Window!AnswersAreInOrder /\ Window!CallsAreAnsweredOnce
  /\ Window!EffectIsRead /\ Window!ChecksAreShown

\* The manager's states grow older.
LEMMA ManagerAges ==
  ASSUME Window!Domains, Window!MayChange
  PROVE  v1' \in Window!Snapshots /\ v1.age \in Nat /\ v1'.age \in Nat /\ v1.age <= v1'.age
<1>1. v1 \in Window!Snapshots
  BY DEF Window!Domains
<1>2. CASE v1' = v1
  BY <1>1, <1>2 DEF Window!Snapshots
<1>3. CASE \E needs \in Window!Needs : v1' = [age |-> v1.age + 1, needs |-> needs]
  BY <1>1, <1>3 DEF Window!Snapshots
<1> QED
  BY <1>2, <1>3 DEF Window!MayChange

\* An answer is the newest of those on their way.
LEMMA AnswerIsNewest ==
  ASSUME WindowInv, Window!MayChange, NEW reply \in Window!Replies, reply.with = v1',
         v4' = Append(v4, reply), v5' = v5, \A i \in DOMAIN v4 : v4[i].to # reply.to
  PROVE  /\ v4' \in Seq(Window!Replies) /\ Window!AnswersAreInOrder'
         /\ DOMAIN v4' = DOMAIN v4 \cup {Len(v4) + 1} /\ Len(v4) + 1 \notin DOMAIN v4
         /\ v4'[Len(v4) + 1] = reply /\ \A i \in DOMAIN v4 : v4'[i] = v4[i]
         /\ \A i, j \in DOMAIN v4' : v4'[i].to = v4'[j].to => i = j
<1>1. /\ v4 \in Seq(Window!Replies) /\ \A i \in DOMAIN v4 : v4[i].with.age \in Nat
      /\ v5 # None => v5.age \in Nat
  <2>1. v4 \in Seq(Window!Replies) /\ (v5 # None => v5 \in Window!Snapshots)
    BY DEF WindowInv, Window!Domains
  <2>2. \A i \in DOMAIN v4 : v4[i] \in Window!Replies
    BY <2>1
  <2> QED
    BY <2>1, <2>2 DEF Window!Replies, Window!Snapshots
<1>2. /\ v4' \in Seq(Window!Replies) /\ DOMAIN v4' = DOMAIN v4 \cup {Len(v4) + 1} /\ Len(v4) + 1 \notin DOMAIN v4
      /\ v4'[Len(v4) + 1] = reply /\ \A i \in DOMAIN v4 : v4'[i] = v4[i]
      /\ \A i \in DOMAIN v4 : i \in Nat /\ i < Len(v4) + 1 /\ Len(v4) + 1 \in Nat
  BY <1>1
<1>3. v1.age \in Nat /\ v1'.age \in Nat /\ v1.age <= v1'.age
  BY ManagerAges DEF WindowInv
<1>4. Window!AnswersAreInOrder'
  BY <1>1, <1>2, <1>3 DEF WindowInv, Window!AnswersAreInOrder
<1>5. \A i, j \in DOMAIN v4' : v4'[i].to = v4'[j].to => i = j
  BY <1>2 DEF WindowInv, Window!CallsAreAnsweredOnce
<1> QED
  BY <1>2, <1>4, <1>5

\* The first answer is the oldest, and the only one of its call.
LEMMA AnswerIsOldest ==
  ASSUME WindowInv, v4 # <<>>, v4' = Tail(v4), v1' = v1, v5' = v5 \/ v5' = Head(v4).with
  PROVE  /\ Head(v4) \in Window!Replies /\ Head(v4) = v4[1] /\ 1 \in DOMAIN v4
         /\ Head(v4).with \in Window!Snapshots /\ Head(v4).with.age \in Nat /\ Head(v4).with.age <= v1.age
         /\ v5 # None => v5.age <= Head(v4).with.age
         /\ v4' \in Seq(Window!Replies) /\ Window!AnswersAreInOrder'
         /\ \A i \in DOMAIN v4' : i + 1 \in DOMAIN v4 /\ v4'[i] = v4[i + 1] /\ v4'[i].to # Head(v4).to
         /\ \A i, j \in DOMAIN v4' : v4'[i].to = v4'[j].to => i = j
<1>1. v4 \in Seq(Window!Replies) /\ v1 \in Window!Snapshots /\ (v5 # None => v5 \in Window!Snapshots)
  BY DEF WindowInv, Window!Domains
<1>2. /\ Head(v4) \in Window!Replies /\ Head(v4) = v4[1] /\ 1 \in DOMAIN v4 /\ v4' \in Seq(Window!Replies)
      /\ \A i \in DOMAIN v4 : v4[i] \in Window!Replies
      /\ \A i \in DOMAIN v4' : i \in Nat /\ i + 1 \in DOMAIN v4 /\ v4'[i] = v4[i + 1] /\ 1 < i + 1
  BY <1>1
<1>3. /\ \A i \in DOMAIN v4 : v4[i].with.age \in Nat /\ v4[i].with \in Window!Snapshots
      /\ v1.age \in Nat /\ (v5 # None => v5.age \in Nat)
  BY <1>1, <1>2 DEF Window!Replies, Window!Snapshots
<1>4. /\ Head(v4).with.age <= v1.age
      /\ v5 # None => v5.age <= Head(v4).with.age
      /\ \A i \in DOMAIN v4' : Head(v4).with.age <= v4'[i].with.age
  BY <1>2 DEF WindowInv, Window!AnswersAreInOrder
<1>5. ASSUME NEW i \in DOMAIN v4', NEW j \in DOMAIN v4'
      PROVE  /\ v4'[i].with.age <= v1.age
             /\ i < j => v4'[i].with.age <= v4'[j].with.age
             /\ v5 # None => v5.age <= v4'[i].with.age
             /\ v4'[i].to = v4'[j].to => i = j
             /\ v4'[i].to # Head(v4).to
  <2>1. i + 1 \in DOMAIN v4 /\ j + 1 \in DOMAIN v4 /\ v4'[i] = v4[i + 1] /\ v4'[j] = v4[j + 1] /\ i \in Nat /\ j \in Nat
    BY <1>2
  <2> QED
    BY <1>2, <2>1 DEF WindowInv, Window!AnswersAreInOrder, Window!CallsAreAnsweredOnce
<1>6. Window!AnswersAreInOrder'
  BY <1>3, <1>4, <1>5 DEF WindowInv, Window!AnswersAreInOrder
<1> QED
  BY <1>2, <1>3, <1>4, <1>5, <1>6

LEMMA WindowInit ==
  ASSUME Readers \cap {"profile", "action", "told", "failed"} = {},
         None \notin Readers \cup {"profile", "action", "told", "failed", "snapshot", "poll", "tools"},
         None \notin {"sent", "answered", "reading", "settling"} \cup Window!Snapshots
  PROVE  Window!Init => WindowInv
<1> SUFFICES ASSUME Window!Init
             PROVE  WindowInv
  OBVIOUS
<1>1. Window!Domains
  BY DEF Window!Init, Window!Domains, Window!Snapshots, Window!AllReads, Window!ReadStates, Window!Idle,
      Window!Resting, Window!Actions
<1>2. Window!AnswersAreInOrder
  BY DEF Window!Init, Window!AnswersAreInOrder
<1>3. Window!CallsAreAnsweredOnce
  BY DEF Window!Init, Window!CallsAreAnsweredOnce, Window!Idle, Window!Free, Window!AllReads
<1>4. Window!EffectIsRead /\ Window!ChecksAreShown
  BY DEF Window!Init, Window!EffectIsRead, Window!ChecksAreShown, Window!Resting, Window!Settling
<1> QED
  BY <1>1, <1>2, <1>3, <1>4 DEF WindowInv

LEMMA WindowStep ==
  ASSUME Readers \cap {"profile", "action", "told", "failed"} = {},
         None \notin Readers \cup {"profile", "action", "told", "failed", "snapshot", "poll", "tools"},
         None \notin {"sent", "answered", "reading", "settling"} \cup Window!Snapshots
  PROVE  WindowInv /\ [Window!Next]_(Window!windowVars) => WindowInv'
<1> SUFFICES ASSUME WindowInv, [Window!Next]_(Window!windowVars)
             PROVE  WindowInv'
  OBVIOUS
<1> USE DEF WindowInv
<1>1. CASE Window!Change
  <2>1. Window!MayChange /\ v2' = v2 /\ v3' = v3 /\ v4' = v4 /\ v5' = v5 /\ v6' = v6 /\ v7' = v7 /\ v8' = v8 /\ v9' = v9
    BY <1>1 DEF Window!Change
  <2>2. v1' \in Window!Snapshots /\ v1.age \in Nat /\ v1'.age \in Nat /\ v1.age <= v1'.age
    BY <2>1, ManagerAges
  <2>3. Window!AnswersAreInOrder'
    <3>1. \A i \in DOMAIN v4 : v4[i].with.age \in Nat
      <4>1. \A i \in DOMAIN v4 : v4[i] \in Window!Replies
        BY DEF Window!Domains
      <4> QED
        BY <4>1 DEF Window!Replies, Window!Snapshots
    <3>2. v5 # None => v5.age \in Nat
      BY DEF Window!Domains, Window!Snapshots
    <3> QED
      BY <2>1, <2>2, <3>1, <3>2 DEF Window!AnswersAreInOrder
  <2>4. Window!EffectIsRead'
    BY <2>1, <2>2 DEF Window!EffectIsRead, Window!Free, Window!Settling, Window!Domains, Window!Actions
  <2> QED
    BY <2>1, <2>2, <2>3, <2>4 DEF Window!Domains, Window!CallsAreAnsweredOnce, Window!Free, Window!ChecksAreShown
<1>2. CASE Window!ServeAction
  <2>1. PICK ok \in BOOLEAN : v4' = Append(v4, [to |-> "action", ok |-> ok, with |-> v1'])
    BY <1>2 DEF Window!ServeAction, Window!Reply
  <2> DEFINE reply == [to |-> "action", ok |-> ok, with |-> v1']
             a == [v6 EXCEPT !.at = "answered"]
  <2>2. /\ v6.at = "sent" /\ Window!MayChange /\ v6' = a /\ v2' = v2
        /\ v3' = v3 /\ v5' = v5 /\ v7' = v7 /\ v8' = v8 /\ v9' = v9
    BY <1>2 DEF Window!ServeAction
  <2>3. v1' \in Window!Snapshots /\ v1.age \in Nat /\ v1'.age \in Nat /\ v1.age <= v1'.age
    BY <2>2, ManagerAges
  <2>4. /\ reply \in Window!Replies /\ reply.to = "action" /\ reply.with = v1'
        /\ a \in Window!Actions /\ a.at = "answered"
    BY <2>3 DEF Window!Replies, Window!Domains, Window!Actions
  <2>5. \A i \in DOMAIN v4 : v4[i].to # "action"
    BY <2>2 DEF Window!CallsAreAnsweredOnce
  <2>6. v4' = Append(v4, reply)
    BY <2>1
  <2> HIDE DEF reply, a
  <2>7. /\ v4' \in Seq(Window!Replies) /\ Window!AnswersAreInOrder'
        /\ DOMAIN v4' = DOMAIN v4 \cup {Len(v4) + 1}
        /\ v4'[Len(v4) + 1] = reply /\ \A i \in DOMAIN v4 : v4'[i] = v4[i]
        /\ \A i, j \in DOMAIN v4' : v4'[i].to = v4'[j].to => i = j
    BY <2>2, <2>4, <2>5, <2>6, AnswerIsNewest
  <2>8. Window!Domains'
    BY <2>2, <2>3, <2>4, <2>7 DEF Window!Domains
  <2>9. Window!CallsAreAnsweredOnce'
    BY <2>2, <2>4, <2>5, <2>7 DEF Window!CallsAreAnsweredOnce, Window!Free
  <2>10. Window!EffectIsRead' /\ Window!ChecksAreShown'
    BY <2>2, <2>4, <2>7 DEF Window!EffectIsRead, Window!ChecksAreShown, Window!Settling
  <2> QED
    BY <2>7, <2>8, <2>9, <2>10
<1>3. CASE Window!Act
  <2>1. /\ v6.at = None /\ v5 # None /\ v1' = v1 /\ v2' = v2 /\ v3' = v3 /\ v4' = v4 /\ v5' = v5 /\ v7' = v7 /\ v8' = v8 /\ v9' = v9
        /\ v6'.at = "sent" /\ v6' \in Window!Actions
    BY <1>3 DEF Window!Act, Window!Run, Window!Actions
  <2> QED
    BY <2>1 DEF Window!Domains, Window!AnswersAreInOrder, Window!CallsAreAnsweredOnce, Window!Free,
        Window!EffectIsRead, Window!Settling, Window!ChecksAreShown
<1>4. CASE Window!RetryInitialization
  <2>1. /\ v6.at = None /\ v5 # None /\ v1' = v1 /\ v2' = v2 /\ v3' = v3 /\ v4' = v4 /\ v5' = v5 /\ v7' = v7 /\ v8' = v8 /\ v9' = v9
        /\ v6'.at = "sent" /\ v6' \in Window!Actions
    BY <1>4 DEF Window!RetryInitialization, Window!Run, Window!Actions
  <2> QED
    BY <2>1 DEF Window!Domains, Window!AnswersAreInOrder, Window!CallsAreAnsweredOnce, Window!Free,
        Window!EffectIsRead, Window!Settling, Window!ChecksAreShown
<1>5. CASE Window!ReadProfile
  <2> DEFINE c == [call |-> "snapshot", answered |-> FALSE, first |-> None]
             a == [v6 EXCEPT !.at = "reading", !.awaits = "profile"]
  <2>1. /\ v4 # <<>> /\ Head(v4).to = "action" /\ v4' = Tail(v4) /\ v2' = [v2 EXCEPT !["profile"] = c] /\ v6' = a
        /\ v1' = v1 /\ v3' = v3 /\ v5' = v5 /\ v7' = v7 /\ v8' = v8 /\ v9' = v9
    BY <1>5 DEF Window!ReadProfile, Window!Answered, Window!Begun
  <2>2. /\ Head(v4) = v4[1] /\ 1 \in DOMAIN v4 /\ v4' \in Seq(Window!Replies) /\ Window!AnswersAreInOrder'
        /\ \A i \in DOMAIN v4' : i + 1 \in DOMAIN v4 /\ v4'[i] = v4[i + 1] /\ v4'[i].to # "action"
        /\ \A i, j \in DOMAIN v4' : v4'[i].to = v4'[j].to => i = j
    BY <2>1, AnswerIsOldest
  <2>3. v6.at = "answered"
    BY <2>1, <2>2 DEF Window!CallsAreAnsweredOnce
  <2>4. /\ c \in Window!ReadStates /\ c.call = "snapshot" /\ ~c.answered /\ a \in Window!Actions
        /\ a.at = "reading" /\ a.awaits = "profile"
    BY DEF Window!ReadStates, Window!Domains, Window!Actions, Window!AllReads
  <2> HIDE DEF c, a
  <2>5. /\ v2' \in [Window!AllReads -> Window!ReadStates] /\ "profile" \in Window!AllReads
        /\ v2'["profile"] = c /\ \A o \in Window!AllReads : o # "profile" => v2'[o] = v2[o]
    BY <2>1, <2>4 DEF Window!Domains, Window!AllReads
  <2>6. Window!Domains'
    BY <2>1, <2>2, <2>4, <2>5 DEF Window!Domains
  <2>7. Window!CallsAreAnsweredOnce'
    <3>1. ~v2["profile"].answered
      BY <2>3, <2>5 DEF Window!CallsAreAnsweredOnce, Window!Free
    <3>2. \A i \in DOMAIN v4' : v4'[i].to \in Window!AllReads /\ v2[v4'[i].to].answered /\ v4'[i].to # "profile"
      <4>1. \A i \in DOMAIN v4' : v4'[i] \in Window!Replies
        BY <2>2
      <4> QED
        BY <2>2, <3>1, <4>1 DEF Window!CallsAreAnsweredOnce, Window!Replies
    <3> QED
      BY <2>1, <2>2, <2>4, <2>5, <3>2 DEF Window!CallsAreAnsweredOnce, Window!Free
  <2>8. Window!EffectIsRead' /\ Window!ChecksAreShown'
    BY <2>1, <2>3, <2>4 DEF Window!EffectIsRead, Window!ChecksAreShown, Window!Settling
  <2> QED
    BY <2>2, <2>6, <2>7, <2>8
<1>6. CASE Window!EndCall
  <2> DEFINE ok == Head(v4).ok
             age == Head(v4).with.age
             a == [v6 EXCEPT !.at = "settling", !.awaits = None, !.ok = ok, !.age = age]
  <2>1. /\ v4 # <<>> /\ Head(v4).to = "action" /\ v4' = Tail(v4)
        /\ v7' = (IF ~ok /\ v6.kind \in LinkedRepositories THEN v7 \cup {v6.kind} ELSE v7)
        /\ v8' = (IF v6.kind \in LinkedRepositories THEN [v8 EXCEPT ![v6.kind] = IF ok THEN "ok" ELSE "failed"] ELSE v8)
        /\ v6' = a /\ v1' = v1 /\ v2' = v2 /\ v3' = v3 /\ v5' = v5 /\ v9' = v9
    BY <1>6 DEF Window!EndCall, Window!Answered, Window!Ended
  <2>2. /\ Head(v4) \in Window!Replies /\ Head(v4) = v4[1] /\ 1 \in DOMAIN v4 /\ age \in Nat /\ age <= v1.age
        /\ v4' \in Seq(Window!Replies) /\ Window!AnswersAreInOrder'
        /\ \A i \in DOMAIN v4' : i + 1 \in DOMAIN v4 /\ v4'[i] = v4[i + 1] /\ v4'[i].to # "action"
        /\ \A i, j \in DOMAIN v4' : v4'[i].to = v4'[j].to => i = j
    BY <2>1, AnswerIsOldest
  <2>3. v6.at = "answered" /\ ok \in BOOLEAN
    BY <2>1, <2>2 DEF Window!CallsAreAnsweredOnce, Window!Replies
  <2> HIDE DEF ok, age
  <2>4. /\ a \in Window!Actions /\ a.at = "settling" /\ a.awaits = None /\ a.ok = ok /\ a.age = age /\ a.kind = v6.kind
        /\ v6' = a
    BY <2>1, <2>2, <2>3 DEF Window!Domains, Window!Actions
  <2> HIDE DEF a
  <2>5. v8' \in [LinkedRepositories -> {None, "ok", "failed"}]
    BY <2>1 DEF Window!Domains
  <2>6. Window!Domains'
    BY <2>1, <2>2, <2>4, <2>5 DEF Window!Domains
  <2>7. Window!CallsAreAnsweredOnce'
    <3>1. \A i \in DOMAIN v4' : v2[v4'[i].to].answered
      BY <2>2 DEF Window!CallsAreAnsweredOnce
    <3> QED
      BY <2>1, <2>2, <2>3, <2>4, <3>1 DEF Window!CallsAreAnsweredOnce, Window!Free
  <2>8. Window!EffectIsRead'
    BY <2>1, <2>2, <2>3, <2>4 DEF Window!EffectIsRead, Window!Settling
  <2>9. Window!ChecksAreShown'
    <3>1. ASSUME NEW p \in LinkedRepositories
          PROVE  (p \in v7' <=> v8'[p] = "failed") \/ v6.kind = p
      BY <2>1, <2>3 DEF Window!ChecksAreShown, Window!Settling, Window!Domains
    <3>2. v6.kind \in LinkedRepositories =>
            /\ v8'[v6.kind] = IF ok THEN "ok" ELSE "failed"
            /\ ~ok => v6.kind \in v7'
      BY <2>1 DEF Window!Domains
    <3> QED
      BY <2>4, <3>1, <3>2 DEF Window!ChecksAreShown, Window!Settling
  <2> QED
    BY <2>2, <2>6, <2>7, <2>8, <2>9
<1>7. CASE Window!EndProfile
  <2> DEFINE ok == v6.awaits = "told"
             age == v5.age
             a == [v6 EXCEPT !.at = "settling", !.awaits = None, !.ok = ok, !.age = age]
  <2>1. /\ v6.at = "reading" /\ v6.awaits \in {"told", "failed"} /\ v4' = v4
        /\ v7' = (IF ~ok /\ v6.kind \in LinkedRepositories THEN v7 \cup {v6.kind} ELSE v7)
        /\ v8' = (IF v6.kind \in LinkedRepositories THEN [v8 EXCEPT ![v6.kind] = IF ok THEN "ok" ELSE "failed"] ELSE v8)
        /\ v6' = a /\ v1' = v1 /\ v2' = v2 /\ v3' = v3 /\ v5' = v5 /\ v9' = v9
    BY <1>7 DEF Window!EndProfile, Window!Ended
  <2>2. age \in Nat /\ age <= v1.age
    BY <2>1 DEF Window!EffectIsRead, Window!AnswersAreInOrder, Window!Domains, Window!Snapshots
  <2>3. v6.at # "settling" /\ ok \in BOOLEAN
    BY <2>1
  <2> HIDE DEF ok, age
  <2>4. /\ a \in Window!Actions /\ a.at = "settling" /\ a.awaits = None /\ a.ok = ok /\ a.age = age /\ a.kind = v6.kind
        /\ v6' = a
    BY <2>1, <2>2, <2>3 DEF Window!Domains, Window!Actions
  <2> HIDE DEF a
  <2>5. v8' \in [LinkedRepositories -> {None, "ok", "failed"}]
    BY <2>1 DEF Window!Domains
  <2>6. Window!Domains' /\ Window!AnswersAreInOrder'
    BY <2>1, <2>4, <2>5 DEF Window!Domains, Window!AnswersAreInOrder
  <2>7. Window!CallsAreAnsweredOnce'
    BY <2>1, <2>4 DEF Window!CallsAreAnsweredOnce, Window!Free
  <2>8. Window!EffectIsRead'
    BY <2>1, <2>2, <2>4 DEF Window!EffectIsRead, Window!Settling
  <2>9. Window!ChecksAreShown'
    <3>1. ASSUME NEW p \in LinkedRepositories
          PROVE  (p \in v7' <=> v8'[p] = "failed") \/ v6.kind = p
      BY <2>1, <2>3 DEF Window!ChecksAreShown, Window!Settling, Window!Domains
    <3>2. v6.kind \in LinkedRepositories =>
            /\ v8'[v6.kind] = IF ok THEN "ok" ELSE "failed"
            /\ ~ok => v6.kind \in v7'
      BY <2>1 DEF Window!Domains
    <3> QED
      BY <2>4, <3>1, <3>2 DEF Window!ChecksAreShown, Window!Settling
  <2> QED
    BY <2>6, <2>7, <2>8, <2>9
<1>8. CASE Window!Settle
  <2>1. /\ v6.at = "settling" /\ v6.awaits \in {"told", "failed"} /\ v7' = (IF v6.ok THEN v7 \ {v6.kind} ELSE v7)
        /\ v9' = (IF v6.awaits = "told" THEN v6.age ELSE v9) /\ v6' = Window!Resting
        /\ v1' = v1 /\ v2' = v2 /\ v3' = v3 /\ v4' = v4 /\ v5' = v5 /\ v8' = v8
    BY <1>8 DEF Window!Settle, Window!Cleared
  <2>2. v6' \in Window!Actions /\ v6'.at = None
    BY <2>1 DEF Window!Resting, Window!Actions
  <2>3. v6.age \in Nat /\ (v6.awaits = "told" => v5.age >= v6.age) /\ v5 # None
    BY <2>1 DEF Window!EffectIsRead, Window!Settling, Window!Domains, Window!Actions
  <2>4. Window!Domains' /\ Window!AnswersAreInOrder'
    BY <2>1, <2>2, <2>3 DEF Window!Domains, Window!AnswersAreInOrder
  <2>5. Window!CallsAreAnsweredOnce'
    BY <2>1, <2>2 DEF Window!CallsAreAnsweredOnce, Window!Free
  <2>6. Window!EffectIsRead'
    BY <2>1, <2>2, <2>3 DEF Window!EffectIsRead, Window!Settling
  <2>7. Window!ChecksAreShown'
    <3>1. v6.kind \in LinkedRepositories => (v6.kind \in v7' <=> v8[v6.kind] = "failed")
      BY <2>1 DEF Window!ChecksAreShown, Window!Settling
    <3>2. ASSUME NEW p \in LinkedRepositories, p # v6.kind
          PROVE  p \in v7' <=> v8[p] = "failed"
      BY <2>1, <3>2 DEF Window!ChecksAreShown
    <3> QED
      BY <2>1, <2>2, <3>1, <3>2 DEF Window!ChecksAreShown, Window!Settling
  <2> QED
    BY <2>4, <2>5, <2>6, <2>7
<1>9. CASE \E p \in LinkedRepositories : Window!Check(p)
  <2>1. /\ v6.at = None /\ v5 # None /\ v1' = v1 /\ v2' = v2 /\ v3' = v3 /\ v4' = v4 /\ v5' = v5 /\ v7' = v7 /\ v8' = v8 /\ v9' = v9
        /\ v6'.at = "sent" /\ v6' \in Window!Actions
    BY <1>9 DEF Window!Check, Window!Run, Window!Actions
  <2> QED
    BY <2>1 DEF Window!Domains, Window!AnswersAreInOrder, Window!CallsAreAnsweredOnce, Window!Free,
        Window!EffectIsRead, Window!Settling, Window!ChecksAreShown
<1>10. CASE \E r \in Readers : Window!StartRead(r)
  <2>1. PICK r \in Readers : Window!StartRead(r)
    BY <1>10
  <2> DEFINE c == [call |-> "snapshot", answered |-> FALSE, first |-> None]
  <2>2. /\ v2[r].call = None /\ v2' = [v2 EXCEPT ![r] = c] /\ v3' = r /\ v6' = v6
        /\ v1' = v1 /\ v4' = v4 /\ v5' = v5 /\ v7' = v7 /\ v8' = v8 /\ v9' = v9
    BY <2>1 DEF Window!StartRead, Window!Begun, Window!Free
  <2>3. c \in Window!ReadStates /\ c.call = "snapshot" /\ ~c.answered /\ c.first = None /\ r \in Window!AllReads /\ r # "profile"
    BY DEF Window!ReadStates, Window!AllReads
  <2> HIDE DEF c
  <2>4. /\ v2' \in [Window!AllReads -> Window!ReadStates]
        /\ v2'[r] = c /\ \A o \in Window!AllReads : o # r => v2'[o] = v2[o]
    BY <2>2, <2>3 DEF Window!Domains
  <2>5. \A i \in DOMAIN v4 : v4[i].to # r /\ v4[i].to \in Window!AllReads \cup {"action"}
    <3>1. \A i \in DOMAIN v4 : v4[i] \in Window!Replies
      BY DEF Window!Domains
    <3>2. ~v2[r].answered /\ r # "action"
      BY <2>2, <2>3 DEF Window!CallsAreAnsweredOnce, Window!Free
    <3> QED
      BY <3>1, <3>2 DEF Window!CallsAreAnsweredOnce, Window!Replies
  <2>6. Window!CallsAreAnsweredOnce'
    BY <2>2, <2>3, <2>4, <2>5 DEF Window!CallsAreAnsweredOnce, Window!Free, Window!AllReads
  <2>7. Window!Domains' /\ Window!AnswersAreInOrder' /\ Window!ChecksAreShown'
    BY <2>2, <2>4 DEF Window!Domains, Window!AnswersAreInOrder, Window!ChecksAreShown
  <2>8. Window!EffectIsRead'
    BY <2>2, <2>4 DEF Window!EffectIsRead, Window!Free, Window!AllReads
  <2> QED
    BY <2>6, <2>7, <2>8
<1>11. CASE \E r \in Readers : Window!Invalidate(r)
  <2>1. PICK r \in Readers : Window!Invalidate(r)
    BY <1>11
  <2> DEFINE c == [call |-> "snapshot", answered |-> FALSE, first |-> None]
  <2>2. /\ v2[r].call = None /\ v2' = [v2 EXCEPT ![r] = c] /\ v3' = r /\ v6.at = "settling" /\ v6.awaits = None /\ v6' = [v6 EXCEPT !.awaits = r]
        /\ v1' = v1 /\ v4' = v4 /\ v5' = v5 /\ v7' = v7 /\ v8' = v8 /\ v9' = v9
    BY <2>1 DEF Window!Invalidate, Window!Begun, Window!Free
  <2>3. c \in Window!ReadStates /\ c.call = "snapshot" /\ ~c.answered /\ c.first = None /\ r \in Window!AllReads /\ r # "profile"
    BY DEF Window!ReadStates, Window!AllReads
  <2> HIDE DEF c
  <2>4. /\ v2' \in [Window!AllReads -> Window!ReadStates]
        /\ v2'[r] = c /\ \A o \in Window!AllReads : o # r => v2'[o] = v2[o]
    BY <2>2, <2>3 DEF Window!Domains
  <2>5. \A i \in DOMAIN v4 : v4[i].to # r /\ v4[i].to \in Window!AllReads \cup {"action"}
    <3>1. \A i \in DOMAIN v4 : v4[i] \in Window!Replies
      BY DEF Window!Domains
    <3>2. ~v2[r].answered /\ r # "action"
      BY <2>2, <2>3 DEF Window!CallsAreAnsweredOnce, Window!Free
    <3> QED
      BY <3>1, <3>2 DEF Window!CallsAreAnsweredOnce, Window!Replies
  <2>6. Window!CallsAreAnsweredOnce'
    BY <2>2, <2>3, <2>4, <2>5 DEF Window!CallsAreAnsweredOnce, Window!Free, Window!AllReads
  <2>7. v6' \in Window!Actions /\ v6'.at = "settling" /\ v6'.awaits = r /\ v6'.kind = v6.kind /\ v6'.ok = v6.ok /\ v6'.age = v6.age
    BY <2>2 DEF Window!Domains, Window!Actions, Window!AllReads
  <2>8. Window!Domains' /\ Window!AnswersAreInOrder'
    BY <2>2, <2>4, <2>7 DEF Window!Domains, Window!AnswersAreInOrder
  <2>9. Window!ChecksAreShown'
    BY <2>2, <2>7 DEF Window!ChecksAreShown, Window!Settling
  <2>10. Window!EffectIsRead'
    BY <2>2, <2>3, <2>4, <2>5, <2>7 DEF Window!EffectIsRead, Window!Free, Window!Settling
  <2> QED
    BY <2>6, <2>8, <2>9, <2>10
<1>12. CASE \E r \in Readers \cup {"profile"} : Window!Serve(r)
  <2>1. PICK r \in Window!AllReads : Window!Serve(r)
    BY <1>12 DEF Window!AllReads
  <2>2. PICK ok \in BOOLEAN : v4' = Append(v4, [to |-> r, ok |-> ok, with |-> v1'])
    BY <2>1 DEF Window!Serve, Window!Reply
  <2> DEFINE reply == [to |-> r, ok |-> ok, with |-> v1']
             c == [v2[r] EXCEPT !.answered = TRUE]
  <2>3. /\ v2[r].call # None /\ ~v2[r].answered /\ Window!MayChange /\ v2' = [v2 EXCEPT ![r] = c]
        /\ v3' = v3 /\ v5' = v5 /\ v6' = v6 /\ v7' = v7 /\ v8' = v8 /\ v9' = v9
    BY <2>1 DEF Window!Serve, Window!Free, Window!MayChange
  <2>4. v1' \in Window!Snapshots /\ v1.age \in Nat /\ v1'.age \in Nat /\ v1.age <= v1'.age
    BY <2>3, ManagerAges
  <2>5. /\ reply \in Window!Replies /\ reply.to = r /\ reply.with = v1'
        /\ c \in Window!ReadStates /\ c.call = v2[r].call /\ c.answered /\ c.first = v2[r].first
    BY <2>4 DEF Window!Replies, Window!Domains, Window!ReadStates
  <2>6. r # "action" /\ \A i \in DOMAIN v4 : v4[i].to # r
    BY <2>3 DEF Window!CallsAreAnsweredOnce, Window!AllReads
  <2>7. v4' = Append(v4, reply)
    BY <2>2
  <2> HIDE DEF reply, c
  <2>8. /\ v4' \in Seq(Window!Replies) /\ Window!AnswersAreInOrder'
        /\ DOMAIN v4' = DOMAIN v4 \cup {Len(v4) + 1}
        /\ v4'[Len(v4) + 1] = reply /\ \A i \in DOMAIN v4 : v4'[i] = v4[i]
        /\ \A i, j \in DOMAIN v4' : v4'[i].to = v4'[j].to => i = j
    BY <2>3, <2>5, <2>6, <2>7, AnswerIsNewest
  <2>9. /\ v2' \in [Window!AllReads -> Window!ReadStates]
        /\ v2'[r] = c /\ \A o \in Window!AllReads : o # r => v2'[o] = v2[o]
    BY <2>3, <2>5 DEF Window!Domains
  <2>10. Window!Domains'
    BY <2>3, <2>4, <2>8, <2>9 DEF Window!Domains
  <2>11. Window!CallsAreAnsweredOnce'
    <3>1. ASSUME NEW i \in DOMAIN v4'
          PROVE  IF v4'[i].to = "action" THEN v6'.at = "answered" ELSE v2'[v4'[i].to].answered
      <4>1. CASE i \in DOMAIN v4
        <5>1. v4[i] \in Window!Replies /\ v4'[i] = v4[i]
          BY <2>8, <4>1 DEF Window!Domains
        <5> QED
          BY <2>3, <2>5, <2>9, <4>1, <5>1 DEF Window!CallsAreAnsweredOnce, Window!Replies
      <4>2. CASE i = Len(v4) + 1
        BY <2>5, <2>6, <2>8, <2>9, <4>2
      <4> QED
        BY <2>8, <4>1, <4>2
    <3> QED
      BY <2>3, <2>5, <2>8, <2>9, <3>1 DEF Window!CallsAreAnsweredOnce, Window!Free, Window!AllReads
  <2>12. Window!EffectIsRead'
    BY <2>3, <2>4, <2>5, <2>8, <2>9 DEF Window!EffectIsRead, Window!Free, Window!AllReads, Window!Settling,
        Window!Domains, Window!Actions
  <2>13. Window!ChecksAreShown'
    BY <2>3 DEF Window!ChecksAreShown
  <2> QED
    BY <2>8, <2>10, <2>11, <2>12, <2>13
<1>13. CASE \E r \in Readers \cup {"profile"} : Window!Receive(r)
  <2>1. PICK r \in Window!AllReads : Window!Receive(r)
    BY <1>13 DEF Window!AllReads
  <2> DEFINE answer == Head(v4)
             s == answer.with
             next == IF answer.ok THEN Window!Follows(v2[r].call, s) ELSE None
             c == IF next = None THEN Window!Idle
                  ELSE [call |-> next, answered |-> FALSE, first |-> IF v2[r].first = None THEN s ELSE v2[r].first]
             a == [v6 EXCEPT !.awaits = IF answer.ok THEN "told" ELSE "failed"]
  <2>2. /\ v4 # <<>> /\ answer.to = r /\ v4' = Tail(v4) /\ v1' = v1 /\ v7' = v7 /\ v8' = v8 /\ v9' = v9
        /\ v2' = [v2 EXCEPT ![r] = c]
        /\ v3' = (IF v3 = r /\ next = None THEN None ELSE v3)
        /\ v5' = (IF answer.ok /\ next = None /\ v3 = r THEN s ELSE IF answer.ok /\ v2[r].call # "tools" THEN s ELSE v5)
        /\ v6' = (IF v6.awaits = r /\ next = None THEN a ELSE v6)
    BY <2>1 DEF Window!Receive, Window!Result
  <2>3. v5' = v5 \/ v5' = Head(v4).with
    BY <2>2
  <2>4. /\ answer \in Window!Replies /\ answer = v4[1] /\ 1 \in DOMAIN v4
        /\ s \in Window!Snapshots /\ s.age \in Nat /\ s.age <= v1.age
        /\ v5 # None => v5.age <= s.age
        /\ v4' \in Seq(Window!Replies) /\ Window!AnswersAreInOrder'
        /\ \A i \in DOMAIN v4' : i + 1 \in DOMAIN v4 /\ v4'[i] = v4[i + 1] /\ v4'[i].to # r
        /\ \A i, j \in DOMAIN v4' : v4'[i].to = v4'[j].to => i = j
    BY <2>2, <2>3, AnswerIsOldest
  <2>5. /\ next \in {None, "poll", "tools"} /\ s # None
        /\ v2[r].call = "tools" => next = None
    BY <2>4 DEF Window!Follows
  <2>6. /\ v2[r] \in Window!ReadStates /\ v2[r].answered /\ v2[r].call # None /\ r # "action" /\ v6 \in Window!Actions
        /\ v2[r].call # "snapshot" => v2[r].first # None
    BY <2>2, <2>4 DEF Window!Domains, Window!CallsAreAnsweredOnce, Window!AllReads, Window!Free, Window!ReadStates
  <2>7. /\ c \in Window!ReadStates /\ ~c.answered /\ (c.call = None <=> next = None)
        /\ c.call \in {"poll", "tools"} => c.first # None
        /\ c.first # None => next # None
    <3>1. CASE next = None
      BY <3>1 DEF Window!Idle, Window!ReadStates
    <3>2. CASE next # None
      <4> DEFINE f == IF v2[r].first = None THEN s ELSE v2[r].first
      <4>1. f \in Window!Snapshots /\ f # None
        BY <2>4, <2>5, <2>6 DEF Window!ReadStates
      <4>2. c = [call |-> next, answered |-> FALSE, first |-> f]
        BY <3>2
      <4> HIDE DEF f, next, c, s
      <4> QED
        BY <2>5, <3>2, <4>1, <4>2 DEF Window!ReadStates
    <3> QED
      BY <3>1, <3>2
  <2>8. /\ a \in Window!Actions /\ a.at = v6.at /\ a.kind = v6.kind /\ a.ok = v6.ok /\ a.age = v6.age
        /\ a.awaits = IF answer.ok THEN "told" ELSE "failed"
    BY <2>6 DEF Window!Actions
  <2> HIDE DEF answer, s, next, c, a
  <2>9. /\ v2' \in [Window!AllReads -> Window!ReadStates]
        /\ v2'[r] = c /\ \A o \in Window!AllReads : o # r => v2'[o] = v2[o]
    BY <2>2, <2>7 DEF Window!Domains
  <2>10. /\ v6' \in Window!Actions /\ v6'.at = v6.at /\ v6'.kind = v6.kind /\ v6'.ok = v6.ok /\ v6'.age = v6.age
         /\ v6'.awaits = v6.awaits \/ (v6.awaits = r /\ next = None /\ v6'.awaits = a.awaits)
    BY <2>2, <2>6, <2>8
  <2>11. v5' \in {None} \cup Window!Snapshots /\ (v5 # None => v5' # None /\ v5'.age \in Nat /\ v5.age <= v5'.age)
    BY <2>2, <2>4, <2>5 DEF Window!Domains, Window!Snapshots
  <2>12. Window!Domains'
    BY <2>2, <2>4, <2>9, <2>10, <2>11 DEF Window!Domains
  <2>13. \A i \in DOMAIN v4' : v4'[i].to \in Window!AllReads \cup {"action"}
    <3>1. \A i \in DOMAIN v4' : v4'[i] \in Window!Replies
      BY <2>4
    <3> QED
      BY <3>1 DEF Window!Replies
  <2>14. Window!CallsAreAnsweredOnce'
    <3>1. ASSUME NEW i \in DOMAIN v4'
          PROVE  IF v4'[i].to = "action" THEN v6'.at = "answered" ELSE v2'[v4'[i].to].answered
      BY <2>4, <2>9, <2>10, <2>13 DEF Window!CallsAreAnsweredOnce
    <3>2. ~Window!Free("profile")' => v6'.at = "reading" /\ v6'.awaits = "profile"
      <4>1. CASE r = "profile"
        BY <2>2, <2>6, <2>7, <2>9, <4>1 DEF Window!CallsAreAnsweredOnce, Window!Free, Window!AllReads
      <4>2. CASE r # "profile"
        BY <2>9, <2>10, <4>2 DEF Window!CallsAreAnsweredOnce, Window!Free, Window!AllReads
      <4> QED
        BY <4>1, <4>2
    <3>3. \A o \in Window!AllReads : /\ Window!Free(o)' => ~v2'[o].answered
                                     /\ v2'[o].call \in {"poll", "tools"} => v2'[o].first # None
      BY <2>7, <2>9 DEF Window!CallsAreAnsweredOnce, Window!Free
    <3> QED
      BY <2>4, <3>1, <3>2, <3>3 DEF Window!CallsAreAnsweredOnce
  <2>15. Window!ChecksAreShown'
    BY <2>2, <2>10 DEF Window!ChecksAreShown, Window!Settling
  <2>16. Window!EffectIsRead'
    <3>1. v6'.at # None => v5' # None
      BY <2>10, <2>11 DEF Window!EffectIsRead
    <3>2. Window!Settling(v6') => v6'.age <= v1'.age
      BY <2>2, <2>10 DEF Window!EffectIsRead, Window!Settling
    <3>3. v9' > 0 => v5' # None /\ v5'.age >= v9'
      BY <2>2, <2>11 DEF Window!EffectIsRead, Window!Domains, Window!Snapshots
    <3>4. ASSUME Window!Settling(v6)
          PROVE  v5 # None /\ v5' # None /\ v5.age \in Nat /\ v5'.age \in Nat /\ v5.age <= v5'.age /\ v6.age \in Nat
      BY <2>6, <2>11, <3>4 DEF Window!EffectIsRead, Window!Settling, Window!Domains, Window!Snapshots, Window!Actions
    <3>5. ASSUME Window!Settling(v6), v6.awaits = r
          PROVE  r \in Readers /\ s.age >= v6.age /\ (v2[r].first # None => v5.age >= v6.age)
      <4>1. r # "profile"
        BY <2>6, <3>5 DEF Window!CallsAreAnsweredOnce, Window!Free, Window!Settling, Window!AllReads
      <4>2. r \in Readers
        BY <4>1 DEF Window!AllReads
      <4> QED
        BY <2>2, <2>4, <3>5, <4>2 DEF Window!EffectIsRead, answer, s
    <3>6. ASSUME Window!Settling(v6), v6.awaits = r, answer.ok
          PROVE  v5'.age >= v6.age
      BY <2>2, <2>4, <2>6, <3>4, <3>5, <3>6
    <3>7. Window!Settling(v6') /\ v6'.awaits = "told" => v5'.age >= v6'.age
      <4>1. CASE v6.awaits = "told"
        BY <2>10, <3>4, <4>1 DEF Window!EffectIsRead, Window!Settling
      <4>2. CASE v6.awaits # "told"
        BY <2>8, <2>10, <3>6, <4>2 DEF Window!Settling
      <4> QED
        BY <4>1, <4>2
    <3>8. ASSUME NEW o \in Readers, Window!Settling(v6'), v6'.awaits = o
          PROVE  /\ ~Window!Free(o)'
                 /\ \A i \in DOMAIN v4' : v4'[i].to = o => v4'[i].with.age >= v6'.age
                 /\ v2'[o].first # None => v5'.age >= v6'.age
      <4>1. v6.awaits = o /\ Window!Settling(v6) /\ v6'.age = v6.age /\ o \in Window!AllReads
        BY <2>8, <2>10, <3>8 DEF Window!Settling, Window!AllReads
      <4>2. CASE o = r
        <5>1. next # None
          BY <2>2, <2>8, <3>8, <4>1, <4>2
        <5>2. answer.ok
          BY <5>1 DEF next
        <5> QED
          BY <2>4, <2>7, <2>9, <3>6, <4>1, <4>2, <5>1, <5>2 DEF Window!Free
      <4>3. CASE o # r
        BY <2>4, <2>9, <3>4, <4>1, <4>3 DEF Window!EffectIsRead, Window!Free
      <4> QED
        BY <4>2, <4>3
    <3> QED
      BY <3>1, <3>2, <3>3, <3>7, <3>8 DEF Window!EffectIsRead
  <2> QED
    BY <2>4, <2>12, <2>14, <2>15, <2>16
<1>14. CASE UNCHANGED Window!windowVars
  BY <1>14 DEF Window!windowVars, Window!Domains, Window!AnswersAreInOrder, Window!CallsAreAnsweredOnce,
         Window!Free, Window!EffectIsRead, Window!Settling, Window!ChecksAreShown
<1> QED
  BY <1>1, <1>2, <1>3, <1>4, <1>5, <1>6, <1>7, <1>8, <1>9, <1>10, <1>11, <1>12, <1>13, <1>14 DEF Window!Next

\* What an action did is shown once it is over, and a check is shown as failed if it failed, for
\* any projects and reads and however the reads overlap, where the names differ.
THEOREM WindowFollows ==
  ASSUME Readers \cap {"profile", "action", "told", "failed"} = {},
         None \notin Readers \cup {"profile", "action", "told", "failed", "snapshot", "poll", "tools"},
         None \notin {"sent", "answered", "reading", "settling"} \cup Window!Snapshots
  PROVE  PartsSpec => []WindowFollowsTheManager
<1>1. PartsInit /\ part = "window" => Window!Init
  BY DEF PartsInit
<1>2. [PartsNext]_all /\ part = "window" => [Window!Next]_(Window!windowVars)
  BY DEF PartsNext, all, Window!windowVars
<1>3. [PartsNext]_all => (part = "window" <=> (part = "window")')
  BY PartStays
<1>4. WindowInv => Window!ActionsAreShown /\ Window!FailuresAreOfTheLastCheck
  BY DEF WindowInv, Window!EffectIsRead, Window!ChecksAreShown, Window!ActionsAreShown,
         Window!FailuresAreOfTheLastCheck
<1>5. (part = "window" => WindowInv) => WindowFollowsTheManager
  BY <1>4 DEF WindowFollowsTheManager
<1> QED
  BY <1>1, <1>2, <1>3, <1>5, WindowInit, WindowStep, PTL DEF PartsSpec
-----------------------------------------------------------------------------
(***************************************************************************)
(* What no step takes back: WhatWasToldStands, step by step.               *)
(***************************************************************************)
\* A sign-in that forgets an installation has read the identity before another wrote it.
LEMMA InstallationIsKept == EntryInv /\ [Entry!Next]_(Entry!signInVars) => Entry!InstallationStep
<1> SUFFICES ASSUME EntryInv, [Entry!Next]_(Entry!signInVars),
                    NEW k \in Entry!Kinds, NEW i \in DOMAIN v9[k], v9[k][i], ~v9'[k][i]
             PROVE  \E t \in v10 : v1[t].at = "update" /\ v1[t].row = i
  BY DEF Entry!InstallationStep
<1>1. v9 \in [Entry!Kinds -> Seq(BOOLEAN)] /\ v1 \in [Tabs -> Entry!TabStates]
  BY DEF EntryInv, Entry!Domains
<1>2. \E t \in Tabs : Entry!UpdateIdentity(t) \/ Entry!CreateIdentity(t)
  BY DEF Entry!Next, Entry!signInVars, Entry!StartDeveloper, Entry!StartPm, Entry!PostToken, Entry!Arrive,
         Entry!Callback, Entry!IdentifyDeveloper, Entry!IdentifyPm, Entry!FailIdentify, Entry!Install,
         Entry!ContinueDeveloper, Entry!FindIdentity, Entry!FindByEmail, Entry!CreateUser, Entry!Lapse,
         Entry!Uninstall, Entry!Invite
<1>3. PICK t \in Tabs : Entry!UpdateIdentity(t) \/ Entry!CreateIdentity(t)
  BY <1>2
<1>4. v1[t].kind \in Entry!Kinds
  BY <1>1 DEF Entry!TabStates
<1>5. CASE Entry!CreateIdentity(t)
  <2>1. PICK told \in {TRUE, FALSE} : v9' = v9 \/ v9' = [v9 EXCEPT ![v1[t].kind] = Append(@, told)]
    BY <1>1, <1>5 DEF Entry!CreateIdentity, Entry!TabStates
  <2>2. v9'[k] = v9[k] \/ v9'[k] = Append(v9[k], told)
    BY <1>1, <1>4, <2>1
  <2>3. v9'[k][i] = v9[k][i]
    BY <1>1, <2>2
  <2> QED
    BY <2>3
<1>6. CASE Entry!UpdateIdentity(t)
  <2>1. v1[t].at = "update" /\ v9' = [v9 EXCEPT ![v1[t].kind][v1[t].row] = Entry!Merged(t)]
    BY <1>6 DEF Entry!UpdateIdentity
  <2>2. v1[t].kind = k /\ v1[t].row = i
    BY <1>1, <1>4, <2>1
  <2>3. v9'[k][i] = Entry!Merged(t)
    BY <1>1, <2>1, <2>2
  <2>4. ~v1[t].known
    BY <2>3 DEF Entry!Merged
  <2>5. t \in v10
    BY <2>1, <2>2, <2>4 DEF EntryInv, Entry!ReadsStand, Entry!Stands
  <2> QED
    BY <2>1, <2>2, <2>5
<1> QED
  BY <1>3, <1>5, <1>6

\* A dialog is its captures and whether it was written in.
DialogInv == v9 # None => v9 = [captures |-> v9.captures, edited |-> v9.edited]

LEMMA DialogInit == Composer!Init => DialogInv
BY DEF Composer!Init, DialogInv

\* No capture that becomes ready changes an open dialog.
LEMMA DialogIsKept ==
  DialogInv /\ [Composer!Next]_(Composer!composerVars) => DialogInv' /\ Composer!EditStep
<1> SUFFICES ASSUME DialogInv, [Composer!Next]_(Composer!composerVars)
             PROVE  DialogInv' /\ Composer!EditStep
  OBVIOUS
<1>1. \/ v9' = v9 \/ v9' = None
      \/ \E captures : v9' = Composer!Opened(captures)
      \/ v9 # None /\ v9' = [v9 EXCEPT !.edited = TRUE]
  BY DEF Composer!Next, Composer!composerVars, Composer!dialogVars, Composer!Change, Composer!AskList,
         Composer!ServeList, Composer!EndList, Composer!FailList, Composer!Pick, Composer!OpenChooser,
         Composer!Choose, Composer!StoreImport, Composer!ImportElsewhere, Composer!EndImport,
         Composer!FailImport, Composer!OpenDialog, Composer!OpenReviewDialog, Composer!Attach,
         Composer!EndAttach, Composer!FailAttach, Composer!Edit, Composer!CloseDialog, Composer!Submit,
         Composer!EndSubmit
<1>2. CASE v9' = v9 \/ v9' = None
  BY <1>2 DEF DialogInv, Composer!EditStep
<1>3. CASE \E captures : v9' = Composer!Opened(captures)
  <2>1. PICK captures : v9' = Composer!Opened(captures)
    BY <1>3
  <2>2. v9' = IF v9 = None THEN [captures |-> captures, edited |-> FALSE] ELSE v9
    BY <2>1 DEF Composer!Opened
  <2>3. CASE v9 = None
    <3>1. v9' = [captures |-> captures, edited |-> FALSE]
      BY <2>2, <2>3
    <3>2. v9'.captures = captures /\ v9'.edited = FALSE
      BY <3>1
    <3>3. DialogInv'
      BY <3>1, <3>2 DEF DialogInv
    <3> QED
      BY <2>3, <3>3 DEF Composer!EditStep
  <2>4. CASE v9 # None
    BY <2>2, <2>4 DEF DialogInv, Composer!EditStep
  <2> QED
    BY <2>3, <2>4
<1>4. CASE v9 # None /\ v9' = [v9 EXCEPT !.edited = TRUE]
  BY <1>4 DEF DialogInv, Composer!EditStep
<1> QED
  BY <1>1, <1>2, <1>3, <1>4

\* No read shows an older state of the manager.
LEMMA ShownIsKept ==
  ASSUME None \notin Window!Snapshots
  PROVE  WindowInv /\ [Window!Next]_(Window!windowVars) => Window!ShownStep
<1> SUFFICES ASSUME WindowInv, [Window!Next]_(Window!windowVars), v5 # None
             PROVE  v5' # None /\ v5'.age >= v5.age
  BY DEF Window!ShownStep
<1>1. v5.age \in Nat
  BY DEF WindowInv, Window!Domains, Window!Snapshots
<1>2. v5' = v5 \/ \E r \in Window!AllReads : Window!Receive(r)
  BY DEF Window!Next, Window!windowVars, Window!Change, Window!ServeAction, Window!Act,
         Window!RetryInitialization, Window!ReadProfile, Window!EndCall, Window!EndProfile, Window!Settle,
         Window!Check, Window!StartRead, Window!Invalidate, Window!Serve, Window!Run, Window!AllReads
<1>3. CASE v5' = v5
  BY <1>1, <1>3
<1>4. CASE \E r \in Window!AllReads : Window!Receive(r)
  <2>1. v4 # <<>> /\ v4' = Tail(v4) /\ v1' = v1 /\ (v5' = v5 \/ v5' = Head(v4).with)
    BY <1>4 DEF Window!Receive, Window!Result
  <2>2. Head(v4).with \in Window!Snapshots /\ Head(v4).with.age \in Nat /\ v5.age <= Head(v4).with.age
    BY <2>1, AnswerIsOldest
  <2> QED
    BY <1>1, <2>1, <2>2
<1> QED
  BY <1>2, <1>3, <1>4

\* What was told stands, for any handlers, tabs, dialogs, files, sessions and reads: a closed
\* session is not put back to work, an installation is not forgotten, a participant's words
\* are not replaced, a turn is reported as it was but for the files whose names git quotes,
\* a preview is ready only while it runs or once a signal ended it, and what is shown does not age.
THEOREM ToldStands ==
  ASSUME None \notin {"unchanged", "checked"},
         None \notin Process!Groups \cup Process!Refs, Other \notin Sessions,
         Readers \cap {"profile", "action", "told", "failed"} = {},
         None \notin Readers \cup {"profile", "action", "told", "failed", "snapshot", "poll", "tools"},
         None \notin {"sent", "answered", "reading", "settling"} \cup Window!Snapshots
  PROVE  PartsSpec => WhatWasToldStands
<1>1. PartsSpec => [][part = "rows" => Rows!ClosedStep]_all
  <2>1. RowsProved!Spec => [][RowsProved!ClosedStep]_(RowsProved!vars)
    BY RowsProved!ClosedSafety DEF RowsProved!ClosedNeverResumesWork
  <2>2. (part = "rows" => [RowsProved!ClosedStep]_(RowsProved!vars)) => (part = "rows" => Rows!ClosedStep)
    BY DEF RowsProved!ClosedStep, Rows!ClosedStep, RowsProved!vars
  <2>3. [PartsNext]_all => (part = "rows" <=> (part = "rows")')
    BY PartStays
  <2> QED
    BY <2>1, <2>2, <2>3, RowsPart, PTL DEF PartsSpec, RowsProved!Spec
<1>2. PartsSpec => [][part = "changes" => Changes!UnchangedStep]_all
  <2>1. Changes!ChangesSpec => [][Changes!UnchangedStep]_(Changes!changesVars)
    BY UnchangedTurnsChangeNothing
  <2>2. (part = "changes" => [Changes!UnchangedStep]_(Changes!changesVars))
          => (part = "changes" => Changes!UnchangedStep)
    BY DEF Changes!UnchangedStep, Changes!changesVars
  <2>3. [PartsNext]_all => (part = "changes" <=> (part = "changes")')
    BY PartStays
  <2> QED
    BY <2>1, <2>2, <2>3, ChangesPart, PTL DEF PartsSpec, Changes!ChangesSpec
<1>3. PartsSpec => [][part = "changes" => Changes!CheckedStep]_all
  <2>1. Changes!ChangesSpec => [][Changes!CheckedStep]_(Changes!changesVars)
    BY ReportedChecksAreOfTheFiles
  <2>2. (part = "changes" => [Changes!CheckedStep]_(Changes!changesVars))
          => (part = "changes" => Changes!CheckedStep)
    BY DEF Changes!CheckedStep, Changes!changesVars
  <2>3. [PartsNext]_all => (part = "changes" <=> (part = "changes")')
    BY PartStays
  <2> QED
    BY <2>1, <2>2, <2>3, ChangesPart, PTL DEF PartsSpec, Changes!ChangesSpec
<1>4. PartsSpec => [][part = "signIn" => Entry!InstallationStep]_all
  <2>1. PartsInit /\ part = "signIn" => Entry!Init
    BY DEF PartsInit
  <2>2. [PartsNext]_all /\ part = "signIn" => [Entry!Next]_(Entry!signInVars)
    BY DEF PartsNext, all, Entry!signInVars
  <2>3. [PartsNext]_all => (part = "signIn" <=> (part = "signIn")')
    BY PartStays
  <2>4. EntryInv /\ [Entry!Next]_(Entry!signInVars) => EntryInv' /\ Entry!InstallationStep
    BY EntryStep, InstallationIsKept
  <2> QED
    BY <2>1, <2>2, <2>3, <2>4, EntryInit, PTL DEF PartsSpec
<1>5. PartsSpec => [][part = "composer" => Composer!EditStep]_all
  <2>1. PartsInit /\ part = "composer" => Composer!Init
    BY DEF PartsInit
  <2>2. [PartsNext]_all /\ part = "composer" => [Composer!Next]_(Composer!composerVars)
    BY DEF PartsNext, all, Composer!composerVars
  <2>3. [PartsNext]_all => (part = "composer" <=> (part = "composer")')
    BY PartStays
  <2>4. DialogInv /\ [Composer!Next]_(Composer!composerVars) => DialogInv' /\ Composer!EditStep
    BY DialogIsKept
  <2> QED
    BY <2>1, <2>2, <2>3, <2>4, DialogInit, PTL DEF PartsSpec
<1>6. PartsSpec => [][part = "process" => Process!ReadyStep]_all
  <2>1. PartsInit /\ part = "process" => Process!Init
    BY DEF PartsInit
  <2>2. [PartsNext]_all /\ part = "process" => [Process!Next]_(Process!vars)
    BY DEF PartsNext, all, Process!vars
  <2>3. [PartsNext]_all => (part = "process" <=> (part = "process")')
    BY PartStays
  <2>4. ProcessInv /\ [Process!Next]_(Process!vars) => ProcessInv' /\ Process!ReadyStep
    BY ProcessStep, ProcessReadyStep
  <2> QED
    BY <2>1, <2>2, <2>3, <2>4, ProcessInit, PTL DEF PartsSpec
<1>7. PartsSpec => [][part = "window" => Window!ShownStep]_all
  <2>1. PartsInit /\ part = "window" => Window!Init
    BY DEF PartsInit
  <2>2. [PartsNext]_all /\ part = "window" => [Window!Next]_(Window!windowVars)
    BY DEF PartsNext, all, Window!windowVars
  <2>3. [PartsNext]_all => (part = "window" <=> (part = "window")')
    BY PartStays
  <2>4. WindowInv /\ [Window!Next]_(Window!windowVars) => WindowInv' /\ Window!ShownStep
    BY WindowStep, ShownIsKept
  <2> QED
    BY <2>1, <2>2, <2>3, <2>4, WindowInit, PTL DEF PartsSpec
<1> QED
  BY <1>1, <1>2, <1>3, <1>4, <1>5, <1>6, <1>7, PTL DEF WhatWasToldStands
=============================================================================
