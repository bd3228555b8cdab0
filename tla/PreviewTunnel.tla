---------------------------- MODULE PreviewTunnel ----------------------------
(***************************************************************************)
(* The public tunnel of one session's preview: CloudflarePreviewTunnel-     *)
(* Adapter inside InstrumentedPreviewTunnelAdapter.  The tunnel is a        *)
(* container with a name of the session's own, run by a docker client that *)
(* the adapter watches; before it stands a proxy of the agent's process.   *)
(* A session opens its tunnel, closes it, and after a restart closes the   *)
(* restored one before it opens another (SessionRunner.rebuildPreview).    *)
(***************************************************************************)
EXTENDS Naturals

CONSTANTS
  None,
  MaxOpens,    \* bound: tunnels opened
  MaxRestarts  \* bound: restarts of the agent

MaxAttempts == 2

VARIABLES
  box,      \* the container with the session's tunnel name: its run, and whether it is told to stop
  client,   \* the docker client of the last run: "none", "runs" or "gone"; and whether it was killed
  run,      \* docker runs so far
  phase,    \* where the session's operation is
  attempt,  \* the attempts this opening has made
  printed,  \* what the output of the last run shows: "nothing", "whole", or "split" between two chunks
  proxy,    \* the instrumentation proxy listens
  known,    \* the adapters' maps have the reference
  threw,    \* a close could not run docker at all
  opens, crashes

vars == <<box, client, run, phase, attempt, printed, proxy, known, threw, opens, crashes>>

Init ==
  /\ box = None
  /\ client = [state |-> "none", killed |-> FALSE]
  /\ run = 0
  /\ phase = "idle"
  /\ attempt = 0
  /\ printed = "nothing"
  /\ proxy = FALSE
  /\ known = FALSE
  /\ threw = FALSE
  /\ opens = 0
  /\ crashes = 0

Mine == box # None /\ box.run = run
Told(b) == IF b = None THEN None ELSE [b EXCEPT !.told = TRUE]
-----------------------------------------------------------------------------
(***************************************************************************)
(* Opening.                                                                *)
(***************************************************************************)
\* startPreviewPickerProxy listens on a port of its own before anything else.
Open ==
  /\ phase = "idle" /\ opens < MaxOpens
  /\ opens' = opens + 1
  /\ proxy' = TRUE
  /\ attempt' = 0
  /\ phase' = "spawn"
  /\ UNCHANGED <<box, client, run, printed, known, threw, crashes>>

\* docker run: refused while another container has the name.
Spawn ==
  /\ phase = "spawn"
  /\ run' = run + 1
  /\ \/ /\ box = None
        /\ box' = [run |-> run + 1, told |-> FALSE]
        /\ client' = [state |-> "runs", killed |-> FALSE]
     \/ /\ client' = [state |-> "gone", killed |-> FALSE]
        /\ box' = box
  /\ printed' = "nothing"
  /\ attempt' = attempt + 1
  /\ phase' = "url"
  /\ UNCHANGED <<proxy, known, threw, opens, crashes>>

\* External: cloudflared prints its address, in one chunk or across two.
PrintsUrl ==
  /\ Mine /\ client.state = "runs" /\ printed = "nothing"
  /\ printed' \in {"whole", "split"}
  /\ UNCHANGED <<box, client, run, phase, attempt, proxy, known, threw, opens, crashes>>

\* waitForPublicUrl looks for the address in each chunk by itself.
SeeUrl ==
  /\ phase = "url" /\ printed = "whole"
  /\ phase' = "reach"
  /\ UNCHANGED <<box, client, run, attempt, printed, proxy, known, threw, opens, crashes>>

\* waitUntilPublicUrlReady: the address resolves and answers, through the tunnel.
Reach ==
  /\ phase = "reach" /\ Mine
  /\ known' = TRUE
  /\ phase' = "open"
  /\ UNCHANGED <<box, client, run, attempt, printed, proxy, threw, opens, crashes>>

\* The time is up or the client exited: a client that lives gets SIGTERM, which
\* it passes on to its container.
Terminate ==
  /\ phase \in {"url", "reach"}
  /\ IF client.state = "runs"
       THEN client' = [client EXCEPT !.killed = TRUE] /\ box' = IF Mine THEN Told(box) ELSE box
       ELSE client' = client /\ box' = box
  /\ phase' = "grace"
  /\ UNCHANGED <<run, attempt, printed, proxy, known, threw, opens, crashes>>

\* The client exited or two seconds went by; killed is set by the SIGTERM itself,
\* so no SIGKILL follows.
Retry ==
  /\ phase = "grace"
  /\ phase' = IF attempt < MaxAttempts THEN "spawn" ELSE "giveUp"
  /\ UNCHANGED <<box, client, run, attempt, printed, proxy, known, threw, opens, crashes>>

\* Mutant of GiveUp: the proxy of a tunnel that was never opened listens on.
GiveUpButListen ==
  /\ phase = "giveUp"
  /\ phase' = "failed"
  /\ UNCHANGED <<box, client, run, attempt, printed, proxy, known, threw, opens, crashes>>

GiveUp ==
  /\ phase = "giveUp"
  /\ proxy' = FALSE
  /\ phase' = "failed"
  /\ UNCHANGED <<box, client, run, attempt, printed, known, threw, opens, crashes>>
-----------------------------------------------------------------------------
(***************************************************************************)
(* Closing.                                                                *)
(***************************************************************************)
\* docker stop, waited for five seconds; its outcome is not looked at.  If docker
\* cannot be run, close throws before it comes to the client.
DockerStop ==
  /\ phase \in {"open", "restored"}
  /\ \/ box' \in {box, Told(box)} /\ threw' = threw /\ phase' = "kill"
     \/ box' = box /\ threw' = TRUE /\ phase' = "closeProxy"
  /\ UNCHANGED <<client, run, attempt, printed, proxy, known, opens, crashes>>

\* A client of this process that still runs gets SIGTERM.
KillClient ==
  /\ phase = "kill"
  /\ IF known /\ client = [state |-> "runs", killed |-> FALSE]
       THEN client' = [client EXCEPT !.killed = TRUE] /\ box' = Told(box)
       ELSE client' = client /\ box' = box
  /\ phase' = "closeProxy"
  /\ UNCHANGED <<run, attempt, printed, proxy, known, threw, opens, crashes>>

\* Whatever the tunnel's close threw, the proxy is closed and forgotten.
CloseProxy ==
  /\ phase = "closeProxy"
  /\ proxy' = IF known THEN FALSE ELSE proxy
  /\ known' = FALSE
  /\ phase' = "idle"
  /\ UNCHANGED <<box, client, run, attempt, printed, threw, opens, crashes>>
-----------------------------------------------------------------------------
\* External: a container that was told to stop does, or ends by itself.
Heed ==
  /\ box # None /\ box.told
  /\ box' = None
  /\ client' = IF Mine /\ client.state = "runs" THEN [client EXCEPT !.state = "gone"] ELSE client
  /\ UNCHANGED <<run, phase, attempt, printed, proxy, known, threw, opens, crashes>>

Die ==
  /\ box # None /\ ~box.told
  /\ box' = None
  /\ client' = IF Mine /\ client.state = "runs" THEN [client EXCEPT !.state = "gone"] ELSE client
  /\ UNCHANGED <<run, phase, attempt, printed, proxy, known, threw, opens, crashes>>

\* The proxy, the maps and the clients' handles are the process's own; the session
\* keeps the reference if its record had it.
Restart ==
  /\ crashes < MaxRestarts
  /\ crashes' = crashes + 1
  /\ proxy' = FALSE /\ known' = FALSE
  /\ client' = [state |-> "none", killed |-> FALSE]
  /\ phase' = IF phase \in {"open", "restored", "kill", "closeProxy"} THEN "restored" ELSE "idle"
  /\ UNCHANGED <<box, run, attempt, printed, threw, opens>>

Progress == Spawn \/ SeeUrl \/ Reach \/ Terminate \/ Retry \/ GiveUp \/ KillClient \/ CloseProxy

Next == Open \/ PrintsUrl \/ DockerStop \/ Heed \/ Die \/ Restart \/ Progress

\* Every wait of the adapter has a time limit, and a container told to stop stops.
Fairness == WF_vars(Progress) /\ WF_vars(Heed)

Spec == Init /\ [][Next]_vars /\ Fairness
-----------------------------------------------------------------------------
TypeOK ==
  /\ box = None \/ box.run \in 1..run
  /\ attempt <= MaxAttempts
  /\ run <= MaxAttempts * opens
  /\ phase \in {"url", "reach", "open"} => attempt > 0
  /\ phase = "open" => known

\* While a tunnel is published, the proxy its container forwards to listens: a
\* proxy is closed with its own tunnel only, and the proxies are closed of those
\* that were not opened (InstrumentedPreviewTunnelAdapter).
TunnelsHaveTheirProxy ==
  /\ phase = "open" => proxy
  /\ phase \in {"idle", "failed", "restored"} => ~proxy

\* An opening that failed and a close leave no tunnel that nobody told to stop,
\* although an attempt is ended by SIGTERM alone, the second attempt may find the
\* name taken and docker's outcome is ignored; a restart, which forgets the
\* clients, and a close that could not run docker do leave one.
NothingIsLeftRunning ==
  phase \in {"failed", "idle"} /\ crashes = 0 /\ ~threw /\ box # None => box.told

\* An opening comes to an end, with a tunnel or without.
OpeningEnds == phase = "spawn" ~> phase \in {"open", "failed", "restored", "idle"}
-----------------------------------------------------------------------------
(***************************************************************************)
(* What the proofs rest on.                                                *)
(***************************************************************************)
Phases == {"idle", "spawn", "url", "reach", "grace", "giveUp", "failed", "open", "restored", "kill", "closeProxy"}

Boxes == [run : Nat, told : BOOLEAN]
Clients == [state : {"none", "runs", "gone"}, killed : BOOLEAN]

Domains ==
  /\ box = None \/ box \in Boxes
  /\ client \in Clients
  /\ run \in Nat /\ attempt \in Nat /\ opens \in Nat /\ crashes \in Nat
  /\ phase \in Phases
  /\ proxy \in BOOLEAN /\ known \in BOOLEAN /\ threw \in BOOLEAN

\* The attempts of an opening are counted from the runs before it.
RunsAreCounted ==
  /\ TypeOK
  /\ phase = "spawn" => attempt < MaxAttempts
  /\ phase \in {"spawn", "url", "reach", "grace"} => run + MaxAttempts <= MaxAttempts * opens + attempt

\* The proxy listens from the opening to the close, which knows the tunnel if it does.
ProxyFollowsPhase ==
  /\ TunnelsHaveTheirProxy
  /\ phase \in {"spawn", "url", "reach", "grace"} => proxy
  /\ phase \in {"kill", "closeProxy"} => known \/ ~proxy

\* As long as the agent has not restarted and docker could be run, a container that nobody told
\* to stop is the last run's, and the client that would tell it runs and was not killed.
LooseTunnelIsHeld ==
  crashes = 0 /\ ~threw =>
    /\ phase # "restored"
    /\ phase = "kill" => known
    /\ box # None /\ ~box.told =>
         /\ Mine
         /\ client = [state |-> "runs", killed |-> FALSE]
         /\ phase \in {"url", "reach", "open", "kill"}
=============================================================================
