--------------------------- MODULE DependencyCache ---------------------------
(***************************************************************************)
(* DockerDependencyPrewarmer and the use a session makes of what it leaves: *)
(* Docker volumes with a repository's dependencies, named by a hash of its *)
(* lockfiles.  Several runtimes may have one owner: the companion of each  *)
(* session runs the same agent's configuration (PreviewCompanionManager).  *)
(* A volume is known by the version of the lockfiles that was hashed.      *)
(***************************************************************************)
EXTENDS Naturals

CONSTANTS
  CacheRuntimes,  \* the runtimes with the one owner
  LockVersions,   \* bound: versions of the repository's lockfiles, 1..n
  None

VARIABLES
  repo,        \* the version in the repository
  volume,      \* per version: "none", "raw" (root's), "owned" by the agent's user
  fill,        \* per version: what the volume holds: None, 0 in part, or the version installed
  prewarm,     \* per runtime: the stage of its prewarm
  key,         \* per runtime: the version it hashed
  cache,       \* per runtime: the version its preview configuration names, or None
  mountpoint,  \* per runtime: it made the node_modules directory
  directory,   \* the repository has node_modules: "made" by a runtime, "left" by one, or its "own"
  edited,      \* volumes filled from lockfiles that had changed since the hash
  overtaken    \* volumes removed while another runtime counted on them

vars == <<repo, volume, fill, prewarm, key, cache, mountpoint, directory, edited, overtaken>>

Init ==
  /\ repo = 1
  /\ volume = [v \in LockVersions |-> "none"]
  /\ fill = [v \in LockVersions |-> None]
  /\ prewarm = [r \in CacheRuntimes |-> "ready"]
  /\ key = [r \in CacheRuntimes |-> None]
  /\ cache = [r \in CacheRuntimes |-> None]
  /\ mountpoint = [r \in CacheRuntimes |-> FALSE]
  /\ directory = "none"
  /\ edited = {}
  /\ overtaken = {}

To(r, stage) == prewarm' = [prewarm EXCEPT ![r] = stage]

\* External: the developer changes the lockfiles, or installs in the repository.
Edit ==
  /\ repo + 1 \in LockVersions
  /\ repo' = repo + 1
  /\ UNCHANGED <<volume, fill, prewarm, key, cache, mountpoint, directory, edited, overtaken>>

Install ==
  /\ directory' = "own" /\ directory # "own"
  /\ UNCHANGED <<repo, volume, fill, prewarm, key, cache, mountpoint, edited, overtaken>>

\* createDockerDependencyCacheKey reads the lockfiles.
Hash(r) ==
  /\ prewarm[r] = "start"
  /\ key' = [key EXCEPT ![r] = repo]
  /\ To(r, "volume")
  /\ UNCHANGED <<repo, volume, fill, cache, mountpoint, directory, edited, overtaken>>

\* ensureVolume: a volume that is there is taken as it is, else it is made.
EnsureVolume(r) ==
  /\ prewarm[r] = "volume"
  /\ IF volume[key[r]] # "none"
       THEN To(r, "mountpoint") /\ volume' = volume
       ELSE To(r, "chown") /\ volume' = [volume EXCEPT ![key[r]] = "raw"]
  /\ UNCHANGED <<repo, fill, key, cache, mountpoint, directory, edited, overtaken>>

Chown(r) ==
  /\ prewarm[r] = "chown"
  /\ volume' = [volume EXCEPT ![key[r]] = "owned"]
  /\ To(r, "mountpoint")
  /\ UNCHANGED <<repo, fill, key, cache, mountpoint, directory, edited, overtaken>>

\* createMissingMountpoints: a read-only mount needs the directory to exist.
MakeMountpoint(r) ==
  /\ prewarm[r] = "mountpoint"
  /\ mountpoint' = [mountpoint EXCEPT ![r] = directory = "none"]
  /\ directory' = IF directory = "none" THEN "made" ELSE directory
  /\ To(r, "run")
  /\ UNCHANGED <<repo, volume, fill, key, cache, edited, overtaken>>

\* The prepare command empties the directory and fills it; docker makes a volume
\* that was removed in between, for root.
BeginRun(r) ==
  /\ prewarm[r] = "run"
  /\ volume' = [volume EXCEPT ![key[r]] = IF @ = "none" THEN "raw" ELSE @]
  /\ fill' = [fill EXCEPT ![key[r]] = IF volume[key[r]] = "owned" THEN 0 ELSE None]
  /\ To(r, "running")
  /\ UNCHANGED <<repo, key, cache, mountpoint, directory, edited, overtaken>>

\* A command that cannot write fails.
Run(r) ==
  /\ prewarm[r] = "running"
  /\ volume[key[r]] = "owned"
  /\ fill' = [fill EXCEPT ![key[r]] = repo]
  /\ edited' = IF repo = key[r] THEN edited ELSE edited \cup {key[r]}
  /\ To(r, "ran")
  /\ UNCHANGED <<repo, volume, key, cache, mountpoint, directory, overtaken>>

RunFails(r) ==
  /\ prewarm[r] = "running"
  /\ To(r, "failed")
  /\ UNCHANGED <<repo, volume, fill, key, cache, mountpoint, directory, edited, overtaken>>

\* removeEmptyMountpoint gives up on a directory in use, after five attempts, and on any
\* other error at once, without a word.
Removed(r) == IF mountpoint[r] /\ directory = "made" THEN {"none", "left"} ELSE {directory}

\* Mutant of RemoveMountpoint: the configuration names the volume of a failed run.
CacheAnyway(r) ==
  /\ prewarm[r] \in {"ran", "failed"}
  /\ directory' \in Removed(r)
  /\ mountpoint' = [mountpoint EXCEPT ![r] = FALSE]
  /\ cache' = [cache EXCEPT ![r] = key[r]]
  /\ To(r, IF prewarm[r] = "ran" THEN "sweep" ELSE "ready")
  /\ UNCHANGED <<repo, volume, fill, key, edited, overtaken>>

\* The directory this runtime made goes; what ran is what sessions are told of, and what
\* failed is left to cold installation.
RemoveMountpoint(r) ==
  /\ prewarm[r] \in {"ran", "failed"}
  /\ directory' \in Removed(r)
  /\ mountpoint' = [mountpoint EXCEPT ![r] = FALSE]
  /\ cache' = [cache EXCEPT ![r] = IF prewarm[r] = "ran" THEN key[r] ELSE None]
  /\ To(r, IF prewarm[r] = "ran" THEN "sweep" ELSE "ready")
  /\ UNCHANGED <<repo, volume, fill, key, edited, overtaken>>

\* A lockfile that cannot be read, a volume or its owner that cannot be set: the
\* project is left to cold installation, and nothing is swept.
PrepareFails(r) ==
  /\ prewarm[r] \in {"start", "volume", "chown", "mountpoint"}
  /\ To(r, "ready")
  /\ UNCHANGED <<repo, volume, fill, key, cache, mountpoint, directory, edited, overtaken>>

\* The owner's volumes that this prewarm does not name.
Stale(r) == {v \in LockVersions : volume[v] # "none" /\ v # key[r]}

\* removeStaleVolumes: Docker keeps those that a container uses.
Sweep(r) ==
  /\ prewarm[r] = "sweep"
  /\ \E gone \in SUBSET {v \in Stale(r) : \A o \in CacheRuntimes : prewarm[o] = "running" => key[o] # v} :
       /\ volume' = [v \in LockVersions |-> IF v \in gone THEN "none" ELSE volume[v]]
       /\ fill' = [v \in LockVersions |-> IF v \in gone THEN None ELSE fill[v]]
       /\ overtaken' = overtaken \cup {v \in gone : \E o \in CacheRuntimes \ {r} : key[o] = v}
  /\ To(r, "ready")
  /\ UNCHANGED <<repo, key, cache, mountpoint, directory, edited>>

\* The volumes cannot be listed: the prewarm rejects, and the runtime does not start.
SweepFails(r) ==
  /\ prewarm[r] = "sweep"
  /\ cache' = [cache EXCEPT ![r] = None]
  /\ To(r, "rejected")
  /\ UNCHANGED <<repo, volume, fill, key, mountpoint, directory, edited, overtaken>>

Progress(r) ==
  \/ Hash(r) \/ EnsureVolume(r) \/ Chown(r) \/ MakeMountpoint(r) \/ BeginRun(r)
  \/ Run(r) \/ RunFails(r) \/ RemoveMountpoint(r) \/ PrepareFails(r) \/ Sweep(r) \/ SweepFails(r)

\* The runtime is started, for the first time or again.
Restart(r) ==
  /\ prewarm[r] \in {"ready", "rejected"}
  /\ To(r, "start")
  /\ key' = [key EXCEPT ![r] = None]
  /\ cache' = [cache EXCEPT ![r] = None]
  /\ UNCHANGED <<repo, volume, fill, mountpoint, directory, edited, overtaken>>

Next == Edit \/ Install \/ \E r \in CacheRuntimes : Progress(r) \/ Restart(r)

\* No fairness: docker runs without a time limit, and whoever starts the runtime waits.
Spec == Init /\ [][Next]_vars

\* discardStaleDependencyCache: a session of runtime r, whose worktree has the
\* lockfiles of a version, is given the volume its configuration names.
Mounts(r, version) == prewarm[r] = "ready" /\ cache[r] = version
-----------------------------------------------------------------------------
TypeOK ==
  /\ \A v \in LockVersions : fill[v] # None => volume[v] = "owned"
  /\ \A r \in CacheRuntimes : cache[r] # None => cache[r] = key[r]

\* A session's container is given a volume that a prepare command has filled, from the
\* session's own lockfiles, or one that another runtime refreshes or failed to refresh:
\* unless the lockfiles changed during the prewarm, or a runtime of the same owner
\* with other lockfiles has swept it since.
MountedVolumesFit ==
  \A r \in CacheRuntimes, v \in LockVersions :
    Mounts(r, v) /\ cache[r] \notin edited \cup overtaken => fill[cache[r]] \in {v, 0}

\* A container writes to the volume it is given, unless it was swept: a volume that
\* Docker made and nobody gave to the agent's user is never named.
MountedVolumesAreOwned ==
  \A r \in CacheRuntimes, v \in LockVersions :
    Mounts(r, v) /\ cache[r] \notin overtaken => volume[cache[r]] = "owned"

\* The repository is left without the directories a prewarm made in it, also if it
\* failed or two prewarms met, unless their removal itself failed.
RepositoryIsLeftClean ==
  directory = "made" => \E r \in CacheRuntimes : mountpoint[r]

-----------------------------------------------------------------------------
(***************************************************************************)
(* What the proofs rest on.                                                *)
(***************************************************************************)
Stages ==
  {"ready", "start", "volume", "chown", "mountpoint", "run", "running", "ran", "failed", "sweep", "rejected"}

Domains ==
  /\ repo \in LockVersions
  /\ volume \in [LockVersions -> {"none", "raw", "owned"}]
  /\ fill \in [LockVersions -> Nat \cup {None}]
  /\ prewarm \in [CacheRuntimes -> Stages]
  /\ key \in [CacheRuntimes -> LockVersions \cup {None}]
  /\ cache \in [CacheRuntimes -> LockVersions \cup {None}]
  /\ mountpoint \in [CacheRuntimes -> BOOLEAN]
  /\ directory \in {"none", "made", "left", "own"}

\* A runtime has hashed the lockfiles from there on, and names a volume from its end on.
KeysAreHashed ==
  \A r \in CacheRuntimes :
    /\ prewarm[r] \notin {"ready", "start"} => key[r] \in LockVersions
    /\ prewarm[r] \notin {"ready", "sweep"} => cache[r] = None
    /\ mountpoint[r] => prewarm[r] \in {"run", "running", "ran", "failed"}

\* Runtime r has filled volume v, and nobody has taken it away.
Filled(r, v) == (cache[r] = v \/ (prewarm[r] = "ran" /\ key[r] = v)) /\ v \notin overtaken

FilledVolumesFit ==
  \A r \in CacheRuntimes, v \in LockVersions :
    Filled(r, v) => volume[v] = "owned" /\ (v \in edited \/ fill[v] \in {v, 0})
=============================================================================
