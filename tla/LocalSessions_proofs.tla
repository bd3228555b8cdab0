-------------------------- MODULE LocalSessions_proofs --------------------------
(***************************************************************************)
(* Proofs that whatever fails, is repeated or is stopped halfway, memory,  *)
(* state file, worktrees and previews agree about every session, that no   *)
(* record goes before its worktree, and that an orderly stop leaves no     *)
(* preview and no tunnel: for any sessions and any number of starts, close *)
(* commands and faults.                                                    *)
(***************************************************************************)
EXTENDS LocalSessions, TLAPS

\* Where an operation of a kind may be.
Fits(kind, at) ==
  \/ kind = "idle" /\ at = "idle"
  \/ kind = "prepare" /\ at \in {"worktree", "register", "saving", "start", "open", "end"}
  \/ kind = "rollback" /\ at \in {"close", "stop", "saving", "remove", "forget", "end"}
  \/ kind = "close" /\ at \in {"close", "stop", "saving", "remove", "forget", "end", "cleaned"}
  \/ kind = "shutdown" /\ at \in {"close", "stop", "saving", "end"}
  \/ kind = "rebuild" /\ at \in {"close", "stop", "saving", "removed", "start", "update", "open", "rebuilt", "suspend"}
  \/ kind = "undo" /\ at \in {"close", "stop", "saving", "suspend"}
SessionKinds == {"idle", "prepare", "rollback", "close", "shutdown"}
RecoveryKinds == {"idle", "rebuild", "undo"}
Places ==
  {"idle", "worktree", "register", "saving", "start", "open", "end", "close", "stop", "remove", "forget",
   "cleaned", "removed", "update", "rebuilt", "suspend"}
FlowStates ==
  [kind : SessionKinds \cup RecoveryKinds, at : Places, ws : Workspace, failed : BOOLEAN, deaf : BOOLEAN]
Saves ==
  [flow : Flows, session : Sessions, kind : {"register", "update", "unregister"}, ok : Places, failure : Places,
   persisted : Workspace \cup {None}, active : Workspace \cup {None}]

Domains ==
  /\ TypeOK
  /\ flow \in [Flows -> FlowStates]
  /\ \A f \in Flows :
       Fits(flow[f].kind, flow[f].at) /\ flow[f].kind \in (IF f = Recovery THEN RecoveryKinds ELSE SessionKinds)
  /\ recovery \in [stage : {"none", "load", "reconcile", "rebuild", "done", "late"}, todo : SUBSET Sessions,
                   current : Sessions \cup {None}, read : [Sessions -> Workspace \cup {None}]]
  /\ recovery.current # None => recovery.stage = "rebuild" /\ recovery.current \in recovery.todo
  /\ recovery.todo # {} => recovery.stage \in {"reconcile", "rebuild"}
  /\ \A s \in recovery.todo : recovery.read[s] # None
  /\ saving = NoSave \/ saving \in Saves
  /\ started \in [Sessions -> Nat]
  /\ lost \in [Sessions -> SUBSET Nat]
  /\ told \in [Sessions -> [prepare : BOOLEAN, closes : Nat, cleaned : BOOLEAN, early : BOOLEAN]]

\* Nothing is under way without a process, and nothing of a session that was told nothing
\* while the agent recovers.
ProcessesRun ==
  /\ agent = "down" =>
       /\ recovery = NoRecovery /\ saving = NoSave
       /\ \A s \in Sessions : queue[s] = <<>> /\ persisted[s] = None /\ active[s] = None
       /\ \A f \in Flows : flow[f].kind = "idle"
  /\ recovery.stage = "none" => agent = "down"
  /\ \A s \in Sessions : ~told[s].early /\ Busy =>
       /\ agent = "up" /\ queue[s] = <<>>
       /\ recovery.stage = "load" => persisted[s] = None /\ active[s] = None

\* The queue of a session begins with what holds its lock; its one preparation comes first.
QueuesFit ==
  \A s \in Sessions :
    /\ flow[s].kind # "idle" =>
         queue[s] # <<>> /\ (Head(queue[s]) = "prepare" <=> flow[s].kind \in {"prepare", "rollback"})
    /\ \A i \in DOMAIN queue[s] :
         /\ queue[s][i] = "prepare" => i = 1
         /\ queue[s][i] # "shutdown" => told[s].prepare
         /\ queue[s][i] = "shutdown" => agent # "up"
         /\ told[s].cleaned /\ ~told[s].early => queue[s][i] # "prepare"
    /\ told[s].cleaned => told[s].prepare

\* A save under way is of a flow that waits for it, and goes on where that flow may be.
Saved(save, waiting) ==
  /\ save.session = SessionOf(save.flow) /\ waiting.at = "saving"
  /\ Fits(waiting.kind, save.ok) /\ save.ok \notin {"idle", "saving", "forget"}
  /\ IF save.failure = "close" THEN waiting.kind \in {"prepare", "rebuild"}
     ELSE Fits(waiting.kind, save.failure) /\ save.failure \notin {"idle", "saving", "forget"}
  /\ save.kind = "register" => save.flow = save.session /\ waiting.kind = "prepare"
  /\ save.kind # "register" => save.persisted # None /\ (save.active = None => active[save.session] = None)
  /\ persisted[save.session] = IF save.kind = "unregister" THEN None ELSE waiting.ws
  /\ save.kind = "unregister" => worktree[save.session] = "none" /\ waiting.kind \in {"rollback", "close"}
SavesFit ==
  /\ saving # NoSave => Saved(saving, flow[saving.flow])
  /\ \A s \in Sessions : flow[s].at = "forget" => worktree[s] = "none"

\* What is active is persisted; what is persisted is in the file, but for the save under way.
RecordsAgree ==
  /\ \A s \in Sessions : active[s] # None => active[s] = persisted[s]
  /\ recovery.stage \notin {"none", "load"} =>
       \A s \in Sessions :
         file[s] = IF saving # NoSave /\ saving.session = s THEN saving.persisted ELSE persisted[s]

\* The previews of a session on the host that nothing is to be blamed for, and likewise
\* its worktree.
Left(s) == IF s \in Containers THEN {} ELSE previews[s] \ lost[s]
Tree(s) == IF worktree[s] = "none" THEN "none" ELSE IF 0 \in lost[s] THEN "lost" ELSE "kept"

\* What is there of a session when an operation of a kind on it is at a place.
Sound(kind, at, ws, failed, record, left, tree) ==
  /\ kind \in {"close", "shutdown", "rebuild", "undo"} /\ at \in {"close", "stop"} => record # None
  /\ kind \in {"rebuild", "undo"} => record # None
  /\ at \in {"start", "open"} => record # None
  /\ at \in {"worktree", "start"} => ws.preview = 0
  /\ at = "worktree" => record = None
  /\ at \in {"register", "saving", "start", "open", "update", "close", "stop"} => left \subseteq {ws.preview}
  /\ at \in {"register", "close", "stop"} /\ record = None => ws.preview = 0
  /\ at \in {"idle", "worktree", "remove", "end", "removed", "rebuilt", "suspend"} => left \subseteq Named(record)
  /\ at \in {"idle", "worktree", "end"} /\ record = None => tree # "kept"
  /\ at \in {"remove", "removed"} /\ ~failed => left = {}
  /\ at = "removed" /\ ~failed => ws.preview = 0
  /\ at = "forget" => tree = "none"
  /\ at \in {"forget", "cleaned"} => left = {} /\ tree # "kept"
  /\ at = "cleaned" => record = None

\* The one operation on a session that was told nothing while the agent recovered.
Operator(s) == IF recovery.current = s THEN Recovery ELSE s
Step(s) == flow[Operator(s)]

OperationIsSound(s) ==
  /\ Sound(Step(s).kind, Step(s).at, Step(s).ws, Step(s).failed, file[s], Left(s), Tree(s))
  /\ saving # NoSave /\ saving.session = s =>
       /\ saving.flow = Operator(s)
       /\ Sound(Step(s).kind, saving.ok, Step(s).ws, Step(s).failed, persisted[s], Left(s), Tree(s))
       /\ IF saving.failure = "close"
            THEN Sound(Undone(Step(s).kind), "close", Step(s).ws, FALSE, saving.persisted, Left(s), Tree(s))
            ELSE Sound(Step(s).kind, saving.failure, Step(s).ws, TRUE, saving.persisted, Left(s), Tree(s))
  /\ s \in recovery.todo => file[s] # None /\ (recovery.current # s => recovery.read[s] = file[s])
  /\ told[s].cleaned =>
       /\ file[s] = None /\ Left(s) = {} /\ Tree(s) # "kept"
       /\ flow[s].at \in {"idle", "cleaned", "end"}
       /\ saving # NoSave => saving.session # s
OperationsAreSound == \A s \in Sessions : ~told[s].early => OperationIsSound(s)
-----------------------------------------------------------------------------
SessionInv ==
  Domains /\ ProcessesRun /\ QueuesFit /\ SavesFit /\ RecordsAgree /\ OperationsAreSound

\* The names differ.
LEMMA Names ==
  /\ Recovery \notin Sessions /\ None \notin Flows /\ None \notin Workspace
  /\ NoSave \notin Saves /\ NoRecovery.current = None /\ Bare \in Workspace
<1>1. Workspace \subseteq [preview : Nat, tunnel : BOOLEAN]
  BY BoundsAssumption DEF Workspace, MaxStarts
<1>2. Recovery \notin Sessions /\ None \notin Flows /\ None \notin Workspace
  BY <1>1, NamesAssumption DEF Recovery, Flows
<1>3. \A save \in Saves : save.flow \in Flows
  BY DEF Saves
<1>4. NoSave.flow = None
  BY DEF NoSave
<1>5. NoSave \notin Saves
  BY <1>2, <1>3, <1>4
<1>6. NoRecovery.current = None
  BY DEF NoRecovery
<1>7. Bare \in Workspace
  BY BoundsAssumption DEF Bare, Workspace, MaxStarts
<1> QED
  BY <1>2, <1>5, <1>6, <1>7

\* An operation that is under way, or about to begin: what it works on, and for a session
\* that was told nothing while the agent recovered, that it is the only one.
LEMMA Acting ==
  ASSUME SessionInv, NEW f \in Flows, flow[f].kind # "idle" \/ (f \in Sessions /\ queue[f] # <<>>)
  PROVE  /\ SessionOf(f) \in Sessions /\ agent # "down"
         /\ flow[f] \in FlowStates /\ Fits(flow[f].kind, flow[f].at)
         /\ f \in Sessions => SessionOf(f) = f /\ f # Recovery /\ flow[f].kind \in SessionKinds
         /\ f \notin Sessions => f = Recovery /\ recovery.stage = "rebuild" /\ flow[f].kind \in RecoveryKinds
         /\ ~told[SessionOf(f)].early =>
              /\ f = Operator(SessionOf(f)) /\ recovery.stage \notin {"none", "load"}
              /\ Sound(flow[f].kind, flow[f].at, flow[f].ws, flow[f].failed, file[SessionOf(f)],
                    Left(SessionOf(f)), Tree(SessionOf(f)))
              /\ told[SessionOf(f)].cleaned => f \in Sessions /\ flow[f].at \in {"idle", "cleaned", "end"}
<1> USE Names
<1>1. flow[f] \in FlowStates /\ Fits(flow[f].kind, flow[f].at)
      /\ flow[f].kind \in (IF f = Recovery THEN RecoveryKinds ELSE SessionKinds)
  BY DEF SessionInv, Domains
<1>2. agent # "down"
  BY DEF SessionInv, ProcessesRun
<1>3. CASE f \in Sessions
  <2>1. SessionOf(f) = f /\ f # Recovery
    BY <1>3 DEF SessionOf
  <2>2. ASSUME ~told[f].early
        PROVE  ~Busy
    <3>1. queue[f] # <<>>
      BY <1>3 DEF SessionInv, QueuesFit
    <3> QED
      BY <1>3, <2>2, <3>1 DEF SessionInv, ProcessesRun
  <2>3. ASSUME ~told[f].early
        PROVE  Operator(f) = f /\ recovery.stage \notin {"none", "load"}
    <3>1. recovery.current = None
      BY <2>2, <2>3 DEF SessionInv, Domains, Busy
    <3>2. recovery.stage \notin {"none", "load"}
      BY <1>2, <2>2, <2>3 DEF SessionInv, ProcessesRun, Busy
    <3> QED
      BY <1>3, <3>1, <3>2 DEF Operator
  <2>4. ~told[f].early => Sound(flow[f].kind, flow[f].at, flow[f].ws, flow[f].failed, file[f], Left(f), Tree(f))
                          /\ (told[f].cleaned => flow[f].at \in {"idle", "cleaned", "end"})
    BY <1>3, <2>3 DEF SessionInv, OperationsAreSound, OperationIsSound, Step
  <2> QED
    BY <1>1, <1>2, <1>3, <2>1, <2>3, <2>4
<1>4. CASE f \notin Sessions
  <2>1. f = Recovery
    BY <1>4 DEF Flows
  <2>2. flow[f].at # "idle"
    BY <1>1, <1>4 DEF Fits
  <2>3. recovery.current # None
    BY <2>1, <2>2 DEF SessionInv, Domains, TypeOK, At
  <2>4. recovery.current \in Sessions /\ recovery.stage = "rebuild" /\ recovery.current \in recovery.todo
    BY <2>3 DEF SessionInv, Domains, TypeOK
  <2>5. SessionOf(f) = recovery.current /\ Operator(recovery.current) = f
    BY <2>1 DEF SessionOf, Operator
  <2>6. ~told[recovery.current].early =>
          /\ Sound(flow[f].kind, flow[f].at, flow[f].ws, flow[f].failed, file[recovery.current],
                   Left(recovery.current), Tree(recovery.current))
          /\ ~told[recovery.current].cleaned
    BY <2>4, <2>5 DEF SessionInv, OperationsAreSound, OperationIsSound, Step
  <2> QED
    BY <1>1, <1>2, <1>4, <2>1, <2>4, <2>5, <2>6
<1> QED
  BY <1>3, <1>4

\* The states of an operation, field by field.
LEMMA Fields ==
  /\ \A r \in FlowStates, at \in Places : [r EXCEPT !.at = at] \in FlowStates
  /\ \A r \in FlowStates, at \in Places, ws \in Workspace : [r EXCEPT !.at = at, !.ws = ws] \in FlowStates
  /\ \A r \in FlowStates, at \in Places, failed \in BOOLEAN : [r EXCEPT !.at = at, !.failed = failed] \in FlowStates
  /\ \A r \in FlowStates, at \in Places, deaf \in BOOLEAN : [r EXCEPT !.at = at, !.deaf = deaf] \in FlowStates
  /\ \A r \in FlowStates, at \in Places, kind \in SessionKinds \cup RecoveryKinds :
       [r EXCEPT !.kind = kind, !.at = at] \in FlowStates
  /\ \A r \in FlowStates, at \in Places, ws \in Workspace, deaf \in BOOLEAN :
       [r EXCEPT !.at = at, !.ws = ws, !.deaf = deaf] \in FlowStates
  /\ \A r \in FlowStates, at \in Places, failed \in BOOLEAN, kind \in SessionKinds \cup RecoveryKinds :
       [r EXCEPT !.at = at, !.failed = failed, !.kind = kind] \in FlowStates
  /\ \A r \in FlowStates, at \in Places, ws \in Workspace, failed \in BOOLEAN, kind \in SessionKinds \cup RecoveryKinds :
       [r EXCEPT !.at = at, !.ws = ws, !.kind = kind, !.failed = failed] \in FlowStates
BY DEF FlowStates

\* The workspaces of a session, field by field.
LEMMA WorkspaceFields ==
  /\ \A w \in Workspace, n \in 0..MaxStarts :
       [w EXCEPT !.preview = n] \in Workspace /\ [w EXCEPT !.preview = n].preview = n
       /\ [w EXCEPT !.preview = n].tunnel = w.tunnel
  /\ \A w \in Workspace, b \in BOOLEAN :
       [w EXCEPT !.tunnel = b] \in Workspace /\ [w EXCEPT !.tunnel = b].preview = w.preview
       /\ [w EXCEPT !.tunnel = b].tunnel = b
BY DEF Workspace

\* The state of an operation that begins.
LEMMA Beginnings ==
  /\ Idle \in FlowStates /\ Idle.ws = Bare
  /\ \A r \in FlowStates, kind \in SessionKinds \cup RecoveryKinds, at \in Places, deaf \in BOOLEAN :
       [r EXCEPT !.kind = kind, !.deaf = deaf, !.at = at] \in FlowStates
  /\ \A r \in FlowStates, kind \in SessionKinds \cup RecoveryKinds, at \in Places, ws \in Workspace :
       [r EXCEPT !.kind = kind, !.at = at, !.ws = ws] \in FlowStates
  /\ \A r \in FlowStates, kind \in SessionKinds \cup RecoveryKinds, at \in Places, ws \in Workspace :
       [r EXCEPT !.kind = kind, !.ws = ws, !.at = at] \in FlowStates
  /\ \A r \in FlowStates, kind \in SessionKinds \cup RecoveryKinds, at \in Places :
       [r EXCEPT !.kind = kind, !.at = at] \in FlowStates
<1>1. Idle \in FlowStates /\ Idle.ws = Bare
  BY Names DEF Idle, FlowStates, SessionKinds, Places
<1> QED
  BY <1>1 DEF FlowStates

\* An operation f on session t goes on without a save: it leaves the others alone, and
\* what there then is of its session is sound.
Onward(f, t) ==
  /\ t = SessionOf(f)
  /\ (flow[f].kind # "idle" \/ (f \in Sessions /\ queue[f] # <<>>))
  /\ UNCHANGED <<registry, queue, recovery, agent, told>>
  /\ flow' \in [Flows -> FlowStates]
  /\ \A g \in Flows : g # f => flow'[g] = flow[g]
  /\ flow[f].at # "saving"
  /\ flow'[f].at # "saving"
  /\ flow'[f].kind # "idle"
  /\ Fits(flow'[f].kind, flow'[f].at)
  /\ flow'[f].kind \in (IF f = Recovery THEN RecoveryKinds ELSE SessionKinds)
  /\ f \in Sessions => (Head(queue[f]) = "prepare" <=> flow'[f].kind \in {"prepare", "rollback"})
  /\ worktree' \in [Sessions -> {"none", "branch", "full"}]
  /\ \A s \in Sessions : s # f => worktree'[s] = worktree[s]
  /\ previews' \in [Sessions -> SUBSET (1..MaxStarts)]
  /\ lost' \in [Sessions -> SUBSET Nat]
  /\ \A s \in Sessions : s # t => previews'[s] = previews[s] /\ lost'[s] = lost[s]
  /\ tunnel' \in [Sessions -> BOOLEAN]
  /\ started' \in [Sessions -> Nat]
  /\ f \in Sessions /\ flow'[f].at = "forget" => worktree'[f] = "none"
  /\ (~told[t].early =>
        Sound(flow[f].kind, flow[f].at, flow[f].ws, flow[f].failed, file[t], Left(t), Tree(t))')
  /\ (~told[t].early /\ told[t].cleaned =>
        UNCHANGED <<worktree, previews, lost>> /\ flow'[f].at \in {"idle", "cleaned", "end"})

\* Such a step keeps the invariant.
LEMMA Moves ==
  ASSUME SessionInv, NEW f \in Flows, NEW t \in Sessions, Onward(f, t)
  PROVE  SessionInv'
<1> SUFFICES ASSUME t = SessionOf(f),
                    flow[f].kind # "idle" \/ (f \in Sessions /\ queue[f] # <<>>),
                    UNCHANGED <<registry, queue, recovery, agent, told>>,
                    flow' \in [Flows -> FlowStates],
                    \A g \in Flows : g # f => flow'[g] = flow[g],
                    flow[f].at # "saving",
                    flow'[f].at # "saving",
                    flow'[f].kind # "idle",
                    Fits(flow'[f].kind, flow'[f].at),
                    flow'[f].kind \in (IF f = Recovery THEN RecoveryKinds ELSE SessionKinds),
                    f \in Sessions => (Head(queue[f]) = "prepare" <=> flow'[f].kind \in {"prepare", "rollback"}),
                    worktree' \in [Sessions -> {"none", "branch", "full"}],
                    \A s \in Sessions : s # f => worktree'[s] = worktree[s],
                    previews' \in [Sessions -> SUBSET (1..MaxStarts)],
                    lost' \in [Sessions -> SUBSET Nat],
                    \A s \in Sessions : s # t => previews'[s] = previews[s] /\ lost'[s] = lost[s],
                    tunnel' \in [Sessions -> BOOLEAN],
                    started' \in [Sessions -> Nat],
                    f \in Sessions /\ flow'[f].at = "forget" => worktree'[f] = "none",
                    ~told[t].early =>
                      Sound(flow[f].kind, flow[f].at, flow[f].ws, flow[f].failed, file[t], Left(t), Tree(t))',
                    ~told[t].early /\ told[t].cleaned =>
                      UNCHANGED <<worktree, previews, lost>> /\ flow'[f].at \in {"idle", "cleaned", "end"}
             PROVE  SessionInv'
  BY DEF Onward
<1> USE Names
<1>0. UNCHANGED <<file, persisted, active, saving>>
  BY DEF registry
<1>1. /\ agent # "down" /\ SessionOf(f)' = t
      /\ f \in Sessions => t = f /\ f # Recovery
      /\ f \notin Sessions => f = Recovery /\ recovery.stage = "rebuild"
      /\ ~told[t].early => f = Operator(t)
      /\ ~told[t].early /\ told[t].cleaned => f \in Sessions
  BY Acting DEF SessionOf
<1>2. Domains'
  <2>1. \A g \in Flows :
          Fits(flow'[g].kind, flow'[g].at) /\ flow'[g].kind \in (IF g = Recovery THEN RecoveryKinds ELSE SessionKinds)
    BY DEF SessionInv, Domains
  <2>2. \A g \in Flows : flow'[g].ws \in Workspace
    BY DEF FlowStates
  <2>3. (recovery'.current = None) <=> flow'[Recovery].at = "idle"
    <3>1. CASE f = Recovery
      <4>1. recovery.current # None
        BY <3>1 DEF SessionOf, Flows
      <4>2. flow'[Recovery].at # "idle"
        BY <3>1 DEF Fits
      <4> QED
        BY <4>1, <4>2
    <3>2. CASE f # Recovery
      BY <3>2 DEF SessionInv, Domains, TypeOK, At, Flows
    <3> QED
      BY <3>1, <3>2
  <2>4. TypeOK'
    BY <1>0, <2>2, <2>3 DEF SessionInv, Domains, TypeOK, At
  <2> QED
    BY <1>0, <2>1, <2>4 DEF SessionInv, Domains
<1>3. ProcessesRun'
  BY <1>0, <1>1 DEF SessionInv, ProcessesRun, Busy
<1>4. QueuesFit'
  BY <1>1 DEF SessionInv, QueuesFit, Flows
<1>5. SavesFit'
  <2>0. \A s \in Sessions : flow'[s].at = "forget" => worktree'[s] = "none"
    BY DEF SessionInv, SavesFit, Flows
  <2> SUFFICES ASSUME saving # NoSave
               PROVE  Saved(saving, flow[saving.flow])'
    BY <1>0, <2>0 DEF SavesFit
  <2>1. Saved(saving, flow[saving.flow]) /\ saving \in Saves
    BY DEF SessionInv, SavesFit, Domains
  <2>2. saving.flow # f /\ saving.flow \in Flows /\ saving.session \in Sessions
    BY <2>1 DEF Saved, Saves
  <2>3. flow'[saving.flow] = flow[saving.flow]
    BY <2>2
  <2>4. saving.kind = "unregister" => saving.flow = saving.session /\ saving.session # f
    <3>1. flow[saving.flow].kind \in {"rollback", "close"} => saving.flow # Recovery
      BY <2>2 DEF SessionInv, Domains, RecoveryKinds
    <3> QED
      BY <2>1, <2>2, <3>1 DEF Saved, SessionOf
  <2>5. SessionOf(saving.flow)' = SessionOf(saving.flow)
    BY <1>0 DEF SessionOf
  <2> QED
    BY <1>0, <2>1, <2>2, <2>3, <2>4, <2>5 DEF Saved
<1>6. RecordsAgree'
  BY <1>0 DEF SessionInv, RecordsAgree
<1>7. OperationsAreSound'
  <2> SUFFICES ASSUME NEW s \in Sessions, ~told[s].early
               PROVE  OperationIsSound(s)'
    BY DEF OperationsAreSound
  <2>1. Operator(s)' = Operator(s) /\ s # Recovery /\ s \in Flows /\ Operator(s) \in Flows
    BY DEF Operator, Flows
  <2>2. CASE s # t
    <3>1. Operator(s) # f /\ s # f
      <4>1. CASE f = Recovery
        <5>1. t = recovery.current
          BY <4>1 DEF SessionOf
        <5> QED
          BY <2>1, <2>2, <4>1, <5>1 DEF Operator
      <4>2. CASE f # Recovery
        <5>1. t = f
          BY <1>1, <4>2
        <5> QED
          BY <2>2, <4>2, <5>1 DEF Operator
      <4> QED
        BY <4>1, <4>2
    <3>2. Step(s)' = Step(s) /\ flow'[s] = flow[s]
      BY <2>1, <3>1 DEF Step
    <3>3. worktree'[s] = worktree[s] /\ previews'[s] = previews[s] /\ lost'[s] = lost[s]
      BY <2>2, <3>1
    <3>4. Left(s)' = Left(s) /\ Tree(s)' = Tree(s)
      BY <3>3 DEF Left, Tree
    <3> QED
      BY <1>0, <2>1, <3>2, <3>4 DEF SessionInv, OperationsAreSound, OperationIsSound
  <2>3. CASE s = t
    <3>1. f = Operator(s) /\ Step(s) = flow[f] /\ Step(s)' = flow'[f]
      BY <1>1, <2>1, <2>3 DEF Step
    <3>2. Sound(Step(s).kind, Step(s).at, Step(s).ws, Step(s).failed, file[s], Left(s), Tree(s))'
      BY <2>3, <3>1
    <3>3. ~(saving # NoSave /\ saving.session = s)
      BY <2>3, <3>1 DEF SessionInv, OperationsAreSound, OperationIsSound, SavesFit, Saved
    <3>4. told[s].cleaned => /\ file[s] = None /\ Left(s)' = {} /\ Tree(s)' # "kept"
                             /\ flow'[s].at \in {"idle", "cleaned", "end"}
      <4> SUFFICES ASSUME told[s].cleaned
                   PROVE  /\ file[s] = None /\ Left(s)' = {} /\ Tree(s)' # "kept"
                          /\ flow'[s].at \in {"idle", "cleaned", "end"}
        OBVIOUS
      <4>1. file[s] = None /\ Left(s) = {} /\ Tree(s) # "kept"
        BY DEF SessionInv, OperationsAreSound, OperationIsSound
      <4>2. UNCHANGED <<worktree, previews, lost>> /\ flow'[f].at \in {"idle", "cleaned", "end"} /\ f = s
        BY <1>1, <2>3
      <4> QED
        BY <4>1, <4>2 DEF Left, Tree
    <3>5. s \in recovery.todo => file[s] # None /\ (recovery.current # s => recovery.read[s] = file[s])
      BY DEF SessionInv, OperationsAreSound, OperationIsSound
    <3> QED
      BY <1>0, <3>2, <3>3, <3>4, <3>5 DEF OperationIsSound
  <2> QED
    BY <2>2, <2>3
<1> QED
  BY <1>2, <1>3, <1>4, <1>5, <1>6, <1>7 DEF SessionInv


\* An operation f on session t begins a save: what there then is of its session is sound
\* whether the save succeeds or fails.
SaveOf(f, t, kind, ws, ok, failure) ==
  /\ t = SessionOf(f)
  /\ flow[f].kind # "idle"
  /\ flow[f].at \notin {"cleaned", "end"}
  /\ Save(f, kind, ws, ok, failure)
  /\ kind # "register" => persisted[t] # None
  /\ UNCHANGED <<queue, recovery, agent, told, lost, worktree, started>>
  /\ flow' \in [Flows -> FlowStates]
  /\ \A g \in Flows : g # f => flow'[g] = flow[g]
  /\ flow'[f].kind = flow[f].kind
  /\ flow'[f].at = "saving"
  /\ ws = IF kind = "unregister" THEN None ELSE flow'[f].ws
  /\ Fits(flow[f].kind, ok)
  /\ ok \notin {"idle", "saving", "forget"}
  /\ (IF failure = "close" THEN flow[f].kind \in {"prepare", "rebuild"}
        ELSE Fits(flow[f].kind, failure) /\ failure \notin {"idle", "saving", "forget"})
  /\ kind = "register" => f = t /\ flow[f].kind = "prepare"
  /\ kind = "unregister" => worktree[t] = "none" /\ flow[f].kind \in {"rollback", "close"}
  /\ previews' \in [Sessions -> SUBSET (1..MaxStarts)]
  /\ \A s \in Sessions : s # t => previews'[s] = previews[s]
  /\ tunnel' \in [Sessions -> BOOLEAN]
  /\ (~told[t].early =>
        /\ Sound(flow[f].kind, flow[f].at, flow[f].ws, flow[f].failed, file[t], Left(t), Tree(t))'
        /\ Sound(flow'[f].kind, ok, flow'[f].ws, flow'[f].failed, ws, Left(t)', Tree(t)')
        /\ IF failure = "close"
             THEN Sound(Undone(flow[f].kind), "close", flow'[f].ws, FALSE, file[t], Left(t)', Tree(t)')
             ELSE Sound(flow[f].kind, failure, flow'[f].ws, TRUE, file[t], Left(t)', Tree(t)'))

\* So does such a save.
LEMMA SaveBegins ==
  ASSUME SessionInv, NEW f \in Flows, NEW t \in Sessions, NEW kind \in {"register", "update", "unregister"},
         NEW ws \in Workspace \cup {None}, NEW ok \in Places, NEW failure \in Places,
         SaveOf(f, t, kind, ws, ok, failure)
  PROVE  SessionInv'
<1> SUFFICES ASSUME t = SessionOf(f),
                    flow[f].kind # "idle",
                    flow[f].at \notin {"cleaned", "end"},
                    Save(f, kind, ws, ok, failure),
                    kind # "register" => persisted[t] # None,
                    UNCHANGED <<queue, recovery, agent, told, lost, worktree, started>>,
                    flow' \in [Flows -> FlowStates],
                    \A g \in Flows : g # f => flow'[g] = flow[g],
                    flow'[f].kind = flow[f].kind,
                    flow'[f].at = "saving",
                    ws = IF kind = "unregister" THEN None ELSE flow'[f].ws,
                    Fits(flow[f].kind, ok),
                    ok \notin {"idle", "saving", "forget"},
                    IF failure = "close" THEN flow[f].kind \in {"prepare", "rebuild"}
                      ELSE Fits(flow[f].kind, failure) /\ failure \notin {"idle", "saving", "forget"},
                    kind = "register" => f = t /\ flow[f].kind = "prepare",
                    kind = "unregister" => worktree[t] = "none" /\ flow[f].kind \in {"rollback", "close"},
                    previews' \in [Sessions -> SUBSET (1..MaxStarts)],
                    \A s \in Sessions : s # t => previews'[s] = previews[s],
                    tunnel' \in [Sessions -> BOOLEAN],
                    ~told[t].early =>
                      /\ Sound(flow[f].kind, flow[f].at, flow[f].ws, flow[f].failed, file[t], Left(t), Tree(t))'
                      /\ Sound(flow'[f].kind, ok, flow'[f].ws, flow'[f].failed, ws, Left(t)', Tree(t)')
                      /\ IF failure = "close"
                           THEN Sound(Undone(flow[f].kind), "close", flow'[f].ws, FALSE, file[t], Left(t)', Tree(t)')
                           ELSE Sound(flow[f].kind, failure, flow'[f].ws, TRUE, file[t], Left(t)', Tree(t)')
             PROVE  SessionInv'
  BY DEF SaveOf
<1> USE Names
<1>0. /\ saving = NoSave /\ file' = file
      /\ persisted' = [persisted EXCEPT ![t] = ws]
      /\ active' = [active EXCEPT ![t] = IF kind = "register" \/ @ # None THEN ws ELSE None]
      /\ saving' = [flow |-> f, session |-> t, kind |-> kind, ok |-> ok, failure |-> failure,
                    persisted |-> persisted[t], active |-> active[t]]
  BY DEF Save
<1>1. /\ agent # "down" /\ SessionOf(f)' = t /\ Fits(flow[f].kind, flow[f].at)
      /\ f \in Sessions => t = f /\ f # Recovery
      /\ f \notin Sessions => f = Recovery /\ recovery.stage = "rebuild"
      /\ ~told[t].early => f = Operator(t) /\ recovery.stage \notin {"none", "load"} /\ ~told[t].cleaned
  <2>1. flow[f].at # "idle"
    BY DEF SessionInv, Domains, Fits
  <2> QED
    BY <2>1, Acting DEF SessionOf
<1>2. /\ file \in [Sessions -> Workspace \cup {None}]
      /\ persisted \in [Sessions -> Workspace \cup {None}] /\ active \in [Sessions -> Workspace \cup {None}]
  BY DEF SessionInv, Domains, TypeOK
<1>3. saving' \in Saves /\ saving' # NoSave
  BY <1>0, <1>2 DEF Saves
<1>4. /\ saving'.flow = f /\ saving'.session = t /\ saving'.kind = kind /\ saving'.ok = ok
      /\ saving'.failure = failure /\ saving'.persisted = persisted[t] /\ saving'.active = active[t]
  BY <1>0
<1>5. Domains'
  <2>1. \A g \in Flows : flow'[g].kind = flow[g].kind
    OBVIOUS
  <2>2. \A g \in Flows :
          Fits(flow'[g].kind, flow'[g].at) /\ flow'[g].kind \in (IF g = Recovery THEN RecoveryKinds ELSE SessionKinds)
    <3> SUFFICES ASSUME NEW g \in Flows
                 PROVE  Fits(flow'[g].kind, flow'[g].at)
                        /\ flow'[g].kind \in (IF g = Recovery THEN RecoveryKinds ELSE SessionKinds)
      OBVIOUS
    <3>1. Fits(flow[g].kind, flow[g].at) /\ flow[g].kind \in (IF g = Recovery THEN RecoveryKinds ELSE SessionKinds)
      BY DEF SessionInv, Domains
    <3>2. g = f => Fits(flow'[g].kind, flow'[g].at)
      <4>1. flow[f].kind \in RecoveryKinds \cup SessionKinds
        BY <3>1 DEF SessionInv, Domains, FlowStates
      <4> QED
        BY <1>1, <4>1 DEF Fits, RecoveryKinds, SessionKinds
    <3> QED
      BY <3>1, <3>2, <2>1
  <2>3. \A g \in Flows : flow'[g].ws \in Workspace
    BY DEF FlowStates
  <2>4. (recovery'.current = None) <=> flow'[Recovery].at = "idle"
    <3>1. CASE f = Recovery
      BY <3>1 DEF SessionOf, Flows
    <3>2. CASE f # Recovery
      BY <3>2 DEF SessionInv, Domains, TypeOK, At, Flows
    <3> QED
      BY <3>1, <3>2
  <2>5. persisted' \in [Sessions -> Workspace \cup {None}] /\ active' \in [Sessions -> Workspace \cup {None}]
    BY <1>0, <1>2
  <2>6. TypeOK'
    BY <1>0, <2>3, <2>4, <2>5 DEF SessionInv, Domains, TypeOK, At
  <2> QED
    BY <1>3, <2>2, <2>6 DEF SessionInv, Domains
<1>6. ProcessesRun'
  <2> SUFFICES ASSUME NEW s \in Sessions, ~told[s].early, Busy
               PROVE  /\ agent = "up" /\ queue[s] = <<>>
                      /\ recovery.stage = "load" => persisted'[s] = None /\ active'[s] = None
    BY <1>1 DEF SessionInv, ProcessesRun, Busy
  <2>1. /\ agent = "up" /\ queue[s] = <<>>
        /\ recovery.stage = "load" => persisted[s] = None /\ active[s] = None
    BY DEF SessionInv, ProcessesRun
  <2> QED
    BY <1>0, <1>1, <1>2, <2>1
<1>7. QueuesFit'
  <2>1. \A s \in Sessions : flow'[s].kind = flow[s].kind
    BY DEF Flows
  <2> QED
    BY <2>1 DEF SessionInv, QueuesFit
<1>8. SavesFit'
  <2>1. persisted'[t] = ws
    BY <1>0, <1>2
  <2>2. kind # "register" => (active[t] = None => active'[t] = None)
    BY <1>0, <1>2
  <2>3. \A s \in Sessions : flow'[s].at = "forget" => worktree'[s] = "none"
    BY DEF SessionInv, SavesFit, Flows
  <2> QED
    BY <1>1, <1>4, <2>1, <2>2, <2>3 DEF SavesFit, Saved
<1>9. RecordsAgree'
  <2>1. \A s \in Sessions : active[s] # None => active[s] = persisted[s]
    BY DEF SessionInv, RecordsAgree
  <2>2. recovery.stage \notin {"none", "load"} => \A s \in Sessions : file[s] = persisted[s]
    BY <1>0 DEF SessionInv, RecordsAgree
  <2>3. \A s \in Sessions : active'[s] # None => active'[s] = persisted'[s]
    BY <1>0, <1>2, <2>1
  <2> QED
    BY <1>0, <1>2, <1>3, <1>4, <2>2, <2>3 DEF RecordsAgree
<1>10. OperationsAreSound'
  <2> SUFFICES ASSUME NEW s \in Sessions, ~told[s].early
               PROVE  OperationIsSound(s)'
    BY DEF OperationsAreSound
  <2>1. Operator(s)' = Operator(s) /\ s # Recovery /\ s \in Flows /\ Operator(s) \in Flows
    BY DEF Operator, Flows
  <2>2. CASE s # t
    <3>1. Operator(s) # f /\ s # f
      <4>1. CASE f = Recovery
        <5>1. t = recovery.current
          BY <4>1 DEF SessionOf
        <5> QED
          BY <2>1, <2>2, <4>1, <5>1 DEF Operator
      <4>2. CASE f # Recovery
        <5>1. t = f
          BY <1>1, <4>2
        <5> QED
          BY <2>2, <4>2, <5>1 DEF Operator
      <4> QED
        BY <4>1, <4>2
    <3>2. Step(s)' = Step(s) /\ flow'[s] = flow[s]
      BY <2>1, <3>1 DEF Step
    <3>3. Left(s)' = Left(s) /\ Tree(s)' = Tree(s)
      BY <2>2 DEF Left, Tree
    <3> QED
      BY <1>0, <1>4, <2>1, <2>2, <3>2, <3>3 DEF SessionInv, OperationsAreSound, OperationIsSound
  <2>3. CASE s = t
    <3>1. f = Operator(s) /\ Step(s) = flow[f] /\ Step(s)' = flow'[f]
      BY <1>1, <2>1, <2>3 DEF Step
    <3>2. Sound(Step(s).kind, Step(s).at, Step(s).ws, Step(s).failed, file[s], Left(s), Tree(s))'
      BY <2>3, <3>1
    <3>3. persisted'[s] = ws /\ saving'.persisted = file[s]
      <4>1. persisted[s] = file[s]
        BY <1>0, <1>1, <2>3 DEF SessionInv, RecordsAgree
      <4> QED
        BY <1>0, <1>2, <1>4, <2>3, <4>1
    <3>4. /\ saving'.flow = Operator(s)'
          /\ Sound(Step(s).kind, saving.ok, Step(s).ws, Step(s).failed, persisted[s], Left(s), Tree(s))'
      BY <1>4, <2>1, <2>3, <3>1, <3>3
    <3>5. (IF saving.failure = "close"
             THEN Sound(Undone(Step(s).kind), "close", Step(s).ws, FALSE, saving.persisted, Left(s), Tree(s))
             ELSE Sound(Step(s).kind, saving.failure, Step(s).ws, TRUE, saving.persisted, Left(s), Tree(s)))'
      BY <1>4, <2>3, <3>1, <3>3
    <3>6. s \in recovery.todo => file[s] # None /\ (recovery.current # s => recovery.read[s] = file[s])
      BY DEF SessionInv, OperationsAreSound, OperationIsSound
    <3> QED
      BY <1>0, <1>1, <2>3, <3>2, <3>4, <3>5, <3>6 DEF OperationIsSound
  <2> QED
    BY <2>2, <2>3
<1> QED
  BY <1>5, <1>6, <1>7, <1>8, <1>9, <1>10 DEF SessionInv

\* The same of an operation that has begun, whose next state is x.
NextPlace(f, t, x) ==
  /\ t = SessionOf(f)
  /\ flow[f].at \notin {"idle", "saving", "cleaned", "end"}
  /\ flow' = [flow EXCEPT ![f] = x]
  /\ UNCHANGED <<registry, queue, recovery, agent, told>>
  /\ x.at # "saving"
  /\ Fits(x.kind, x.at)
  /\ x.kind \in {flow[f].kind, Undone(flow[f].kind)}
  /\ worktree' \in [Sessions -> {"none", "branch", "full"}]
  /\ \A s \in Sessions : s # f => worktree'[s] = worktree[s]
  /\ previews' \in [Sessions -> SUBSET (1..MaxStarts)]
  /\ lost' \in [Sessions -> SUBSET Nat]
  /\ \A s \in Sessions : s # t => previews'[s] = previews[s] /\ lost'[s] = lost[s]
  /\ tunnel' \in [Sessions -> BOOLEAN]
  /\ started' \in [Sessions -> Nat]
  /\ f \in Sessions /\ x.at = "forget" => worktree'[f] = "none"
  /\ (~told[t].early =>
        Sound(x.kind, x.at, x.ws, x.failed, file[t], Left(t)', Tree(t)'))

\* So does its next step.
LEMMA MovesOn ==
  ASSUME SessionInv, NEW f \in Flows, NEW t \in Sessions, NEW x \in FlowStates,
         NextPlace(f, t, x)
  PROVE  SessionInv'
<1> SUFFICES ASSUME t = SessionOf(f),
                    flow[f].at \notin {"idle", "saving", "cleaned", "end"},
                    flow' = [flow EXCEPT ![f] = x],
                    UNCHANGED <<registry, queue, recovery, agent, told>>,
                    x.at # "saving",
                    Fits(x.kind, x.at),
                    x.kind \in {flow[f].kind, Undone(flow[f].kind)},
                    worktree' \in [Sessions -> {"none", "branch", "full"}],
                    \A s \in Sessions : s # f => worktree'[s] = worktree[s],
                    previews' \in [Sessions -> SUBSET (1..MaxStarts)],
                    lost' \in [Sessions -> SUBSET Nat],
                    \A s \in Sessions : s # t => previews'[s] = previews[s] /\ lost'[s] = lost[s],
                    tunnel' \in [Sessions -> BOOLEAN],
                    started' \in [Sessions -> Nat],
                    f \in Sessions /\ x.at = "forget" => worktree'[f] = "none",
                    ~told[t].early =>
                      Sound(x.kind, x.at, x.ws, x.failed, file[t], Left(t)', Tree(t)')
             PROVE  SessionInv'
  BY DEF NextPlace
<1> USE Names
<1>1. flow[f].kind # "idle"
  BY DEF SessionInv, Domains, Fits
<1>2. /\ flow \in [Flows -> FlowStates] /\ Fits(flow[f].kind, flow[f].at) /\ flow[f].kind # "idle"
      /\ flow[f].kind \in (IF f = Recovery THEN RecoveryKinds ELSE SessionKinds)
  BY DEF SessionInv, Domains, Fits
<1>3. f \in Sessions => t = f /\ (Head(queue[f]) = "prepare" <=> flow[f].kind \in {"prepare", "rollback"})
  BY <1>1, <1>2 DEF SessionInv, QueuesFit, SessionOf
<1>4. ~told[t].early => ~told[t].cleaned
  BY <1>1, <1>2, Acting
<1>5. flow' \in [Flows -> FlowStates] /\ flow'[f] = x /\ \A g \in Flows : g # f => flow'[g] = flow[g]
  BY <1>2
<1>6. /\ x.kind # "idle" /\ x.kind \in (IF f = Recovery THEN RecoveryKinds ELSE SessionKinds)
      /\ x.kind \in {"prepare", "rollback"} <=> flow[f].kind \in {"prepare", "rollback"}
  BY <1>2 DEF Undone, SessionKinds, RecoveryKinds
<1>7. SessionOf(f)' = t /\ file' = file
  BY <1>1 DEF SessionOf, registry
<1>8. ~told[t].early =>
        Sound(flow[f].kind, flow[f].at, flow[f].ws, flow[f].failed, file[t], Left(t), Tree(t))'
  <2>1. ~told[t].early => Sound(x.kind, x.at, x.ws, x.failed, file[t], Left(t)', Tree(t)')
    BY <1>7 DEF Left, Tree
  <2> QED
    BY <1>5, <1>7, <2>1
<1>9. Onward(f, t)
  BY <1>1, <1>2, <1>3, <1>4, <1>5, <1>6, <1>8 DEF Onward
<1> QED
  BY <1>9, Moves

\* An operation f on session t updates its record, be it recorded or not.
UpdateOf(f, t, ws, ok, failure) ==
  /\ t = SessionOf(f)
  /\ flow[f].kind # "idle"
  /\ flow[f].at \notin {"saving", "cleaned", "end"}
  /\ Update(f, ws, ok, failure)
  /\ UNCHANGED <<queue, recovery, agent, told, lost, worktree, started>>
  /\ Fits(flow[f].kind, ok)
  /\ ok \notin {"idle", "saving", "forget"}
  /\ (IF failure = "close" THEN flow[f].kind \in {"prepare", "rebuild"}
        ELSE Fits(flow[f].kind, failure) /\ failure \notin {"idle", "saving", "forget"})
  /\ previews' \in [Sessions -> SUBSET (1..MaxStarts)]
  /\ \A s \in Sessions : s # t => previews'[s] = previews[s]
  /\ tunnel' \in [Sessions -> BOOLEAN]
  /\ (~told[t].early =>
        /\ persisted[t] # None =>
             /\ Sound(flow[f].kind, "saving", ws, flow[f].failed, file[t], Left(t)', Tree(t)')
             /\ Sound(flow[f].kind, ok, ws, flow[f].failed, ws, Left(t)', Tree(t)')
        /\ IF failure = "close"
             THEN Sound(Undone(flow[f].kind), "close", ws, FALSE, file[t], Left(t)', Tree(t)')
             ELSE Sound(flow[f].kind, failure, ws, TRUE, file[t], Left(t)', Tree(t)'))

\* And so does its update.
LEMMA Updates ==
  ASSUME SessionInv, NEW f \in Flows, NEW t \in Sessions, NEW ws \in Workspace, NEW ok \in Places, NEW failure \in Places,
         UpdateOf(f, t, ws, ok, failure)
  PROVE  SessionInv'
<1> SUFFICES ASSUME t = SessionOf(f),
                    flow[f].kind # "idle",
                    flow[f].at \notin {"saving", "cleaned", "end"},
                    Update(f, ws, ok, failure),
                    UNCHANGED <<queue, recovery, agent, told, lost, worktree, started>>,
                    Fits(flow[f].kind, ok),
                    ok \notin {"idle", "saving", "forget"},
                    IF failure = "close" THEN flow[f].kind \in {"prepare", "rebuild"}
                      ELSE Fits(flow[f].kind, failure) /\ failure \notin {"idle", "saving", "forget"},
                    previews' \in [Sessions -> SUBSET (1..MaxStarts)],
                    \A s \in Sessions : s # t => previews'[s] = previews[s],
                    tunnel' \in [Sessions -> BOOLEAN],
                    ~told[t].early =>
                      /\ persisted[t] # None =>
                           /\ Sound(flow[f].kind, "saving", ws, flow[f].failed, file[t], Left(t)', Tree(t)')
                           /\ Sound(flow[f].kind, ok, ws, flow[f].failed, ws, Left(t)', Tree(t)')
                      /\ IF failure = "close"
                           THEN Sound(Undone(flow[f].kind), "close", ws, FALSE, file[t], Left(t)', Tree(t)')
                           ELSE Sound(flow[f].kind, failure, ws, TRUE, file[t], Left(t)', Tree(t)')
             PROVE  SessionInv'
  BY DEF UpdateOf
<1> USE Names
<1>1. /\ flow \in [Flows -> FlowStates] /\ Fits(flow[f].kind, flow[f].at)
      /\ flow[f].kind \in (IF f = Recovery THEN RecoveryKinds ELSE SessionKinds)
  BY DEF SessionInv, Domains
<1>2. /\ f \in Sessions => t = f /\ (Head(queue[f]) = "prepare" <=> flow[f].kind \in {"prepare", "rollback"})
      /\ ~told[t].early => ~told[t].cleaned
  <2>1. flow[f].at # "idle"
    BY <1>1 DEF Fits
  <2>2. f \in Sessions => (Head(queue[f]) = "prepare" <=> flow[f].kind \in {"prepare", "rollback"})
    BY DEF SessionInv, QueuesFit
  <2> QED
    BY <2>1, <2>2, Acting
<1>3. CASE persisted[t] # None
  <2>1. Save(f, "update", ws, ok, failure) /\ flow' = [flow EXCEPT ![f].at = "saving", ![f].ws = ws]
    BY <1>3 DEF Update
  <2>2. /\ flow'[f].kind = flow[f].kind /\ flow'[f].at = "saving" /\ flow'[f].ws = ws
        /\ flow'[f].failed = flow[f].failed /\ \A g \in Flows : g # f => flow'[g] = flow[g]
    BY <1>1, <2>1 DEF FlowStates
  <2>3. flow' \in [Flows -> FlowStates]
    <3>1. [flow[f] EXCEPT !.at = "saving", !.ws = ws] \in FlowStates
      <4>1. flow[f] \in FlowStates /\ "saving" \in Places
        BY <1>1 DEF Places
      <4>2. \A r \in FlowStates, at \in Places : [r EXCEPT !.at = at, !.ws = ws] \in FlowStates
        BY Fields
      <4> QED
        BY <4>1, <4>2
    <3>2. flow' = [flow EXCEPT ![f] = [flow[f] EXCEPT !.at = "saving", !.ws = ws]]
      BY <1>1, <2>1
    <3> QED
      BY <1>1, <3>1, <3>2
  <2>4. file' = file
    BY <2>1 DEF Save
  <2>5. ~told[t].early =>
           /\ Sound(flow[f].kind, flow[f].at, flow[f].ws, flow[f].failed, file[t], Left(t), Tree(t))'
           /\ Sound(flow'[f].kind, ok, flow'[f].ws, flow'[f].failed, ws, Left(t)', Tree(t)')
           /\ IF failure = "close"
                THEN Sound(Undone(flow[f].kind), "close", flow'[f].ws, FALSE, file[t], Left(t)', Tree(t)')
                ELSE Sound(flow[f].kind, failure, flow'[f].ws, TRUE, file[t], Left(t)', Tree(t)')
    BY <1>3, <2>2, <2>4
  <2>6. ws = IF "update" = "unregister" THEN None ELSE flow'[f].ws
    BY <2>2
  <2>7. SaveOf(f, t, "update", ws, ok, failure)
    BY <1>3, <2>1, <2>2, <2>3, <2>5, <2>6 DEF SaveOf
  <2> QED
    BY <2>7, SaveBegins
<1>4. CASE persisted[t] = None
  <2>1. /\ UNCHANGED registry
        /\ flow' = [flow EXCEPT ![f].at = failure, ![f].ws = ws,
                      ![f].kind = IF failure = "close" THEN Undone(@) ELSE @,
                      ![f].failed = failure # "close"]
    BY <1>4 DEF Update
  <2>2. PICK x \in FlowStates :
          /\ x = [flow[f] EXCEPT !.at = failure, !.ws = ws,
                    !.kind = IF failure = "close" THEN Undone(@) ELSE @, !.failed = failure # "close"]
          /\ x.kind = (IF failure = "close" THEN Undone(flow[f].kind) ELSE flow[f].kind)
          /\ x.at = failure /\ x.ws = ws /\ x.failed = (failure # "close")
    <3> DEFINE y == [flow[f] EXCEPT !.at = failure, !.ws = ws,
                       !.kind = IF failure = "close" THEN Undone(@) ELSE @, !.failed = failure # "close"]
    <3>1. (IF failure = "close" THEN Undone(flow[f].kind) ELSE flow[f].kind) \in SessionKinds \cup RecoveryKinds
      BY <1>1 DEF Undone, SessionKinds, RecoveryKinds
    <3>2. flow[f] \in FlowStates
      BY <1>1
    <3>3. y \in FlowStates
      BY <3>1, <3>2, Fields
    <3>5. y = [flow[f] EXCEPT !.at = failure, !.ws = ws,
                 !.kind = IF failure = "close" THEN Undone(@) ELSE @, !.failed = failure # "close"]
      OBVIOUS
    <3>4. /\ y.kind = (IF failure = "close" THEN Undone(flow[f].kind) ELSE flow[f].kind)
          /\ y.at = failure /\ y.ws = ws /\ y.failed = (failure # "close")
      BY <3>2 DEF FlowStates
    <3> HIDE DEF y
    <3> QED
      BY <3>3, <3>4, <3>5
  <2>3. flow' = [flow EXCEPT ![f] = x]
    BY <1>1, <2>1, <2>2
  <2>4. Fits(x.kind, x.at) /\ x.kind \in {flow[f].kind, Undone(flow[f].kind)}
    <3>1. CASE failure = "close"
      BY <2>2, <3>1 DEF Undone, Fits
    <3>2. CASE failure # "close"
      BY <2>2, <3>2
    <3> QED
      BY <3>1, <3>2
  <2>5. ~told[t].early => Sound(x.kind, x.at, x.ws, x.failed, file[t], Left(t)', Tree(t)')
    BY <2>2
  <2>6. /\ \A s \in Sessions : s # f => worktree'[s] = worktree[s]
        /\ \A s \in Sessions : s # t => previews'[s] = previews[s] /\ lost'[s] = lost[s]
    OBVIOUS
  <2>7. worktree' \in [Sessions -> {"none", "branch", "full"}] /\ lost' \in [Sessions -> SUBSET Nat]
        /\ started' \in [Sessions -> Nat]
    BY DEF SessionInv, Domains, TypeOK
  <2>8. x.at # "saving" /\ x.at # "forget" /\ flow[f].at # "idle"
    BY <1>1, <2>2 DEF Fits
  <2>9. NextPlace(f, t, x)
    BY <2>1, <2>3, <2>4, <2>5, <2>6, <2>7, <2>8 DEF NextPlace
  <2> QED
    BY <2>9, MovesOn
<1> QED
  BY <1>3, <1>4

\* What an operation finds, by the place it is at.
LEMMA Here ==
  ASSUME SessionInv, NEW f \in Flows, flow[f].at \notin {"idle", "saving", "cleaned", "end"}
  PROVE  /\ SessionOf(f) \in Sessions /\ flow \in [Flows -> FlowStates] /\ flow[f] \in FlowStates
         /\ flow[f].kind # "idle" /\ Fits(flow[f].kind, flow[f].at)
         /\ f \in Sessions => SessionOf(f) = f /\ f # Recovery
         /\ worktree \in [Sessions -> {"none", "branch", "full"}]
         /\ previews \in [Sessions -> SUBSET (1..MaxStarts)] /\ lost \in [Sessions -> SUBSET Nat]
         /\ tunnel \in [Sessions -> BOOLEAN] /\ started \in [Sessions -> Nat]
         /\ Left(SessionOf(f)) \subseteq 1..MaxStarts
         /\ MaxStarts \in Nat /\ file \in [Sessions -> Workspace \cup {None}]
         /\ ~told[SessionOf(f)].early =>
              /\ Sound(flow[f].kind, flow[f].at, flow[f].ws, flow[f].failed, file[SessionOf(f)],
                       Left(SessionOf(f)), Tree(SessionOf(f)))
              /\ saving = NoSave => persisted[SessionOf(f)] = file[SessionOf(f)]
<1>1. flow[f].kind # "idle" /\ flow \in [Flows -> FlowStates] /\ Fits(flow[f].kind, flow[f].at)
  BY DEF SessionInv, Domains, Fits
<1>2. /\ SessionOf(f) \in Sessions
      /\ f \in Sessions => SessionOf(f) = f /\ f # Recovery
      /\ ~told[SessionOf(f)].early =>
           /\ Sound(flow[f].kind, flow[f].at, flow[f].ws, flow[f].failed, file[SessionOf(f)],
                    Left(SessionOf(f)), Tree(SessionOf(f)))
           /\ recovery.stage \notin {"none", "load"}
  BY <1>1, Acting
<1>3. /\ worktree \in [Sessions -> {"none", "branch", "full"}]
      /\ previews \in [Sessions -> SUBSET (1..MaxStarts)] /\ lost \in [Sessions -> SUBSET Nat]
      /\ tunnel \in [Sessions -> BOOLEAN] /\ started \in [Sessions -> Nat]
      /\ file \in [Sessions -> Workspace \cup {None}]
  BY DEF SessionInv, Domains, TypeOK
<1>4. Left(SessionOf(f)) \subseteq 1..MaxStarts
  BY <1>2, <1>3 DEF Left
<1>5. MaxStarts \in Nat
  BY BoundsAssumption DEF MaxStarts
<1>6. ~told[SessionOf(f)].early /\ saving = NoSave => persisted[SessionOf(f)] = file[SessionOf(f)]
  BY <1>2 DEF SessionInv, RecordsAgree
<1> QED
  BY <1>1, <1>2, <1>3, <1>4, <1>5, <1>6

\* The steps of an operation that make or remove its worktree.
LEMMA WorktreeSteps ==
  ASSUME SessionInv, NEW s \in Sessions,
         CreateWorktree(s) \/ FailWorktree(s) \/ RemoveWorktree(s) \/ FailRemoveWorktree(s)
  PROVE  SessionInv'
<1> USE Names
<1>0. s \in Flows /\ flow[s].at \in {"worktree", "remove"}
  BY DEF Flows, CreateWorktree, FailWorktree, RemoveWorktree, FailRemoveWorktree, At
<1>1. /\ SessionOf(s) = s /\ s # Recovery /\ flow \in [Flows -> FlowStates] /\ flow[s] \in FlowStates
      /\ flow[s].kind # "idle" /\ Fits(flow[s].kind, flow[s].at)
      /\ worktree \in [Sessions -> {"none", "branch", "full"}]
      /\ previews \in [Sessions -> SUBSET (1..MaxStarts)] /\ lost \in [Sessions -> SUBSET Nat]
      /\ tunnel \in [Sessions -> BOOLEAN] /\ started \in [Sessions -> Nat]
      /\ ~told[s].early => Sound(flow[s].kind, flow[s].at, flow[s].ws, flow[s].failed, file[s], Left(s), Tree(s))
  BY <1>0, Here
<1>2. ASSUME CreateWorktree(s)
      PROVE  SessionInv'
  <2>1. PICK deaf \in BOOLEAN : deaf = Deafen(s)
    BY DEF Deafen
  <2>2. PICK x \in FlowStates : x = [flow[s] EXCEPT !.at = "register", !.deaf = deaf]
    BY <1>1, Fields DEF Places
  <2>3. x.kind = "prepare" /\ x.at = "register" /\ x.ws = flow[s].ws /\ x.failed = flow[s].failed
    BY <1>1, <1>2, <2>2 DEF FlowStates, Fits, CreateWorktree, At
  <2>4. flow' = [flow EXCEPT ![s] = x]
    BY <1>1, <1>2, <2>1, <2>2 DEF CreateWorktree
  <2>5. ~told[s].early => Sound(x.kind, x.at, x.ws, x.failed, file[s], Left(s)', Tree(s)')
    <3>1. Left(s)' = Left(s)
      BY <1>2 DEF CreateWorktree, Left, process
    <3> QED
      BY <1>1, <1>2, <2>3, <3>1 DEF Sound, CreateWorktree, At, Named
  <2>6. NextPlace(s, s, x)
    BY <1>0, <1>1, <1>2, <2>3, <2>4, <2>5 DEF NextPlace, CreateWorktree, process, Fits, At
  <2> QED
    BY <1>0, <2>6, MovesOn
<1>3. ASSUME FailWorktree(s)
      PROVE  SessionInv'
  <2>2. PICK x \in FlowStates : x = [flow[s] EXCEPT !.at = "end", !.failed = TRUE]
    BY <1>1, Fields DEF Places
  <2>3. x.kind = "prepare" /\ x.at = "end" /\ x.ws = flow[s].ws
    BY <1>1, <1>3, <2>2 DEF FlowStates, Fits, FailWorktree, At
  <2>4. flow' = [flow EXCEPT ![s] = x]
    BY <1>1, <1>3, <2>2 DEF FailWorktree
  <2>5. ~told[s].early => Sound(x.kind, x.at, x.ws, x.failed, file[s], Left(s)', Tree(s)')
    <3>1. Left(s)' = Left(s) /\ Tree(s)' = Tree(s)
      BY <1>3 DEF FailWorktree, Left, Tree, process, resources
    <3> QED
      BY <1>1, <1>3, <2>3, <3>1 DEF Sound, FailWorktree, At, Named
  <2>6. NextPlace(s, s, x)
    BY <1>0, <1>1, <1>3, <2>3, <2>4, <2>5 DEF NextPlace, FailWorktree, process, resources, Fits, At
  <2> QED
    BY <1>0, <2>6, MovesOn
<1>4. ASSUME RemoveWorktree(s)
      PROVE  SessionInv'
  <2>1. PICK at \in {"end", "forget"} : at = IF flow[s].failed THEN "end" ELSE "forget"
    OBVIOUS
  <2>2. PICK x \in FlowStates : x = [flow[s] EXCEPT !.at = at]
    BY <1>1, <2>1, Fields DEF Places
  <2>3. x.kind = flow[s].kind /\ x.kind \in {"rollback", "close"} /\ x.at = at /\ x.ws = flow[s].ws
    BY <1>1, <1>4, <2>2 DEF FlowStates, Fits, RemoveWorktree, At
  <2>4. flow' = [flow EXCEPT ![s] = x]
    BY <1>1, <1>4, <2>1, <2>2 DEF RemoveWorktree
  <2>5. worktree' = [worktree EXCEPT ![s] = "none"] /\ worktree'[s] = "none"
    BY <1>1, <1>4 DEF RemoveWorktree
  <2>6. ~told[s].early => Sound(x.kind, x.at, x.ws, x.failed, file[s], Left(s)', Tree(s)')
    <3>1. Left(s)' = Left(s) /\ Tree(s)' = "none"
      BY <1>4, <2>5 DEF RemoveWorktree, Left, Tree, process
    <3> QED
      BY <1>1, <1>4, <2>1, <2>3, <3>1 DEF Sound, RemoveWorktree, At, Named
  <2>8. Fits(x.kind, x.at) /\ x.at # "saving"
    BY <2>1, <2>3 DEF Fits
  <2>9. UNCHANGED <<registry, queue, recovery, agent, told, previews, lost, tunnel, started>>
    BY <1>4 DEF RemoveWorktree, process
  <2>7. NextPlace(s, s, x)
    BY <1>0, <1>1, <2>3, <2>4, <2>5, <2>6, <2>8, <2>9 DEF NextPlace
  <2> QED
    BY <1>0, <2>7, MovesOn
<1>5. ASSUME FailRemoveWorktree(s)
      PROVE  SessionInv'
  <2>1. /\ worktree' \in [Sessions -> {"none", "branch", "full"}]
        /\ \A t \in Sessions : t # s => worktree'[t] = worktree[t]
        /\ worktree'[s] = "none" <=> worktree[s] = "none"
    BY <1>1, <1>5 DEF FailRemoveWorktree
  <2>2. PICK x \in FlowStates : x = [flow[s] EXCEPT !.at = "end", !.failed = TRUE]
    BY <1>1, Fields DEF Places
  <2>3. x.kind = flow[s].kind /\ x.kind \in {"rollback", "close"} /\ x.at = "end" /\ x.ws = flow[s].ws
    BY <1>1, <1>5, <2>2 DEF FlowStates, Fits, FailRemoveWorktree, At
  <2>4. flow' = [flow EXCEPT ![s] = x]
    BY <1>1, <1>5, <2>2 DEF FailRemoveWorktree
  <2>5. lost' = [lost EXCEPT ![s] = IF file[s] = None THEN lost[s] \cup {0} ELSE lost[s]]
    BY <1>5 DEF FailRemoveWorktree
  <2>6. /\ lost' \in [Sessions -> SUBSET Nat] /\ \A t \in Sessions : t # s => lost'[t] = lost[t]
        /\ file[s] = None => 0 \in lost'[s]
        /\ lost[s] \subseteq lost'[s]
    BY <1>1, <2>5
  <2>7. ~told[s].early => Sound(x.kind, x.at, x.ws, x.failed, file[s], Left(s)', Tree(s)')
    <3>1. Left(s)' \subseteq Left(s)
      BY <1>5, <2>6 DEF FailRemoveWorktree, Left
    <3>2. file[s] = None => Tree(s)' # "kept"
      BY <2>6 DEF Tree
    <3> QED
      BY <1>1, <1>5, <2>3, <3>1, <3>2 DEF Sound, FailRemoveWorktree, At, Named
  <2>8. NextPlace(s, s, x)
    BY <1>0, <1>1, <1>5, <2>1, <2>3, <2>4, <2>6, <2>7 DEF NextPlace, FailRemoveWorktree, Fits
  <2> QED
    BY <1>0, <2>8, MovesOn
<1> QED
  BY <1>2, <1>3, <1>4, <1>5

\* The registration and the unregistration of a session.
LEMMA RecordSteps ==
  ASSUME SessionInv, NEW s \in Sessions, Register(s) \/ Forget(s)
  PROVE  SessionInv'
<1> USE Names
<1>0. s \in Flows /\ flow[s].at \in {"register", "forget"} /\ saving = NoSave
  BY DEF Flows, Register, Forget, At, Save
<1>1. /\ SessionOf(s) = s /\ s # Recovery /\ flow \in [Flows -> FlowStates] /\ flow[s] \in FlowStates
      /\ flow[s].kind # "idle" /\ Fits(flow[s].kind, flow[s].at)
      /\ worktree \in [Sessions -> {"none", "branch", "full"}]
      /\ previews \in [Sessions -> SUBSET (1..MaxStarts)] /\ lost \in [Sessions -> SUBSET Nat]
      /\ tunnel \in [Sessions -> BOOLEAN] /\ started \in [Sessions -> Nat]
      /\ Left(s) \subseteq 1..MaxStarts /\ MaxStarts \in Nat
      /\ ~told[s].early =>
           /\ Sound(flow[s].kind, flow[s].at, flow[s].ws, flow[s].failed, file[s], Left(s), Tree(s))
           /\ persisted[s] = file[s]
  BY <1>0, Here
<1>2. \A x : flow' = [flow EXCEPT ![s].at = x] => flow' = [flow EXCEPT ![s] = [flow[s] EXCEPT !.at = x]]
  BY <1>1
<1>3. ASSUME Register(s)
      PROVE  SessionInv'
  <2>1. PICK ok \in {"end", "open", "start"} :
          ok = IF flow[s].ws.tunnel THEN "end" ELSE IF flow[s].ws.preview # 0 THEN "open" ELSE "start"
    OBVIOUS
  <2>2. /\ Save(s, "register", flow[s].ws, ok, "close") /\ flow' = [flow EXCEPT ![s].at = "saving"]
        /\ UNCHANGED <<resources, queue, recovery, process, told, started>>
    BY <1>3, <2>1 DEF Register, Goto
  <2>3. PICK x \in FlowStates : x = [flow[s] EXCEPT !.at = "saving"]
    BY <1>1, Fields DEF Places
  <2>4. x.kind = "prepare" /\ x.at = "saving" /\ x.ws = flow[s].ws /\ x.failed = flow[s].failed
        /\ flow[s].kind = "prepare"
    BY <1>1, <1>3, <2>3 DEF FlowStates, Fits, Register, At
  <2>5. flow' = [flow EXCEPT ![s] = x]
    BY <1>2, <2>2, <2>3
  <2>6. /\ flow' \in [Flows -> FlowStates] /\ flow'[s] = x /\ \A g \in Flows : g # s => flow'[g] = flow[g]
    BY <1>0, <1>1, <2>5
  <2>7. Left(s)' = Left(s) /\ Tree(s)' = Tree(s) /\ file' = file
    BY <2>2 DEF Left, Tree, process, resources, Save
  <2>8. flow[s].ws \in Workspace /\ flow[s].ws # None
    BY <1>1 DEF FlowStates
  <2>9. ~told[s].early =>
          /\ Sound(x.kind, x.at, x.ws, x.failed, file[s], Left(s), Tree(s))
          /\ Sound(x.kind, ok, x.ws, x.failed, x.ws, Left(s), Tree(s))
          /\ Sound("rollback", "close", x.ws, FALSE, file[s], Left(s), Tree(s))
    <3> SUFFICES ASSUME ~told[s].early
                 PROVE  /\ Sound(x.kind, x.at, x.ws, x.failed, file[s], Left(s), Tree(s))
                        /\ Sound(x.kind, ok, x.ws, x.failed, x.ws, Left(s), Tree(s))
                        /\ Sound("rollback", "close", x.ws, FALSE, file[s], Left(s), Tree(s))
      OBVIOUS
    <3>1. Left(s) \subseteq {flow[s].ws.preview} /\ (file[s] = None => flow[s].ws.preview = 0)
      BY <1>1, <1>3 DEF Sound, Register, At
    <3>2. Sound(x.kind, x.at, x.ws, x.failed, file[s], Left(s), Tree(s))
      BY <2>4, <3>1 DEF Sound
    <3>3. Sound(x.kind, ok, x.ws, x.failed, x.ws, Left(s), Tree(s))
      BY <2>1, <2>4, <2>8, <3>1 DEF Sound, Named
    <3>4. Sound("rollback", "close", x.ws, FALSE, file[s], Left(s), Tree(s))
      BY <2>4, <3>1 DEF Sound
    <3> QED
      BY <3>2, <3>3, <3>4
  <2>10. ~told[s].early =>
          /\ Sound(flow[s].kind, flow[s].at, flow[s].ws, flow[s].failed, file[s], Left(s), Tree(s))'
          /\ Sound(flow'[s].kind, ok, flow'[s].ws, flow'[s].failed, flow[s].ws, Left(s)', Tree(s)')
          /\ Sound(Undone(flow[s].kind), "close", flow'[s].ws, FALSE, file[s], Left(s)', Tree(s)')
    BY <2>4, <2>6, <2>7, <2>9 DEF Undone
  <2>11. SaveOf(s, s, "register", flow[s].ws, ok, "close")
    BY <1>0, <1>1, <2>1, <2>2, <2>4, <2>6, <2>10 DEF SaveOf, process, resources, Fits
  <2> QED
    BY <1>0, <2>1, <2>8, <2>11, SaveBegins DEF Places
<1>4. ASSUME Forget(s)
      PROVE  SessionInv'
  <2>1. PICK done \in {"end", "cleaned"} : done = IF flow[s].kind = "rollback" THEN "end" ELSE "cleaned"
    OBVIOUS
  <2>2. flow[s].kind \in {"rollback", "close"} /\ Fits(flow[s].kind, done)
    BY <1>1, <1>4, <2>1 DEF Forget, At, Fits
  <2>3. ~told[s].early => Left(s) = {} /\ Tree(s) # "kept"
    BY <1>1, <1>4 DEF Forget, At, Sound
  <2>4. Left(s)' = Left(s) /\ Tree(s)' = Tree(s)
    BY <1>4 DEF Forget, Left, Tree, process, resources
  <2>5. worktree[s] = "none"
    BY <1>4 DEF Forget, At, SessionInv, SavesFit
  <2>6. CASE persisted[s] = None
    <3>1. PICK x \in FlowStates : x = [flow[s] EXCEPT !.at = done]
      BY <1>1, <2>1, Fields DEF Places
    <3>2. x.kind = flow[s].kind /\ x.at = done /\ x.ws = flow[s].ws /\ x.failed = flow[s].failed
      BY <1>1, <3>1 DEF FlowStates
    <3>3. flow' = [flow EXCEPT ![s] = x]
      BY <1>2, <1>4, <2>1, <2>6, <3>1 DEF Forget, Goto
    <3>4. ~told[s].early => Sound(x.kind, x.at, x.ws, x.failed, file[s], Left(s)', Tree(s)')
      BY <1>1, <2>1, <2>3, <2>4, <2>6, <3>2 DEF Sound
    <3>5. UNCHANGED <<registry, queue, recovery, agent, told, resources, lost, started>>
      BY <1>4, <2>6 DEF Forget, process
    <3>6. NextPlace(s, s, x)
      BY <1>0, <1>1, <2>1, <2>2, <3>2, <3>3, <3>4, <3>5 DEF NextPlace, resources
    <3> QED
      BY <1>0, <3>6, MovesOn
  <2>7. CASE persisted[s] # None
    <3>1. PICK x \in FlowStates : x = [flow[s] EXCEPT !.at = "saving"]
      BY <1>1, Fields DEF Places
    <3>2. x.kind = flow[s].kind /\ x.at = "saving" /\ x.ws = flow[s].ws /\ x.failed = flow[s].failed
      BY <1>1, <3>1 DEF FlowStates
    <3>3. /\ Save(s, "unregister", None, done, "end")
          /\ flow' = [flow EXCEPT ![s].at = "saving"]
          /\ UNCHANGED <<resources, queue, recovery, process, told, started>>
      BY <1>4, <2>1, <2>7 DEF Forget, Goto
    <3>4. flow' = [flow EXCEPT ![s] = x]
      BY <1>2, <3>1, <3>3
    <3>5. /\ flow' \in [Flows -> FlowStates] /\ flow'[s] = x /\ \A g \in Flows : g # s => flow'[g] = flow[g]
          /\ file' = file
      BY <1>0, <1>1, <3>3, <3>4 DEF Save
    <3>6. ~told[s].early =>
            /\ Sound(x.kind, x.at, x.ws, x.failed, file[s], Left(s), Tree(s))
            /\ Sound(x.kind, done, x.ws, x.failed, None, Left(s), Tree(s))
            /\ Sound(x.kind, "end", x.ws, TRUE, file[s], Left(s), Tree(s))
      BY <2>1, <2>2, <2>3, <3>2 DEF Sound
    <3>7. ~told[s].early =>
            /\ Sound(flow[s].kind, flow[s].at, flow[s].ws, flow[s].failed, file[s], Left(s), Tree(s))'
            /\ Sound(flow'[s].kind, done, flow'[s].ws, flow'[s].failed, None, Left(s)', Tree(s)')
            /\ Sound(flow[s].kind, "end", flow'[s].ws, TRUE, file[s], Left(s)', Tree(s)')
      BY <2>4, <3>2, <3>5, <3>6
    <3>8. Fits(flow[s].kind, "end")
      BY <2>2 DEF Fits
    <3>9. SaveOf(s, s, "unregister", None, done, "end")
      BY <1>0, <1>1, <2>1, <2>2, <2>5, <2>7, <3>2, <3>3, <3>5, <3>7, <3>8 DEF SaveOf, process, resources
    <3> QED
      BY <1>0, <2>1, <3>9, SaveBegins DEF Places
  <2> QED
    BY <2>6, <2>7
<1> QED
  BY <1>3, <1>4

\* What starting a preview, opening its tunnel or failing to does.
LEMMA PreviewSteps ==
  ASSUME SessionInv, NEW f \in Flows, StartPreview(f) \/ OpenTunnel(f) \/ FailPreview(f)
  PROVE  SessionInv'
<1> USE Names
<1>0. flow[f].at \in {"start", "open"}
  BY DEF StartPreview, OpenTunnel, FailPreview, At
<1>1. PICK t \in Sessions : t = SessionOf(f)
  BY <1>0, Here
<1>2. /\ flow \in [Flows -> FlowStates] /\ flow[f] \in FlowStates
      /\ flow[f].kind # "idle" /\ Fits(flow[f].kind, flow[f].at) /\ (f \in Sessions => t = f)
      /\ worktree \in [Sessions -> {"none", "branch", "full"}]
      /\ previews \in [Sessions -> SUBSET (1..MaxStarts)] /\ lost \in [Sessions -> SUBSET Nat]
      /\ tunnel \in [Sessions -> BOOLEAN] /\ started \in [Sessions -> Nat]
      /\ Left(t) \subseteq 1..MaxStarts /\ MaxStarts \in Nat
      /\ ~told[t].early => Sound(flow[f].kind, flow[f].at, flow[f].ws, flow[f].failed, file[t], Left(t), Tree(t))
  BY <1>0, <1>1, Here
<1>3. flow[f].kind \in {"prepare", "rebuild"}
  BY <1>0, <1>2 DEF Fits
<1>4. ASSUME StartPreview(f)
      PROVE  SessionInv'
  <2>1. PICK n \in 1..MaxStarts : n = started[t] + 1
    BY <1>1, <1>2, <1>4 DEF StartPreview
  <2>2. PICK ws \in Workspace : ws = [flow[f].ws EXCEPT !.preview = n] /\ ws.preview = n
    <3>1. flow[f].ws \in Workspace /\ n \in 0..MaxStarts
      BY <1>2, <2>1 DEF FlowStates
    <3>2. /\ [flow[f].ws EXCEPT !.preview = n] \in Workspace
          /\ [flow[f].ws EXCEPT !.preview = n].preview = n
      BY <3>1, WorkspaceFields
    <3> QED
      BY <3>2, Zenon
  <2>3. PICK deaf \in BOOLEAN : deaf = IF flow[f].kind = "prepare" THEN Deafen(f) ELSE flow[f].deaf
    BY <1>2 DEF Deafen, FlowStates
  <2>4. PICK at \in {"register", "update"} : at = IF flow[f].kind = "prepare" THEN "register" ELSE "update"
    OBVIOUS
  <2>5. PICK x \in FlowStates : x = [flow[f] EXCEPT !.at = at, !.ws = ws, !.deaf = deaf]
    BY <1>2, <2>4, Fields DEF Places
  <2>6. x.kind = flow[f].kind /\ x.at = at /\ x.ws = ws /\ x.failed = flow[f].failed
    BY <1>2, <2>5 DEF FlowStates
  <2>7. flow' = [flow EXCEPT ![f] = x]
    <3>1. CASE flow[f].kind = "prepare"
      <4>1. flow' = [flow EXCEPT ![f].at = "register", ![f].ws = ws, ![f].deaf = deaf]
        BY <1>1, <1>4, <2>1, <2>2, <2>3, <3>1 DEF StartPreview
      <4> QED
        BY <1>2, <2>4, <2>5, <3>1, <4>1
    <3>2. CASE flow[f].kind # "prepare"
      <4>1. flow' = [flow EXCEPT ![f].at = "update", ![f].ws = ws]
        BY <1>1, <1>4, <2>1, <2>2, <3>2 DEF StartPreview
      <4>2. x = [flow[f] EXCEPT !.at = "update", !.ws = ws]
        BY <1>2, <2>3, <2>4, <2>5, <3>2 DEF FlowStates
      <4> QED
        BY <1>2, <4>1, <4>2
    <3> QED
      BY <3>1, <3>2
  <2>8. Fits(x.kind, x.at) /\ x.at \notin {"saving", "forget"}
    BY <1>3, <2>4, <2>6 DEF Fits
  <2>9. /\ previews' = [previews EXCEPT ![t] = IF t \in Containers /\ previews[t] # {} THEN previews[t]
                                                 ELSE previews[t] \cup {n}]
        /\ started' = [started EXCEPT ![t] = n]
        /\ UNCHANGED <<worktree, tunnel, registry, queue, recovery, agent, lost, told>>
    BY <1>1, <1>4, <2>1 DEF StartPreview, process
  <2>10. /\ previews' \in [Sessions -> SUBSET (1..MaxStarts)] /\ started' \in [Sessions -> Nat]
         /\ \A s \in Sessions : s # t => previews'[s] = previews[s]
         /\ previews'[t] \subseteq previews[t] \cup {n}
    BY <1>2, <2>1, <2>9
  <2>11. ~told[t].early => Sound(x.kind, x.at, x.ws, x.failed, file[t], Left(t)', Tree(t)')
    <3> SUFFICES ASSUME ~told[t].early
                 PROVE  Sound(x.kind, x.at, x.ws, x.failed, file[t], Left(t)', Tree(t)')
      OBVIOUS
    <3>1. Left(t) \subseteq {flow[f].ws.preview} /\ flow[f].ws.preview = 0 /\ file[t] # None
      BY <1>2, <1>4 DEF Sound, StartPreview, At
    <3>2. Left(t) = {}
      BY <1>2, <3>1
    <3>3. Left(t)' \subseteq {n}
      BY <2>9, <2>10, <3>2 DEF Left
    <3> QED
      BY <2>2, <2>4, <2>6, <3>1, <3>3 DEF Sound
  <2>12. NextPlace(f, t, x)
    BY <1>0, <1>1, <1>2, <2>6, <2>7, <2>8, <2>9, <2>10, <2>11 DEF NextPlace
  <2> QED
    BY <2>12, MovesOn
<1>5. ASSUME OpenTunnel(f)
      PROVE  SessionInv'
  <2>1. PICK ws \in Workspace : ws = [flow[f].ws EXCEPT !.tunnel = TRUE] /\ ws.preview = flow[f].ws.preview
    <3>1. flow[f].ws \in Workspace
      BY <1>2 DEF FlowStates
    <3> QED
      BY <3>1, WorkspaceFields
  <2>2. PICK at \in {"register", "update"} : at = IF flow[f].kind = "prepare" THEN "register" ELSE "update"
    OBVIOUS
  <2>3. PICK x \in FlowStates : x = [flow[f] EXCEPT !.at = at, !.ws = ws]
    BY <1>2, <2>2, Fields DEF Places
  <2>4. x.kind = flow[f].kind /\ x.at = at /\ x.ws = ws /\ x.failed = flow[f].failed
    BY <1>2, <2>3 DEF FlowStates
  <2>5. flow' = [flow EXCEPT ![f] = x]
    <3>1. x = [flow[f] EXCEPT !.ws.tunnel = TRUE, !.at = at]
      BY <1>2, <2>1, <2>3 DEF FlowStates
    <3>2. flow' = [flow EXCEPT ![f].ws.tunnel = TRUE, ![f].at = at]
      BY <1>1, <1>5, <2>2 DEF OpenTunnel
    <3> QED
      BY <1>2, <3>1, <3>2
  <2>6. Fits(x.kind, x.at) /\ x.at \notin {"saving", "forget"}
    BY <1>3, <2>2, <2>4 DEF Fits
  <2>7. /\ tunnel' \in [Sessions -> BOOLEAN] /\ Left(t)' = Left(t) /\ Tree(t)' = Tree(t)
        /\ UNCHANGED <<worktree, previews, registry, queue, recovery, agent, lost, told, started>>
    BY <1>2, <1>5 DEF OpenTunnel, process, Left, Tree
  <2>8. ~told[t].early => Sound(x.kind, x.at, x.ws, x.failed, file[t], Left(t)', Tree(t)')
    BY <1>2, <1>5, <2>1, <2>2, <2>4, <2>7 DEF Sound, OpenTunnel, At
  <2>9. NextPlace(f, t, x)
    BY <1>0, <1>1, <1>2, <2>4, <2>5, <2>6, <2>7, <2>8 DEF NextPlace
  <2> QED
    BY <2>9, MovesOn
<1>6. ASSUME FailPreview(f)
      PROVE  SessionInv'
  <2>1. PICK kind \in {"rollback", "undo"} : kind = Undone(flow[f].kind)
    BY <1>3 DEF Undone
  <2>2. PICK x \in FlowStates : x = [flow[f] EXCEPT !.kind = kind, !.at = "close"]
    BY <1>2, <2>1, Fields DEF Places, SessionKinds, RecoveryKinds
  <2>3. x.kind = kind /\ x.at = "close" /\ x.ws = flow[f].ws /\ x.failed = flow[f].failed
    BY <1>2, <2>2 DEF FlowStates
  <2>4. flow' = [flow EXCEPT ![f] = x]
    BY <1>2, <1>6, <2>1, <2>2 DEF FailPreview, Undo
  <2>5. Fits(x.kind, x.at)
    BY <2>1, <2>3 DEF Fits
  <2>6. /\ Left(t)' = Left(t) /\ Tree(t)' = Tree(t)
        /\ UNCHANGED <<resources, registry, queue, recovery, agent, lost, told, started>>
    BY <1>6 DEF FailPreview, process, Left, Tree, resources
  <2>7. ~told[t].early => Sound(x.kind, x.at, x.ws, x.failed, file[t], Left(t)', Tree(t)')
    BY <1>0, <1>2, <2>1, <2>3, <2>6 DEF Sound
  <2>8. NextPlace(f, t, x)
    BY <1>0, <1>1, <1>2, <2>1, <2>3, <2>4, <2>5, <2>6, <2>7 DEF NextPlace, resources
  <2> QED
    BY <2>8, MovesOn
<1> QED
  BY <1>4, <1>5, <1>6

\* The updates of a rebuild, and those the closing of a tunnel brings.
LEMMA UpdateSteps ==
  ASSUME SessionInv, NEW f \in Flows, UpdateRebuilt(f) \/ CloseTunnel(f) \/ CloseTunnelInVain(f) \/ FailCloseTunnel(f)
  PROVE  SessionInv'
<1> USE Names
<1>0. flow[f].at \in {"update", "close"}
  BY DEF UpdateRebuilt, CloseTunnel, CloseTunnelInVain, FailCloseTunnel, At
<1>1. PICK t \in Sessions : t = SessionOf(f)
  BY <1>0, Here
<1>2. /\ flow \in [Flows -> FlowStates] /\ flow[f] \in FlowStates
      /\ flow[f].kind # "idle" /\ Fits(flow[f].kind, flow[f].at) /\ (f \in Sessions => t = f)
      /\ worktree \in [Sessions -> {"none", "branch", "full"}]
      /\ previews \in [Sessions -> SUBSET (1..MaxStarts)] /\ lost \in [Sessions -> SUBSET Nat]
      /\ tunnel \in [Sessions -> BOOLEAN] /\ started \in [Sessions -> Nat]
      /\ ~told[t].early =>
           /\ Sound(flow[f].kind, flow[f].at, flow[f].ws, flow[f].failed, file[t], Left(t), Tree(t))
           /\ saving = NoSave => persisted[t] = file[t]
  BY <1>0, <1>1, Here
<1>3. flow[f].ws \in Workspace /\ flow[f].ws # None
  BY <1>2 DEF FlowStates
<1>4. ASSUME UpdateRebuilt(f)
      PROVE  SessionInv'
  <2>1. PICK ok \in {"rebuilt", "open"} : ok = IF flow[f].ws.tunnel THEN "rebuilt" ELSE "open"
    OBVIOUS
  <2>2. /\ Update(f, flow[f].ws, ok, "close")
        /\ UNCHANGED <<resources, queue, recovery, process, told, started>>
        /\ flow[f].at = "update" /\ flow[f].kind = "rebuild"
    BY <1>2, <1>4, <2>1 DEF UpdateRebuilt, At, Fits
  <2>3. Left(t)' = Left(t) /\ Tree(t)' = Tree(t)
    BY <2>2 DEF Left, Tree, resources, process
  <2>4. ~told[t].early =>
          /\ Sound(flow[f].kind, "saving", flow[f].ws, flow[f].failed, file[t], Left(t)', Tree(t)')
          /\ Sound(flow[f].kind, ok, flow[f].ws, flow[f].failed, flow[f].ws, Left(t)', Tree(t)')
          /\ Sound(Undone(flow[f].kind), "close", flow[f].ws, FALSE, file[t], Left(t)', Tree(t)')
    <3> SUFFICES ASSUME ~told[t].early
                 PROVE  /\ Sound("rebuild", "saving", flow[f].ws, flow[f].failed, file[t], Left(t), Tree(t))
                        /\ Sound("rebuild", ok, flow[f].ws, flow[f].failed, flow[f].ws, Left(t), Tree(t))
                        /\ Sound("undo", "close", flow[f].ws, FALSE, file[t], Left(t), Tree(t))
      BY <2>2, <2>3 DEF Undone
    <3>1. Left(t) \subseteq {flow[f].ws.preview} /\ file[t] # None
      BY <1>2, <2>2 DEF Sound
    <3>2. Sound("rebuild", "saving", flow[f].ws, flow[f].failed, file[t], Left(t), Tree(t))
      BY <3>1 DEF Sound
    <3>3. Sound("rebuild", ok, flow[f].ws, flow[f].failed, flow[f].ws, Left(t), Tree(t))
      BY <1>3, <2>1, <3>1 DEF Sound, Named
    <3>4. Sound("undo", "close", flow[f].ws, FALSE, file[t], Left(t), Tree(t))
      BY <3>1 DEF Sound
    <3> QED
      BY <3>2, <3>3, <3>4
  <2>5. UpdateOf(f, t, flow[f].ws, ok, "close")
    <3>1. Fits(flow[f].kind, ok)
      BY <2>1, <2>2 DEF Fits
    <3> QED
      BY <1>1, <1>2, <2>1, <2>2, <2>4, <3>1 DEF UpdateOf, resources, process
  <2> QED
    BY <1>3, <2>1, <2>5, Updates DEF Places
<1>5. ASSUME CloseTunnel(f) \/ CloseTunnelInVain(f), flow[f].ws.tunnel
      PROVE  SessionInv'
  <2>1. PICK ws \in Workspace : ws = [flow[f].ws EXCEPT !.tunnel = FALSE] /\ ws.preview = flow[f].ws.preview
    BY <1>3, WorkspaceFields
  <2>2. /\ Update(f, ws, "stop", "stop")
        /\ UNCHANGED <<worktree, previews, queue, recovery, process, told, started>>
        /\ tunnel' \in [Sessions -> BOOLEAN] /\ flow[f].at = "close"
    BY <1>1, <1>2, <1>5, <2>1 DEF CloseTunnel, CloseTunnelInVain, At, resources
  <2>3. Left(t)' = Left(t) /\ Tree(t)' = Tree(t)
    BY <2>2 DEF Left, Tree, process
  <2>4. ~told[t].early =>
          /\ Sound(flow[f].kind, "saving", ws, flow[f].failed, file[t], Left(t)', Tree(t)')
          /\ Sound(flow[f].kind, "stop", ws, flow[f].failed, ws, Left(t)', Tree(t)')
          /\ Sound(flow[f].kind, "stop", ws, TRUE, file[t], Left(t)', Tree(t)')
    <3> SUFFICES ASSUME ~told[t].early
                 PROVE  /\ Sound(flow[f].kind, "saving", ws, flow[f].failed, file[t], Left(t), Tree(t))
                        /\ Sound(flow[f].kind, "stop", ws, flow[f].failed, ws, Left(t), Tree(t))
                        /\ Sound(flow[f].kind, "stop", ws, TRUE, file[t], Left(t), Tree(t))
      BY <2>3
    <3>1. /\ Left(t) \subseteq {ws.preview} /\ (file[t] = None => ws.preview = 0) /\ ws # None
          /\ flow[f].kind \in {"close", "shutdown", "rebuild", "undo"} => file[t] # None
      BY <1>2, <2>1, <2>2 DEF Sound
    <3>2. Sound(flow[f].kind, "saving", ws, flow[f].failed, file[t], Left(t), Tree(t))
      BY <3>1 DEF Sound
    <3>3. Sound(flow[f].kind, "stop", ws, flow[f].failed, ws, Left(t), Tree(t))
      BY <3>1 DEF Sound
    <3>4. Sound(flow[f].kind, "stop", ws, TRUE, file[t], Left(t), Tree(t))
      BY <3>1 DEF Sound
    <3> QED
      BY <3>2, <3>3, <3>4
  <2>5. UpdateOf(f, t, ws, "stop", "stop")
    <3>1. Fits(flow[f].kind, "stop")
      BY <1>2, <2>2 DEF Fits
    <3> QED
      BY <1>1, <1>2, <2>2, <2>4, <3>1 DEF UpdateOf, process
  <2> QED
    BY <2>5, Updates DEF Places
<1>6. ASSUME FailCloseTunnel(f) \/ (CloseTunnel(f) /\ ~flow[f].ws.tunnel)
      PROVE  SessionInv'
  <2>1. PICK failed \in BOOLEAN : failed = IF FailCloseTunnel(f) THEN TRUE ELSE flow[f].failed
    BY <1>2 DEF FlowStates
  <2>2. PICK x \in FlowStates : x = [flow[f] EXCEPT !.at = "stop", !.failed = failed]
    BY <1>2, Fields DEF Places
  <2>3. x.kind = flow[f].kind /\ x.at = "stop" /\ x.ws = flow[f].ws
    BY <1>2, <2>2 DEF FlowStates
  <2>4. flow' = [flow EXCEPT ![f] = x]
    <3>1. CASE FailCloseTunnel(f)
      BY <1>2, <2>1, <2>2, <3>1 DEF FailCloseTunnel
    <3>2. CASE ~FailCloseTunnel(f)
      <4>1. x = [flow[f] EXCEPT !.at = "stop"]
        BY <1>2, <2>1, <2>2, <3>2 DEF FlowStates
      <4>2. flow' = [flow EXCEPT ![f].at = "stop"]
        BY <1>6, <3>2 DEF CloseTunnel, Goto
      <4> QED
        BY <1>2, <4>1, <4>2
    <3> QED
      BY <3>1, <3>2
  <2>5. /\ Left(t)' = Left(t) /\ Tree(t)' = Tree(t) /\ flow[f].at = "close"
        /\ UNCHANGED <<worktree, previews, tunnel, registry, queue, recovery, agent, lost, told, started>>
    BY <1>6 DEF FailCloseTunnel, CloseTunnel, process, Left, Tree, resources, At
  <2>6. Fits(x.kind, x.at)
    BY <1>2, <2>3, <2>5 DEF Fits
  <2>7. ~told[t].early => Sound(x.kind, x.at, x.ws, x.failed, file[t], Left(t)', Tree(t)')
    BY <1>2, <2>3, <2>5 DEF Sound
  <2>8. NextPlace(f, t, x)
    BY <1>0, <1>1, <1>2, <2>3, <2>4, <2>5, <2>6, <2>7 DEF NextPlace
  <2> QED
    BY <2>8, MovesOn
<1> QED
  BY <1>4, <1>5, <1>6 DEF CloseTunnelInVain

\* The removal of a preview.
LEMMA StopSteps ==
  ASSUME SessionInv, NEW f \in Flows, StopPreview(f) \/ FailStopPreview(f)
  PROVE  SessionInv'
<1> USE Names
<1>0. flow[f].at = "stop"
  BY DEF StopPreview, FailStopPreview, At
<1>1. PICK t \in Sessions : t = SessionOf(f)
  BY <1>0, Here
<1>2. /\ flow \in [Flows -> FlowStates] /\ flow[f] \in FlowStates
      /\ flow[f].kind # "idle" /\ Fits(flow[f].kind, flow[f].at) /\ (f \in Sessions => t = f)
      /\ worktree \in [Sessions -> {"none", "branch", "full"}]
      /\ previews \in [Sessions -> SUBSET (1..MaxStarts)] /\ lost \in [Sessions -> SUBSET Nat]
      /\ tunnel \in [Sessions -> BOOLEAN] /\ started \in [Sessions -> Nat]
      /\ Left(t) \subseteq 1..MaxStarts /\ MaxStarts \in Nat /\ file \in [Sessions -> Workspace \cup {None}]
      /\ ~told[t].early =>
           /\ Sound(flow[f].kind, flow[f].at, flow[f].ws, flow[f].failed, file[t], Left(t), Tree(t))
           /\ saving = NoSave => persisted[t] = file[t]
  BY <1>0, <1>1, Here
<1>3. /\ flow[f].ws \in Workspace
      /\ flow[f].kind \in {"close", "rollback", "shutdown", "rebuild", "undo"}
  BY <1>0, <1>2 DEF FlowStates, Fits
<1>4. PICK at \in {"remove", "end", "removed", "suspend"} :
        /\ at = AfterStop(f) /\ Fits(flow[f].kind, at)
        /\ at = "end" => flow[f].kind = "shutdown"
        /\ at = "removed" => flow[f].kind = "rebuild"
  <2>1. /\ flow[f].kind \in {"close", "rollback"} => AfterStop(f) = "remove"
        /\ flow[f].kind = "shutdown" => AfterStop(f) = "end"
        /\ flow[f].kind = "rebuild" => AfterStop(f) = "removed"
        /\ flow[f].kind = "undo" => AfterStop(f) = "suspend"
    BY DEF AfterStop, CleansUp
  <2> QED
    BY <1>3, <2>1 DEF Fits
<1>5. ~told[t].early =>
        /\ Left(t) \subseteq {flow[f].ws.preview} /\ (file[t] = None => flow[f].ws.preview = 0)
        /\ flow[f].kind \in {"close", "shutdown", "rebuild", "undo"} => file[t] # None
  BY <1>0, <1>2 DEF Sound
<1>6. ASSUME StopPreview(f), flow[f].ws.preview # 0
      PROVE  SessionInv'
  <2>1. PICK ws \in Workspace : ws = [flow[f].ws EXCEPT !.preview = 0] /\ ws.preview = 0
    <3>1. 0 \in 0..MaxStarts
      BY <1>2
    <3>2. [flow[f].ws EXCEPT !.preview = 0] \in Workspace /\ [flow[f].ws EXCEPT !.preview = 0].preview = 0
      BY <1>3, <3>1, WorkspaceFields
    <3> QED
      BY <3>2, Zenon
  <2>2. /\ Update(f, ws, at, at)
        /\ UNCHANGED <<worktree, tunnel, queue, recovery, process, told, started>>
        /\ previews' = [previews EXCEPT ![t] = Stopped(t, flow[f].ws.preview)]
    BY <1>1, <1>4, <1>6, <2>1 DEF StopPreview
  <2>3. /\ previews' \in [Sessions -> SUBSET (1..MaxStarts)]
        /\ \A s \in Sessions : s # t => previews'[s] = previews[s]
        /\ Left(t)' \subseteq Left(t) \ {flow[f].ws.preview} /\ Tree(t)' = Tree(t)
    BY <1>2, <2>2 DEF Stopped, Left, Tree, process
  <2>4. ~told[t].early =>
          /\ Sound(flow[f].kind, "saving", ws, flow[f].failed, file[t], Left(t)', Tree(t)')
          /\ Sound(flow[f].kind, at, ws, flow[f].failed, ws, Left(t)', Tree(t)')
          /\ Sound(flow[f].kind, at, ws, TRUE, file[t], Left(t)', Tree(t)')
    <3> SUFFICES ASSUME ~told[t].early
                 PROVE  /\ Sound(flow[f].kind, "saving", ws, flow[f].failed, file[t], Left(t)', Tree(t)')
                        /\ Sound(flow[f].kind, at, ws, flow[f].failed, ws, Left(t)', Tree(t)')
                        /\ Sound(flow[f].kind, at, ws, TRUE, file[t], Left(t)', Tree(t)')
      OBVIOUS
    <3>1. Left(t)' = {} /\ ws # None
      BY <1>5, <2>3
    <3>2. Sound(flow[f].kind, "saving", ws, flow[f].failed, file[t], Left(t)', Tree(t)')
      BY <1>5, <3>1 DEF Sound
    <3>3. Sound(flow[f].kind, at, ws, flow[f].failed, ws, Left(t)', Tree(t)')
      BY <2>1, <3>1 DEF Sound
    <3>4. Sound(flow[f].kind, at, ws, TRUE, file[t], Left(t)', Tree(t)')
      BY <1>4, <1>5, <3>1 DEF Sound
    <3> QED
      BY <3>2, <3>3, <3>4
  <2>5. UpdateOf(f, t, ws, at, at)
    BY <1>0, <1>1, <1>2, <1>4, <2>2, <2>3, <2>4 DEF UpdateOf, process
  <2> QED
    BY <1>4, <2>5, Updates DEF Places
<1>7. ASSUME FailStopPreview(f) \/ (StopPreview(f) /\ flow[f].ws.preview = 0)
      PROVE  SessionInv'
  <2>1. PICK failed \in BOOLEAN : failed = IF FailStopPreview(f) THEN TRUE ELSE flow[f].failed
    BY <1>2 DEF FlowStates
  <2>2. PICK x \in FlowStates : x = [flow[f] EXCEPT !.at = at, !.failed = failed]
    BY <1>2, <1>4, Fields DEF Places
  <2>3. x.kind = flow[f].kind /\ x.at = at /\ x.ws = flow[f].ws /\ x.failed = failed
    BY <1>2, <2>2 DEF FlowStates
  <2>4. flow' = [flow EXCEPT ![f] = x]
    <3>1. CASE FailStopPreview(f)
      BY <1>2, <1>4, <2>1, <2>2, <3>1 DEF FailStopPreview
    <3>2. CASE ~FailStopPreview(f)
      <4>1. x = [flow[f] EXCEPT !.at = at]
        BY <1>2, <2>1, <2>2, <3>2 DEF FlowStates
      <4>2. flow' = [flow EXCEPT ![f].at = at]
        BY <1>4, <1>7, <3>2 DEF StopPreview, Goto
      <4> QED
        BY <1>2, <4>1, <4>2
    <3> QED
      BY <3>1, <3>2
  <2>5. UNCHANGED <<worktree, previews, tunnel, registry, queue, recovery, agent, told, started>>
    BY <1>7 DEF FailStopPreview, StopPreview, process, resources
  <2>6. /\ lost' \in [Sessions -> SUBSET Nat] /\ \A s \in Sessions : s # t => lost'[s] = lost[s]
        /\ lost[t] \subseteq lost'[t]
        /\ FailStopPreview(f) => {flow[f].ws.preview} \ Named(file[t]) \subseteq lost'[t]
    <3>1. CASE FailStopPreview(f)
      <4>1. lost' = [lost EXCEPT ![t] = lost[t] \cup ({flow[f].ws.preview} \ Named(file[t]))]
        BY <1>1, <3>1 DEF FailStopPreview
      <4>2. {flow[f].ws.preview} \subseteq Nat
        BY <1>2, <1>3 DEF Workspace
      <4> QED
        BY <1>2, <4>1, <4>2
    <3>2. CASE ~FailStopPreview(f)
      BY <1>2, <1>7, <3>2 DEF StopPreview, process
    <3> QED
      BY <3>1, <3>2
  <2>7. ~told[t].early => Sound(x.kind, x.at, x.ws, x.failed, file[t], Left(t)', Tree(t)')
    <3> SUFFICES ASSUME ~told[t].early
                 PROVE  Sound(x.kind, x.at, x.ws, x.failed, file[t], Left(t)', Tree(t)')
      OBVIOUS
    <3>1. Left(t)' \subseteq Left(t)
      BY <2>5, <2>6 DEF Left
    <3>2. ~failed => Left(t)' = {} /\ x.ws.preview = 0
      BY <1>2, <1>5, <1>7, <2>1, <2>3, <3>1
    <3>3. Left(t)' \subseteq Named(file[t])
      <4>1. CASE FailStopPreview(f)
        BY <1>5, <2>5, <2>6, <4>1 DEF Left
      <4>2. CASE ~FailStopPreview(f)
        BY <1>2, <1>5, <1>7, <3>1, <4>2
      <4> QED
        BY <4>1, <4>2
    <3> QED
      BY <1>4, <1>5, <2>3, <3>2, <3>3 DEF Sound
  <2>8. NextPlace(f, t, x)
    BY <1>0, <1>1, <1>2, <1>4, <2>3, <2>4, <2>5, <2>6, <2>7 DEF NextPlace
  <2> QED
    BY <2>8, MovesOn
<1> QED
  BY <1>6, <1>7

\* What holds a session's lock begins with what it finds in the registry.
LEMMA BeginSteps ==
  ASSUME SessionInv, NEW s \in Sessions, BeginPrepare(s) \/ BeginClose(s) \/ BeginShutdown(s)
  PROVE  SessionInv'
<1> USE Names
<1>0. /\ s \in Flows /\ queue[s] # <<>> /\ flow[s].at = "idle"
      /\ UNCHANGED <<resources, registry, queue, recovery, process, started, told, count>>
  BY DEF Flows, BeginPrepare, BeginClose, BeginShutdown, At
<1>1. /\ SessionOf(s) = s /\ flow[s].kind = "idle" /\ flow \in [Flows -> FlowStates] /\ s # Recovery
      /\ ~told[s].early =>
           /\ s = Operator(s) /\ recovery.stage \notin {"none", "load"}
           /\ Left(s) \subseteq Named(file[s]) /\ (file[s] = None => Tree(s) # "kept")
           /\ told[s].cleaned => file[s] = None
  <2>1. Fits(flow[s].kind, flow[s].at) /\ flow \in [Flows -> FlowStates]
    BY <1>0 DEF SessionInv, Domains
  <2>2. flow[s].kind = "idle"
    BY <1>0, <2>1 DEF Fits
  <2>3. ~told[s].early => Left(s) \subseteq Named(file[s]) /\ (file[s] = None => Tree(s) # "kept")
    <3>1. ~told[s].early =>
            Sound(flow[s].kind, "idle", flow[s].ws, flow[s].failed, file[s], Left(s), Tree(s))
      BY <1>0, Acting
    <3> QED
      BY <3>1 DEF Sound
  <2>4. ~told[s].early /\ told[s].cleaned => file[s] = None
    BY DEF SessionInv, OperationsAreSound, OperationIsSound
  <2> QED
    BY <1>0, <2>1, <2>2, <2>3, <2>4, Acting
<1>2. ~told[s].early => persisted[s] = file[s] /\ (active[s] # None => active[s] = file[s])
  <2> SUFFICES ASSUME ~told[s].early
               PROVE  persisted[s] = file[s] /\ (active[s] # None => active[s] = file[s])
    OBVIOUS
  <2>1. ~(saving # NoSave /\ saving.session = s)
    <3> SUFFICES ASSUME saving # NoSave, saving.session = s
                 PROVE  FALSE
      OBVIOUS
    <3>1. saving.flow = s
      BY <1>1 DEF SessionInv, OperationsAreSound, OperationIsSound
    <3>2. flow[s].at = "saving"
      BY <3>1 DEF SessionInv, SavesFit, Saved
    <3> QED
      BY <1>0, <3>2
  <2> QED
    BY <1>1, <2>1 DEF SessionInv, RecordsAgree
<1>3. /\ persisted[s] \in Workspace \cup {None} /\ active[s] \in Workspace \cup {None}
      /\ Head(queue[s]) = queue[s][1] /\ 1 \in DOMAIN queue[s]
      /\ worktree \in [Sessions -> {"none", "branch", "full"}]
      /\ previews \in [Sessions -> SUBSET (1..MaxStarts)] /\ lost \in [Sessions -> SUBSET Nat]
      /\ tunnel \in [Sessions -> BOOLEAN] /\ started \in [Sessions -> Nat]
  <2>1. queue[s] \in Seq({"prepare", "close", "shutdown"})
    BY DEF SessionInv, Domains, TypeOK
  <2>2. Head(queue[s]) = queue[s][1] /\ 1 \in DOMAIN queue[s]
    BY <1>0, <2>1
  <2> QED
    BY <2>2 DEF SessionInv, Domains, TypeOK
<1>4. Left(s)' = Left(s) /\ Tree(s)' = Tree(s)
  BY <1>0 DEF Left, Tree, resources, process
<1>5. ASSUME NEW kind \in {"prepare", "close", "shutdown"}, NEW at \in {"worktree", "close", "cleaned", "end"},
             NEW x \in FlowStates, flow' = [flow EXCEPT ![s] = x], x.kind = kind, x.at = at, Fits(kind, at),
             Head(queue[s]) = "prepare" <=> kind = "prepare",
             ~told[s].early =>
               /\ at = "worktree" => file[s] = None /\ x.ws.preview = 0
               /\ at = "close" => file[s] # None /\ x.ws = file[s]
               /\ at = "cleaned" => file[s] = None
               /\ told[s].cleaned => at \in {"cleaned", "end"}
      PROVE  SessionInv'
  <2>1. flow' \in [Flows -> FlowStates] /\ flow'[s] = x /\ \A g \in Flows : g # s => flow'[g] = flow[g]
    BY <1>0, <1>1, <1>5
  <2>2. ~told[s].early => Sound(x.kind, x.at, x.ws, x.failed, file[s], Left(s), Tree(s))
    BY <1>1, <1>5 DEF Sound, Named
  <2>3. ~told[s].early =>
          Sound(flow[s].kind, flow[s].at, flow[s].ws, flow[s].failed, file[s], Left(s), Tree(s))'
    BY <1>0, <1>4, <2>1, <2>2 DEF registry
  <2>4. x.kind \in SessionKinds
    BY <1>5 DEF SessionKinds
  <2>5. Onward(s, s)
    BY <1>0, <1>1, <1>3, <1>5, <2>1, <2>3, <2>4 DEF Onward, resources, process
  <2> QED
    BY <1>0, <2>5, Moves
<1>7. CASE BeginPrepare(s)
  <2>1. PICK at \in {"worktree", "end"} :
          at = IF \/ active[s] # None /\ active[s].preview # 0 /\ active[s].tunnel
                  \/ persisted[s] # None
               THEN "end" ELSE "worktree"
    OBVIOUS
  <2>2. PICK deaf \in BOOLEAN : deaf = (agent # "up")
    OBVIOUS
  <2>10. PICK x \in FlowStates : x = [Idle EXCEPT !.kind = "prepare", !.deaf = deaf, !.at = at]
    <3>1. "prepare" \in SessionKinds \cup RecoveryKinds /\ at \in Places
      BY <2>1 DEF SessionKinds, Places
    <3> QED
      BY <3>1, Beginnings
  <2>11. Idle \in FlowStates /\ Idle.ws = Bare
    BY Beginnings
  <2>3. x.kind = "prepare" /\ x.at = at /\ x.ws = Bare
    BY <2>10, <2>11 DEF FlowStates
  <2>4. flow' = [flow EXCEPT ![s] = x]
    BY <1>7, <2>1, <2>2, <2>10 DEF BeginPrepare
  <2>5. Bare.preview = 0
    BY DEF Bare
  <2>6. ~told[s].early => ~told[s].cleaned
    BY <1>3, <1>7 DEF SessionInv, QueuesFit, BeginPrepare
  <2>7. Fits("prepare", at)
    BY <2>1 DEF Fits
  <2>8. ~told[s].early =>
          /\ at = "worktree" => file[s] = None /\ x.ws.preview = 0
          /\ ~told[s].cleaned
    BY <1>2, <2>1, <2>3, <2>5, <2>6
  <2>9. Head(queue[s]) = "prepare"
    BY <1>7 DEF BeginPrepare
  <2> QED
    BY <1>5, <2>1, <2>3, <2>4, <2>7, <2>8, <2>9
<1>8. CASE BeginClose(s)
  <2>1. PICK at \in {"cleaned", "close"} : at = IF persisted[s] = None THEN "cleaned" ELSE "close"
    OBVIOUS
  <2>2. PICK ws \in Workspace : ws = IF persisted[s] = None THEN Bare ELSE persisted[s]
    BY <1>3
  <2>10. PICK x \in FlowStates : x = [Idle EXCEPT !.kind = "close", !.at = at, !.ws = ws]
    <3>1. "close" \in SessionKinds \cup RecoveryKinds /\ at \in Places
      BY <2>1 DEF SessionKinds, Places
    <3> QED
      BY <3>1, Beginnings
  <2>11. Idle \in FlowStates /\ Idle.ws = Bare
    BY Beginnings
  <2>3. x.kind = "close" /\ x.at = at /\ x.ws = ws
    BY <2>10, <2>11 DEF FlowStates
  <2>4. flow' = [flow EXCEPT ![s] = x]
    BY <1>8, <2>1, <2>2, <2>10 DEF BeginClose
  <2>5. Fits("close", at)
    BY <2>1 DEF Fits
  <2>6. ~told[s].early =>
          /\ at = "close" => file[s] # None /\ x.ws = file[s]
          /\ at = "cleaned" => file[s] = None
          /\ told[s].cleaned => at = "cleaned"
    BY <1>1, <1>2, <2>1, <2>2, <2>3
  <2>7. Head(queue[s]) # "prepare"
    BY <1>8 DEF BeginClose
  <2> QED
    BY <1>5, <2>1, <2>3, <2>4, <2>5, <2>6, <2>7
<1>9. CASE BeginShutdown(s)
  <2>1. PICK at \in {"end", "close"} : at = IF active[s] = None THEN "end" ELSE "close"
    OBVIOUS
  <2>2. PICK ws \in Workspace : ws = IF active[s] = None THEN Bare ELSE active[s]
    BY <1>3
  <2>10. PICK x \in FlowStates : x = [Idle EXCEPT !.kind = "shutdown", !.at = at, !.ws = ws]
    <3>1. "shutdown" \in SessionKinds \cup RecoveryKinds /\ at \in Places
      BY <2>1 DEF SessionKinds, Places
    <3> QED
      BY <3>1, Beginnings
  <2>11. Idle \in FlowStates /\ Idle.ws = Bare
    BY Beginnings
  <2>3. x.kind = "shutdown" /\ x.at = at /\ x.ws = ws
    BY <2>10, <2>11 DEF FlowStates
  <2>4. flow' = [flow EXCEPT ![s] = x]
    BY <1>9, <2>1, <2>2, <2>10 DEF BeginShutdown
  <2>5. Fits("shutdown", at)
    BY <2>1 DEF Fits
  <2>6. ~told[s].early =>
          /\ at = "close" => file[s] # None /\ x.ws = file[s]
          /\ told[s].cleaned => at = "end"
    BY <1>1, <1>2, <2>1, <2>2, <2>3
  <2>7. Head(queue[s]) # "prepare"
    BY <1>9 DEF BeginShutdown
  <2> QED
    BY <1>5, <2>1, <2>3, <2>4, <2>5, <2>6, <2>7
<1> QED
  BY <1>7, <1>8, <1>9

\* A save under way: whose it is, and what it finds.
LEMMA Waiting ==
  ASSUME SessionInv, saving # NoSave, NEW f \in Flows, f = saving.flow
  PROVE  /\ saving \in Saves /\ saving.session \in Sessions /\ saving.session = SessionOf(f) /\ agent # "down"
         /\ Saved(saving, flow[f]) /\ flow[f].at = "saving" /\ flow[f].kind # "idle"
         /\ flow \in [Flows -> FlowStates]
         /\ flow[f].kind \in (IF f = Recovery THEN RecoveryKinds ELSE SessionKinds)
         /\ f \in Sessions => saving.session = f /\ queue[f] # <<>>
         /\ f = Recovery => recovery.current = saving.session /\ recovery.stage = "rebuild"
         /\ ~told[saving.session].early =>
              f = Operator(saving.session) /\ recovery.stage \notin {"none", "load"} /\ ~told[saving.session].cleaned
<1>1. saving \in Saves /\ Saved(saving, flow[f])
  BY DEF SessionInv, Domains, SavesFit
<1>2. /\ saving.session \in Sessions /\ saving.session = SessionOf(f) /\ flow[f].at = "saving"
  BY <1>1 DEF Saves, Saved
<1>3. /\ flow \in [Flows -> FlowStates] /\ flow[f].kind # "idle"
      /\ flow[f].kind \in (IF f = Recovery THEN RecoveryKinds ELSE SessionKinds)
  BY <1>2 DEF SessionInv, Domains, Fits
<1>4. f \in Sessions => queue[f] # <<>>
  BY <1>3 DEF SessionInv, QueuesFit
<1> QED
  BY <1>1, <1>2, <1>3, <1>4, Acting DEF SessionOf

\* The store answers that it has saved.
LEMMA SaveEnds == ASSUME SessionInv, EndSave PROVE SessionInv'
<1> USE Names
<1>0. /\ saving # NoSave /\ file' = persisted /\ saving' = NoSave
      /\ flow' = [flow EXCEPT ![saving.flow].at = saving.ok]
      /\ lost' = [s \in Sessions |-> IF recovery.stage = "load" /\ persisted[s] = None
                                      THEN lost[s] \cup Unrecorded(s) ELSE lost[s]]
      /\ UNCHANGED <<worktree, previews, tunnel, persisted, active, queue, recovery, agent, started, told>>
  BY DEF EndSave, resources
<1>1. PICK f \in Flows : f = saving.flow
  BY <1>0 DEF SessionInv, Domains, Saves
<1>2. PICK t \in Sessions : t = saving.session
  BY <1>0 DEF SessionInv, Domains, Saves
<1>3. /\ t = SessionOf(f) /\ agent # "down" /\ Saved(saving, flow[f]) /\ flow[f].at = "saving" /\ flow[f].kind # "idle"
      /\ flow \in [Flows -> FlowStates] /\ flow[f] \in FlowStates
      /\ f \in Sessions => t = f /\ queue[f] # <<>>
      /\ f = Recovery => recovery.current = t /\ recovery.stage = "rebuild"
      /\ flow[f].kind \in (IF f = Recovery THEN RecoveryKinds ELSE SessionKinds)
      /\ ~told[t].early => f = Operator(t) /\ recovery.stage \notin {"none", "load"} /\ ~told[t].cleaned
  BY <1>0, <1>1, <1>2, Waiting
<1>4. PICK ok \in Places : ok = saving.ok /\ Fits(flow[f].kind, ok) /\ ok \notin {"idle", "saving", "forget"}
  BY <1>0, <1>3 DEF SessionInv, Domains, Saves, Saved
<1>5. /\ flow' \in [Flows -> FlowStates] /\ \A g \in Flows : g # f => flow'[g] = flow[g]
      /\ flow'[f].kind = flow[f].kind /\ flow'[f].at = ok /\ flow'[f].ws = flow[f].ws
      /\ flow'[f].failed = flow[f].failed
  <2>1. PICK x \in FlowStates : x = [flow[f] EXCEPT !.at = ok]
    BY <1>3, Fields
  <2>2. x.kind = flow[f].kind /\ x.at = ok /\ x.ws = flow[f].ws /\ x.failed = flow[f].failed
    BY <1>3, <2>1 DEF FlowStates
  <2>3. flow' = [flow EXCEPT ![f] = x]
    BY <1>0, <1>1, <1>3, <1>4, <2>1
  <2>4. flow' \in [Flows -> FlowStates] /\ flow'[f] = x /\ \A g \in Flows : g # f => flow'[g] = flow[g]
    BY <1>3, <2>3
  <2> QED
    BY <2>2, <2>4
<1>6. /\ previews \in [Sessions -> SUBSET (1..MaxStarts)] /\ MaxStarts \in Nat
      /\ persisted \in [Sessions -> Workspace \cup {None}]
      /\ lost \in [Sessions -> SUBSET Nat]
  BY BoundsAssumption DEF SessionInv, Domains, TypeOK, MaxStarts
<1>7. Domains'
  <2>1. \A g \in Flows :
          Fits(flow'[g].kind, flow'[g].at) /\ flow'[g].kind \in (IF g = Recovery THEN RecoveryKinds ELSE SessionKinds)
    BY <1>3, <1>4, <1>5 DEF SessionInv, Domains
  <2>2. \A g \in Flows : flow'[g].ws \in Workspace
    BY <1>5 DEF FlowStates
  <2>3. (recovery'.current = None) <=> flow'[Recovery].at = "idle"
    <3>1. CASE f = Recovery
      BY <1>0, <1>3, <1>4, <1>5, <3>1 DEF Flows
    <3>2. CASE f # Recovery
      BY <1>0, <1>5, <3>2 DEF SessionInv, Domains, TypeOK, At, Flows
    <3> QED
      BY <3>1, <3>2
  <2>4. lost' \in [Sessions -> SUBSET Nat]
    <3>1. \A s \in Sessions : Unrecorded(s) \subseteq Nat
      BY <1>6 DEF Unrecorded
    <3> QED
      BY <1>0, <1>6, <3>1
  <2>5. TypeOK'
    BY <1>0, <1>6, <2>2, <2>3 DEF SessionInv, Domains, TypeOK, At
  <2> QED
    BY <1>0, <1>5, <2>1, <2>4, <2>5 DEF SessionInv, Domains
<1>8. ProcessesRun'
  BY <1>0, <1>3 DEF SessionInv, ProcessesRun, Busy
<1>9. QueuesFit'
  <2>1. \A s \in Sessions : flow'[s].kind = flow[s].kind
    BY <1>5 DEF Flows
  <2> QED
    BY <1>0, <2>1 DEF SessionInv, QueuesFit
<1>10. SavesFit'
  BY <1>0, <1>4, <1>5 DEF SessionInv, SavesFit, Flows
<1>11. RecordsAgree'
  BY <1>0 DEF SessionInv, RecordsAgree
<1>12. OperationsAreSound'
  <2> SUFFICES ASSUME NEW s \in Sessions, ~told[s].early
               PROVE  OperationIsSound(s)'
    BY <1>0 DEF OperationsAreSound
  <2>1. Operator(s)' = Operator(s) /\ s # Recovery /\ s \in Flows /\ Operator(s) \in Flows
    BY <1>0 DEF Operator, Flows
  <2>0. OperationIsSound(s)
    BY DEF SessionInv, OperationsAreSound
  <2>2. CASE recovery.stage = "load"
    <3>1. queue[s] = <<>> /\ persisted[s] = None /\ recovery.current = None /\ s \notin recovery.todo
      BY <2>2 DEF SessionInv, ProcessesRun, Busy, Domains
    <3>2. flow[s].kind = "idle" /\ flow[s].at = "idle" /\ s # f
      <4>1. flow[s].kind = "idle"
        BY <3>1 DEF SessionInv, QueuesFit
      <4> QED
        BY <1>3, <2>1, <4>1 DEF SessionInv, Domains, Fits
    <3>3. Step(s)' = flow[s] /\ file'[s] = None
      BY <1>0, <1>5, <2>1, <3>1, <3>2 DEF Step, Operator
    <3>4. lost'[s] = lost[s] \cup Unrecorded(s)
      BY <1>0, <2>2, <3>1
    <3>5. Left(s)' = {} /\ Tree(s)' # "kept"
      BY <1>0, <3>3, <3>4 DEF Left, Tree, Unrecorded, Named
    <3>6. Sound(Step(s)'.kind, Step(s)'.at, Step(s)'.ws, Step(s)'.failed, file'[s], Left(s)', Tree(s)')
      BY <3>2, <3>3, <3>5 DEF Sound
    <3> QED
      BY <1>0, <1>5, <2>1, <3>1, <3>2, <3>3, <3>5, <3>6 DEF OperationIsSound
  <2>3. CASE recovery.stage # "load" /\ s # t
    <3>1. lost' = lost
      BY <1>0, <1>6, <2>3
    <3>2. Left(s)' = Left(s) /\ Tree(s)' = Tree(s)
      BY <1>0, <3>1 DEF Left, Tree
    <3>3. Operator(s) # f /\ s # f
      <4>1. CASE f = Recovery
        <5>1. recovery.current = t
          BY <1>3, <4>1
        <5> QED
          BY <2>1, <2>3, <4>1, <5>1 DEF Operator
      <4>2. CASE f # Recovery
        <5>1. t = f
          BY <1>3, <4>2 DEF Flows
        <5> QED
          BY <2>3, <4>2, <5>1 DEF Operator
      <4> QED
        BY <4>1, <4>2
    <3>4. Step(s)' = Step(s) /\ flow'[s] = flow[s]
      BY <1>5, <2>1, <3>3 DEF Step
    <3>5. recovery.stage # "none"
      BY <1>3 DEF SessionInv, ProcessesRun
    <3>6. file'[s] = file[s]
      BY <1>0, <1>2, <2>3, <3>5 DEF SessionInv, RecordsAgree
    <3> QED
      BY <1>0, <2>0, <2>1, <3>2, <3>4, <3>6 DEF OperationIsSound
  <2>4. CASE recovery.stage # "load" /\ s = t
    <3>1. lost' = lost
      BY <1>0, <1>6, <2>4
    <3>2. Left(s)' = Left(s) /\ Tree(s)' = Tree(s)
      BY <1>0, <3>1 DEF Left, Tree
    <3>3. f = Operator(s) /\ ~told[s].cleaned /\ Step(s) = flow[f] /\ Step(s)' = flow'[f]
      BY <1>3, <2>1, <2>4 DEF Step
    <3>4. Sound(flow[f].kind, ok, flow[f].ws, flow[f].failed, persisted[s], Left(s), Tree(s))
      BY <1>0, <1>2, <1>4, <2>0, <2>4, <3>3 DEF OperationIsSound
    <3>5. Sound(Step(s)'.kind, Step(s)'.at, Step(s)'.ws, Step(s)'.failed, file'[s], Left(s)', Tree(s)')
      BY <1>0, <1>5, <3>2, <3>3, <3>4
    <3>6. s \in recovery.todo => file'[s] # None /\ recovery.current = s
      <4> SUFFICES ASSUME s \in recovery.todo
                   PROVE  persisted[s] # None /\ recovery.current = s
        BY <1>0
      <4>1. queue[s] = <<>>
        BY DEF SessionInv, Domains, ProcessesRun, Busy
      <4>2. f = Recovery
        BY <1>3, <2>4, <4>1 DEF Flows
      <4>3. saving.kind # "unregister" /\ flow[f].ws \in Workspace
        BY <1>3, <4>2 DEF Saved, RecoveryKinds, FlowStates
      <4> QED
        BY <1>2, <1>3, <2>4, <4>2, <4>3 DEF Saved
    <3> QED
      BY <1>0, <2>1, <3>3, <3>5, <3>6 DEF OperationIsSound
  <2> QED
    BY <2>2, <2>3, <2>4
<1> QED
  BY <1>7, <1>8, <1>9, <1>10, <1>11, <1>12 DEF SessionInv

\* The store answers that it could not save.
LEMMA SaveFails == ASSUME SessionInv, FailSave PROVE SessionInv'
<1> USE Names
<1>1. PICK f \in Flows : f = saving.flow
  BY DEF FailSave, SessionInv, Domains, Saves
<1>2. PICK t \in Sessions : t = saving.session
  BY DEF FailSave, SessionInv, Domains, Saves
<1>0. /\ saving # NoSave /\ saving' = NoSave
      /\ persisted' = [persisted EXCEPT ![t] = saving.persisted]
      /\ active' = [active EXCEPT ![t] = IF saving.active # None THEN saving.persisted
                                         ELSE IF saving.kind = "register" THEN None ELSE @]
      /\ flow' = [flow EXCEPT ![f].at = saving.failure, ![f].failed = saving.failure # "close",
                    ![f].kind = IF saving.failure = "close" THEN Undone(@) ELSE @]
      /\ UNCHANGED <<worktree, previews, tunnel, file, queue, recovery, agent, lost, started, told>>
  BY <1>1, <1>2 DEF FailSave, Rollback, resources, process
<1>3. /\ t = SessionOf(f) /\ agent # "down" /\ Saved(saving, flow[f]) /\ flow[f].at = "saving" /\ flow[f].kind # "idle"
      /\ flow \in [Flows -> FlowStates] /\ flow[f] \in FlowStates /\ saving \in Saves
      /\ f \in Sessions => t = f /\ queue[f] # <<>>
      /\ f = Recovery => recovery.current = t /\ recovery.stage = "rebuild"
      /\ flow[f].kind \in (IF f = Recovery THEN RecoveryKinds ELSE SessionKinds)
      /\ ~told[t].early => f = Operator(t) /\ recovery.stage \notin {"none", "load"} /\ ~told[t].cleaned
  BY <1>0, <1>1, <1>2, Waiting
<1>4. PICK failure \in Places :
        /\ failure = saving.failure
        /\ IF failure = "close" THEN flow[f].kind \in {"prepare", "rebuild"}
           ELSE Fits(flow[f].kind, failure) /\ failure \notin {"idle", "saving", "forget"}
  BY <1>3 DEF Saves, Saved
<1>5. PICK kind \in SessionKinds \cup RecoveryKinds : kind = IF failure = "close" THEN Undone(flow[f].kind) ELSE flow[f].kind
  BY <1>3 DEF Undone, SessionKinds, RecoveryKinds
<1>6. /\ Fits(kind, failure) /\ failure \notin {"idle", "saving", "forget"} /\ kind # "idle"
      /\ kind \in (IF f = Recovery THEN RecoveryKinds ELSE SessionKinds)
      /\ kind \in {"prepare", "rollback"} <=> flow[f].kind \in {"prepare", "rollback"}
  <2>1. CASE failure = "close"
    BY <1>3, <1>4, <1>5, <2>1 DEF Undone, Fits, SessionKinds, RecoveryKinds
  <2>2. CASE failure # "close"
    BY <1>3, <1>4, <1>5, <2>2
  <2> QED
    BY <2>1, <2>2
<1>7. /\ flow' \in [Flows -> FlowStates] /\ \A g \in Flows : g # f => flow'[g] = flow[g]
      /\ flow'[f].kind = kind /\ flow'[f].at = failure /\ flow'[f].ws = flow[f].ws
      /\ flow'[f].failed = (failure # "close")
  <2>1. PICK failed \in BOOLEAN : failed = (failure # "close")
    OBVIOUS
  <2>2. PICK x \in FlowStates : x = [flow[f] EXCEPT !.at = failure, !.failed = failed, !.kind = kind]
    BY <1>3, Fields
  <2>3. x.kind = kind /\ x.at = failure /\ x.ws = flow[f].ws /\ x.failed = failed
    BY <1>3, <2>2 DEF FlowStates
  <2>4. flow' = [flow EXCEPT ![f] = x]
    BY <1>0, <1>3, <1>4, <1>5, <2>1, <2>2
  <2>5. flow' \in [Flows -> FlowStates] /\ flow'[f] = x /\ \A g \in Flows : g # f => flow'[g] = flow[g]
    BY <1>3, <2>4
  <2> QED
    BY <2>1, <2>3, <2>5
<1>8. /\ file \in [Sessions -> Workspace \cup {None}]
      /\ persisted \in [Sessions -> Workspace \cup {None}] /\ active \in [Sessions -> Workspace \cup {None}]
      /\ saving.persisted \in Workspace \cup {None}
  BY <1>3 DEF SessionInv, Domains, TypeOK, Saves
<1>9. Domains'
  <2>1. \A g \in Flows :
          Fits(flow'[g].kind, flow'[g].at) /\ flow'[g].kind \in (IF g = Recovery THEN RecoveryKinds ELSE SessionKinds)
    BY <1>6, <1>7 DEF SessionInv, Domains
  <2>2. \A g \in Flows : flow'[g].ws \in Workspace
    BY <1>7 DEF FlowStates
  <2>3. (recovery'.current = None) <=> flow'[Recovery].at = "idle"
    <3>1. CASE f = Recovery
      BY <1>0, <1>3, <1>6, <1>7, <3>1 DEF Flows
    <3>2. CASE f # Recovery
      BY <1>0, <1>7, <3>2 DEF SessionInv, Domains, TypeOK, At, Flows
    <3> QED
      BY <3>1, <3>2
  <2>4. persisted' \in [Sessions -> Workspace \cup {None}] /\ active' \in [Sessions -> Workspace \cup {None}]
    BY <1>0, <1>8
  <2>5. TypeOK'
    BY <1>0, <2>2, <2>3, <2>4 DEF SessionInv, Domains, TypeOK, At
  <2> QED
    BY <1>0, <1>7, <2>1, <2>5 DEF SessionInv, Domains
<1>10. ProcessesRun'
  <2> SUFFICES ASSUME NEW s \in Sessions, ~told[s].early, Busy
               PROVE  /\ agent = "up" /\ queue[s] = <<>>
                      /\ recovery.stage = "load" => persisted'[s] = None /\ active'[s] = None
    BY <1>0, <1>3 DEF SessionInv, ProcessesRun, Busy
  <2>1. /\ agent = "up" /\ queue[s] = <<>>
        /\ recovery.stage = "load" => persisted[s] = None /\ active[s] = None
    BY DEF SessionInv, ProcessesRun
  <2> QED
    BY <1>0, <1>3, <1>8, <2>1
<1>11. QueuesFit'
  <2>1. \A s \in Sessions : /\ flow'[s].kind # "idle" <=> flow[s].kind # "idle"
                            /\ flow'[s].kind \in {"prepare", "rollback"} <=> flow[s].kind \in {"prepare", "rollback"}
    BY <1>3, <1>6, <1>7 DEF Flows
  <2> QED
    BY <1>0, <2>1 DEF SessionInv, QueuesFit
<1>12. SavesFit'
  BY <1>0, <1>6, <1>7 DEF SessionInv, SavesFit, Flows
<1>13. RecordsAgree'
  <2>1. \A s \in Sessions : active[s] # None => active[s] = persisted[s]
    BY DEF SessionInv, RecordsAgree
  <2>2. saving.kind # "register" /\ saving.active = None => active[t] = None
    BY <1>2, <1>3 DEF Saved
  <2>3. \A s \in Sessions : active'[s] # None => active'[s] = persisted'[s]
    BY <1>0, <1>8, <2>1, <2>2
  <2>4. recovery.stage \notin {"none", "load"} =>
          \A s \in Sessions : file[s] = IF t = s THEN saving.persisted ELSE persisted[s]
    BY <1>0, <1>2 DEF SessionInv, RecordsAgree
  <2> QED
    BY <1>0, <1>8, <2>3, <2>4 DEF RecordsAgree
<1>14. OperationsAreSound'
  <2> SUFFICES ASSUME NEW s \in Sessions, ~told[s].early
               PROVE  OperationIsSound(s)'
    BY <1>0 DEF OperationsAreSound
  <2>1. Operator(s)' = Operator(s) /\ s # Recovery /\ s \in Flows /\ Operator(s) \in Flows
    BY <1>0 DEF Operator, Flows
  <2>0. OperationIsSound(s)
    BY DEF SessionInv, OperationsAreSound
  <2>2. Left(s)' = Left(s) /\ Tree(s)' = Tree(s)
    BY <1>0 DEF Left, Tree
  <2>3. CASE s # t
    <3>3. Operator(s) # f /\ s # f
      <4>1. CASE f = Recovery
        <5>1. recovery.current = t
          BY <1>3, <4>1
        <5> QED
          BY <2>1, <2>3, <4>1, <5>1 DEF Operator
      <4>2. CASE f # Recovery
        <5>1. t = f
          BY <1>3, <4>2 DEF Flows
        <5> QED
          BY <2>3, <4>2, <5>1 DEF Operator
      <4> QED
        BY <4>1, <4>2
    <3>4. Step(s)' = Step(s) /\ flow'[s] = flow[s]
      BY <1>7, <2>1, <3>3 DEF Step
    <3> QED
      BY <1>0, <2>0, <2>1, <2>2, <3>4 DEF OperationIsSound
  <2>4. CASE s = t
    <3>1. f = Operator(s) /\ ~told[s].cleaned /\ Step(s) = flow[f] /\ Step(s)' = flow'[f] /\ file[s] = saving.persisted
      <4>1. file[s] = saving.persisted
        BY <1>0, <1>2, <1>3, <2>4 DEF SessionInv, RecordsAgree
      <4> QED
        BY <1>3, <2>1, <2>4, <4>1 DEF Step
    <3>2. IF failure = "close"
            THEN Sound(Undone(flow[f].kind), "close", flow[f].ws, FALSE, file[s], Left(s), Tree(s))
            ELSE Sound(flow[f].kind, failure, flow[f].ws, TRUE, file[s], Left(s), Tree(s))
      BY <1>0, <1>2, <1>4, <2>0, <2>4, <3>1 DEF OperationIsSound
    <3>3. Sound(Step(s)'.kind, Step(s)'.at, Step(s)'.ws, Step(s)'.failed, file'[s], Left(s)', Tree(s)')
      <4>1. CASE failure = "close"
        <5>1. Step(s)'.failed = FALSE /\ Step(s)'.kind = Undone(flow[f].kind) /\ Step(s)'.at = "close"
              /\ Step(s)'.ws = flow[f].ws /\ file'[s] = file[s]
          BY <1>0, <1>5, <1>7, <3>1, <4>1
        <5>2. Sound(Undone(flow[f].kind), "close", flow[f].ws, FALSE, file[s], Left(s), Tree(s))
          BY <3>2, <4>1
        <5> QED
          BY <2>2, <5>1, <5>2
      <4>2. CASE failure # "close"
        <5>1. Step(s)'.failed = TRUE /\ Step(s)'.kind = flow[f].kind /\ Step(s)'.at = failure
              /\ Step(s)'.ws = flow[f].ws /\ file'[s] = file[s]
          BY <1>0, <1>5, <1>7, <3>1, <4>2
        <5>2. Sound(flow[f].kind, failure, flow[f].ws, TRUE, file[s], Left(s), Tree(s))
          BY <3>2, <4>2
        <5> QED
          BY <2>2, <5>1, <5>2
      <4> QED
        BY <4>1, <4>2
    <3> QED
      BY <1>0, <2>0, <2>1, <3>1, <3>3 DEF OperationIsSound
  <2> QED
    BY <2>3, <2>4
<1> QED
  BY <1>9, <1>10, <1>11, <1>12, <1>13, <1>14 DEF SessionInv

\* An operation gives its lock back.
LEMMA Releases == ASSUME SessionInv, NEW s \in Sessions, Release(s) PROVE SessionInv'
<1> USE Names
<1>0. /\ flow[s].at \in {"end", "cleaned"} /\ s \in Flows
      /\ queue' = [queue EXCEPT ![s] = Tail(@)]
      /\ told' = [told EXCEPT ![s].cleaned = @ \/ (flow[s].at = "cleaned" /\ agent = "up")]
      /\ flow' = [flow EXCEPT ![s] = Idle]
      /\ UNCHANGED <<worktree, previews, tunnel, file, persisted, active, saving, recovery, agent, lost, started>>
  BY DEF Release, Flows, resources, registry, process
<1>1. /\ flow \in [Flows -> FlowStates] /\ Fits(flow[s].kind, flow[s].at) /\ flow[s].kind \in SessionKinds
  BY <1>0 DEF SessionInv, Domains
<1>2. flow[s].kind # "idle"
  BY <1>0, <1>1 DEF Fits
<1>3. /\ agent # "down" /\ s # Recovery
      /\ ~told[s].early =>
           /\ s = Operator(s) /\ recovery.stage \notin {"none", "load"}
           /\ Sound(flow[s].kind, flow[s].at, flow[s].ws, flow[s].failed, file[s], Left(s), Tree(s))
  BY <1>0, <1>2, Acting
<1>4. /\ Idle \in FlowStates /\ Idle.kind = "idle" /\ Idle.at = "idle" /\ Idle.ws \in Workspace
  BY Beginnings DEF Idle
<1>5. flow' \in [Flows -> FlowStates] /\ flow'[s] = Idle /\ \A g \in Flows : g # s => flow'[g] = flow[g]
  BY <1>0, <1>1, <1>4
<1>6. PICK cleaned \in BOOLEAN : cleaned = (told[s].cleaned \/ (flow[s].at = "cleaned" /\ agent = "up"))
  OBVIOUS
<1>7. /\ told' \in [Sessions -> [prepare : BOOLEAN, closes : Nat, cleaned : BOOLEAN, early : BOOLEAN]]
      /\ told'[s].cleaned = cleaned /\ told'[s].prepare = told[s].prepare /\ told'[s].early = told[s].early
      /\ \A t \in Sessions : t # s => told'[t] = told[t]
  <2>1. told \in [Sessions -> [prepare : BOOLEAN, closes : Nat, cleaned : BOOLEAN, early : BOOLEAN]]
    BY DEF SessionInv, Domains
  <2>2. told' = [told EXCEPT ![s].cleaned = cleaned]
    BY <1>0, <1>6, <2>1
  <2> QED
    BY <2>1, <2>2
<1>8. /\ queue[s] \in Seq({"prepare", "close", "shutdown"}) /\ queue[s] # <<>>
      /\ Head(queue[s]) = queue[s][1] /\ Tail(queue[s]) \in Seq({"prepare", "close", "shutdown"})
      /\ 1 \in DOMAIN queue[s]
      /\ \A i \in DOMAIN Tail(queue[s]) :
           i \in Nat /\ i # 0 /\ i + 1 \in DOMAIN queue[s] /\ Tail(queue[s])[i] = queue[s][i + 1]
  <2>1. queue[s] \in Seq({"prepare", "close", "shutdown"}) /\ queue[s] # <<>>
    BY <1>2 DEF SessionInv, Domains, TypeOK, QueuesFit
  <2> QED
    BY <2>1
<1>9. /\ queue' \in [Sessions -> Seq({"prepare", "close", "shutdown"})] /\ queue'[s] = Tail(queue[s])
      /\ \A t \in Sessions : t # s => queue'[t] = queue[t]
  BY <1>0, <1>8 DEF SessionInv, Domains, TypeOK
<1>10. Domains'
  <2>1. \A g \in Flows :
          Fits(flow'[g].kind, flow'[g].at) /\ flow'[g].kind \in (IF g = Recovery THEN RecoveryKinds ELSE SessionKinds)
    BY <1>3, <1>4, <1>5 DEF SessionInv, Domains, Fits, SessionKinds
  <2>2. \A g \in Flows : flow'[g].ws \in Workspace
    BY <1>5 DEF FlowStates
  <2>3. (recovery'.current = None) <=> flow'[Recovery].at = "idle"
    BY <1>0, <1>3, <1>5 DEF SessionInv, Domains, TypeOK, At, Flows
  <2>4. TypeOK'
    BY <1>0, <1>9, <2>2, <2>3 DEF SessionInv, Domains, TypeOK, At
  <2> QED
    BY <1>0, <1>5, <1>7, <2>1, <2>4 DEF SessionInv, Domains
<1>11. ProcessesRun'
  <2> SUFFICES ASSUME NEW t \in Sessions, ~told'[t].early, Busy
               PROVE  /\ agent = "up" /\ queue'[t] = <<>>
                      /\ recovery.stage = "load" => persisted[t] = None /\ active[t] = None
    BY <1>0, <1>3 DEF SessionInv, ProcessesRun, Busy
  <2>1. ~told[t].early
    BY <1>7
  <2>2. t # s
    BY <1>8, <2>1 DEF SessionInv, ProcessesRun
  <2> QED
    BY <1>9, <2>1, <2>2 DEF SessionInv, ProcessesRun
<1>12. QueuesFit'
  <2> SUFFICES ASSUME NEW t \in Sessions
               PROVE  /\ flow'[t].kind # "idle" =>
                           queue'[t] # <<>> /\ (Head(queue'[t]) = "prepare" <=> flow'[t].kind \in {"prepare", "rollback"})
                      /\ \A i \in DOMAIN queue'[t] :
                           /\ queue'[t][i] = "prepare" => i = 1
                           /\ queue'[t][i] # "shutdown" => told'[t].prepare
                           /\ queue'[t][i] = "shutdown" => agent # "up"
                           /\ told'[t].cleaned /\ ~told'[t].early => queue'[t][i] # "prepare"
                      /\ told'[t].cleaned => told'[t].prepare
    BY <1>0 DEF QueuesFit
  <2>1. CASE t # s
    <3>1. flow'[t] = flow[t] /\ queue'[t] = queue[t] /\ told'[t] = told[t]
      BY <1>5, <1>7, <1>9, <2>1 DEF Flows
    <3>2. /\ flow[t].kind # "idle" =>
               queue[t] # <<>> /\ (Head(queue[t]) = "prepare" <=> flow[t].kind \in {"prepare", "rollback"})
          /\ \A i \in DOMAIN queue[t] :
               /\ queue[t][i] = "prepare" => i = 1
               /\ queue[t][i] # "shutdown" => told[t].prepare
               /\ queue[t][i] = "shutdown" => agent # "up"
               /\ told[t].cleaned /\ ~told[t].early => queue[t][i] # "prepare"
          /\ told[t].cleaned => told[t].prepare
      BY DEF SessionInv, QueuesFit
    <3> QED
      BY <3>1, <3>2
  <2>2. CASE t = s
    <3>1. ASSUME NEW i \in DOMAIN queue'[s]
          PROVE  /\ queue'[s][i] # "prepare"
                 /\ queue'[s][i] # "shutdown" => told'[s].prepare
                 /\ queue'[s][i] = "shutdown" => agent # "up"
      <4>1. i \in Nat /\ i # 0 /\ i + 1 \in DOMAIN queue[s] /\ queue'[s][i] = queue[s][i + 1]
        BY <1>8, <1>9
      <4>2. /\ queue[s][i + 1] = "prepare" => i + 1 = 1
            /\ queue[s][i + 1] # "shutdown" => told[s].prepare
            /\ queue[s][i + 1] = "shutdown" => agent # "up"
        BY <4>1 DEF SessionInv, QueuesFit
      <4> QED
        BY <1>7, <4>1, <4>2
    <3>2. told'[s].cleaned => told'[s].prepare
      <4>1. told[s].cleaned => told[s].prepare
        BY DEF SessionInv, QueuesFit
      <4>2. ASSUME flow[s].at = "cleaned", agent = "up"
            PROVE  told[s].prepare
        <5>1. queue[s][1] = "shutdown" => agent # "up"
          BY <1>8 DEF SessionInv, QueuesFit
        <5>2. queue[s][1] # "shutdown" => told[s].prepare
          BY <1>8 DEF SessionInv, QueuesFit
        <5> QED
          BY <4>2, <5>1, <5>2
      <4> QED
        BY <1>6, <1>7, <4>1, <4>2
    <3> QED
      BY <1>4, <1>5, <2>2, <3>1, <3>2
  <2> QED
    BY <2>1, <2>2
<1>13. SavesFit'
  <2>0. \A t \in Sessions : flow'[t].at = "forget" => worktree'[t] = "none"
    BY <1>0, <1>4, <1>5 DEF SessionInv, SavesFit, Flows
  <2> SUFFICES ASSUME saving # NoSave
               PROVE  Saved(saving, flow[saving.flow])'
    BY <1>0, <2>0 DEF SavesFit
  <2>1. Saved(saving, flow[saving.flow]) /\ saving \in Saves
    BY DEF SessionInv, SavesFit, Domains
  <2>2. saving.flow # s /\ saving.flow \in Flows
    BY <1>0, <2>1 DEF Saved, Saves
  <2>3. flow'[saving.flow] = flow[saving.flow]
    BY <1>5, <2>2
  <2>4. SessionOf(saving.flow)' = SessionOf(saving.flow)
    BY <1>0 DEF SessionOf
  <2> QED
    BY <1>0, <2>1, <2>3, <2>4 DEF Saved
<1>14. RecordsAgree'
  BY <1>0 DEF SessionInv, RecordsAgree
<1>15. OperationsAreSound'
  <2> SUFFICES ASSUME NEW t \in Sessions, ~told[t].early
               PROVE  OperationIsSound(t)'
    BY <1>7 DEF OperationsAreSound
  <2>1. Operator(t)' = Operator(t) /\ t # Recovery /\ t \in Flows /\ Operator(t) \in Flows
    BY <1>0 DEF Operator, Flows
  <2>2. OperationIsSound(t)
    BY DEF SessionInv, OperationsAreSound
  <2>3. Left(t)' = Left(t) /\ Tree(t)' = Tree(t)
    BY <1>0 DEF Left, Tree
  <2>4. CASE t # s
    <3>1. Operator(t) # s
      BY <1>3, <2>4 DEF Operator
    <3>2. Step(t)' = Step(t) /\ flow'[t] = flow[t]
      BY <1>5, <2>1, <2>4, <3>1 DEF Step
    <3> QED
      BY <1>0, <1>7, <2>1, <2>2, <2>3, <2>4, <3>2 DEF OperationIsSound
  <2>5. CASE t = s
    <3>1. Operator(s) = s /\ Step(s)' = Idle
      BY <1>3, <1>5, <2>1, <2>5 DEF Step
    <3>2. Sound(flow[s].kind, flow[s].at, flow[s].ws, flow[s].failed, file[s], Left(s), Tree(s))
      BY <1>3, <2>5
    <3>3. Sound(Idle.kind, Idle.at, Idle.ws, Idle.failed, file[s], Left(s), Tree(s))
      BY <1>0, <1>4, <3>2 DEF Sound
    <3>4. ~(saving # NoSave /\ saving.session = s)
      BY <1>0, <2>2, <2>5, <3>1 DEF OperationIsSound, SessionInv, SavesFit, Saved
    <3>5. told'[s].cleaned => file[s] = None /\ Left(s) = {} /\ Tree(s) # "kept"
      BY <1>6, <1>7, <2>2, <2>5, <3>2 DEF OperationIsSound, Sound
    <3>6. Sound(Step(s)'.kind, Step(s)'.at, Step(s)'.ws, Step(s)'.failed, file'[s], Left(s)', Tree(s)')
      BY <1>0, <2>3, <2>5, <3>1, <3>3
    <3> QED
      BY <1>0, <1>4, <1>5, <2>2, <2>3, <2>5, <3>4, <3>5, <3>6 DEF OperationIsSound
  <2> QED
    BY <2>4, <2>5
<1> QED
  BY <1>10, <1>11, <1>12, <1>13, <1>14, <1>15 DEF SessionInv

\* A command of kind c is put last in line for the lock of session s.
Enqueued(s, c) ==
  /\ agent # "down"
  /\ UNCHANGED <<resources, registry, flow, recovery, agent, lost, started>>
  /\ queue' = [queue EXCEPT ![s] = Append(@, c)]
  /\ told' \in [Sessions -> [prepare : BOOLEAN, closes : Nat, cleaned : BOOLEAN, early : BOOLEAN]]
  /\ \A t \in Sessions : t # s => told'[t] = told[t]
  /\ told'[s].cleaned = told[s].cleaned
  /\ told[s].prepare => told'[s].prepare
  /\ ~told'[s].early => ~told[s].early /\ ~Busy
  /\ c = "prepare" => queue[s] = <<>> /\ ~told[s].cleaned
  /\ c # "shutdown" => told'[s].prepare
  /\ c = "shutdown" => agent # "up"

\* That keeps the invariant.
LEMMA Enqueues ==
  ASSUME SessionInv, NEW s \in Sessions, NEW c \in {"prepare", "close", "shutdown"}, Enqueued(s, c)
  PROVE  SessionInv'
<1> USE Names
<1>1. /\ UNCHANGED <<worktree, previews, tunnel, file, persisted, active, saving, flow, recovery, agent, lost, started>>
      /\ queue' = [queue EXCEPT ![s] = Append(@, c)]
  BY DEF Enqueued, resources, registry
<1>2. /\ queue[s] \in Seq({"prepare", "close", "shutdown"})
      /\ Append(queue[s], c) \in Seq({"prepare", "close", "shutdown"}) /\ Append(queue[s], c) # <<>>
      /\ queue[s] # <<>> => Head(Append(queue[s], c)) = Head(queue[s])
      /\ \A i \in DOMAIN Append(queue[s], c) :
           \/ i \in DOMAIN queue[s] /\ Append(queue[s], c)[i] = queue[s][i]
           \/ Append(queue[s], c)[i] = c /\ (queue[s] = <<>> => i = 1)
  <2>1. queue[s] \in Seq({"prepare", "close", "shutdown"})
    BY DEF SessionInv, Domains, TypeOK
  <2> QED
    BY <2>1
<1>3. /\ queue' \in [Sessions -> Seq({"prepare", "close", "shutdown"})] /\ queue'[s] = Append(queue[s], c)
      /\ \A t \in Sessions : t # s => queue'[t] = queue[t]
  BY <1>1, <1>2 DEF SessionInv, Domains, TypeOK
<1>4. Domains'
  <2>1. TypeOK'
    BY <1>1, <1>3 DEF SessionInv, Domains, TypeOK, At
  <2> QED
    BY <1>1, <2>1 DEF SessionInv, Domains, Enqueued
<1>5. ProcessesRun'
  <2> SUFFICES ASSUME NEW t \in Sessions, ~told'[t].early, Busy
               PROVE  /\ agent = "up" /\ queue'[t] = <<>>
                      /\ recovery.stage = "load" => persisted[t] = None /\ active[t] = None
    BY <1>1 DEF SessionInv, ProcessesRun, Busy, Enqueued
  <2>1. t # s
    BY DEF Enqueued
  <2>2. told'[t] = told[t] /\ queue'[t] = queue[t]
    BY <1>3, <2>1 DEF Enqueued
  <2> QED
    BY <2>2 DEF SessionInv, ProcessesRun
<1>6. QueuesFit'
  <2> SUFFICES ASSUME NEW t \in Sessions
               PROVE  /\ flow[t].kind # "idle" =>
                           queue'[t] # <<>> /\ (Head(queue'[t]) = "prepare" <=> flow[t].kind \in {"prepare", "rollback"})
                      /\ \A i \in DOMAIN queue'[t] :
                           /\ queue'[t][i] = "prepare" => i = 1
                           /\ queue'[t][i] # "shutdown" => told'[t].prepare
                           /\ queue'[t][i] = "shutdown" => agent # "up"
                           /\ told'[t].cleaned /\ ~told'[t].early => queue'[t][i] # "prepare"
                      /\ told'[t].cleaned => told'[t].prepare
    BY <1>1 DEF QueuesFit
  <2>0. /\ flow[t].kind # "idle" =>
             queue[t] # <<>> /\ (Head(queue[t]) = "prepare" <=> flow[t].kind \in {"prepare", "rollback"})
        /\ \A i \in DOMAIN queue[t] :
             /\ queue[t][i] = "prepare" => i = 1
             /\ queue[t][i] # "shutdown" => told[t].prepare
             /\ queue[t][i] = "shutdown" => agent # "up"
             /\ told[t].cleaned /\ ~told[t].early => queue[t][i] # "prepare"
        /\ told[t].cleaned => told[t].prepare
    BY DEF SessionInv, QueuesFit
  <2>1. CASE t # s
    <3>1. queue'[t] = queue[t] /\ told'[t] = told[t]
      BY <1>3, <2>1 DEF Enqueued
    <3> QED
      BY <2>0, <3>1
  <2>2. CASE t = s
    <3>1. flow[s].kind # "idle" =>
            queue'[s] # <<>> /\ (Head(queue'[s]) = "prepare" <=> flow[s].kind \in {"prepare", "rollback"})
      BY <1>2, <1>3, <2>0, <2>2
    <3>2. told'[s].cleaned => told'[s].prepare
      BY <2>0, <2>2 DEF Enqueued
    <3>3. ASSUME NEW i \in DOMAIN queue'[s]
          PROVE  /\ queue'[s][i] = "prepare" => i = 1
                 /\ queue'[s][i] # "shutdown" => told'[s].prepare
                 /\ queue'[s][i] = "shutdown" => agent # "up"
                 /\ told'[s].cleaned /\ ~told'[s].early => queue'[s][i] # "prepare"
      <4>1. CASE i \in DOMAIN queue[s] /\ queue'[s][i] = queue[s][i]
        BY <2>0, <2>2, <4>1 DEF Enqueued
      <4>2. CASE queue'[s][i] = c /\ (queue[s] = <<>> => i = 1)
        BY <4>2 DEF Enqueued
      <4> QED
        BY <1>2, <1>3, <4>1, <4>2
    <3> QED
      BY <2>2, <3>1, <3>2, <3>3
  <2> QED
    BY <2>1, <2>2
<1>7. SavesFit' /\ RecordsAgree'
  BY <1>1 DEF SessionInv, SavesFit, Saved, SessionOf, RecordsAgree
<1>8. OperationsAreSound'
  <2> SUFFICES ASSUME NEW t \in Sessions, ~told'[t].early
               PROVE  OperationIsSound(t)'
    BY DEF OperationsAreSound
  <2>1. ~told[t].early /\ told'[t].cleaned = told[t].cleaned
    BY DEF Enqueued
  <2>2. OperationIsSound(t)
    BY <2>1 DEF SessionInv, OperationsAreSound
  <2>3. Operator(t)' = Operator(t) /\ Step(t)' = Step(t) /\ Left(t)' = Left(t) /\ Tree(t)' = Tree(t)
    BY <1>1 DEF Operator, Step, Left, Tree
  <2> QED
    BY <1>1, <2>1, <2>2, <2>3 DEF OperationIsSound
<1> QED
  BY <1>4, <1>5, <1>6, <1>7, <1>8 DEF SessionInv

\* The commands of the API, and the shutdown of a session.
LEMMA Commands ==
  ASSUME SessionInv, NEW s \in Sessions, ReceivePrepare(s) \/ ReceiveClose(s) \/ ShutDown(s)
  PROVE  SessionInv'
<1>1. /\ told \in [Sessions -> [prepare : BOOLEAN, closes : Nat, cleaned : BOOLEAN, early : BOOLEAN]]
      /\ queue[s] \in Seq({"prepare", "close", "shutdown"})
  BY DEF SessionInv, Domains, TypeOK
<1>2. PICK early \in BOOLEAN : early = (told[s].early \/ Busy)
  OBVIOUS
<1>3. CASE ReceivePrepare(s)
  <2>1. queue[s] = <<>>
    <3> SUFFICES ASSUME queue[s] # <<>>
                 PROVE  FALSE
      OBVIOUS
    <3>1. 1 \in DOMAIN queue[s]
      BY <1>1
    <3>2. queue[s][1] = "shutdown" \/ told[s].prepare
      BY <3>1 DEF SessionInv, QueuesFit
    <3>3. queue[s][1] # "shutdown"
      BY <1>3, <3>1 DEF SessionInv, QueuesFit, ReceivePrepare
    <3> QED
      BY <1>3, <3>2, <3>3 DEF ReceivePrepare
  <2>2. ~told[s].cleaned
    BY <1>3 DEF SessionInv, QueuesFit, ReceivePrepare
  <2>3. told' = [told EXCEPT ![s].prepare = TRUE, ![s].early = early]
    BY <1>1, <1>2, <1>3 DEF ReceivePrepare
  <2>4. /\ told' \in [Sessions -> [prepare : BOOLEAN, closes : Nat, cleaned : BOOLEAN, early : BOOLEAN]]
        /\ \A t \in Sessions : t # s => told'[t] = told[t]
        /\ told'[s].cleaned = told[s].cleaned /\ told'[s].prepare /\ told'[s].early = early
    BY <1>1, <2>3
  <2>5. Enqueued(s, "prepare")
    BY <1>2, <1>3, <2>1, <2>2, <2>4 DEF ReceivePrepare, Enqueued, process
  <2> QED
    BY <2>5, Enqueues
<1>4. CASE ReceiveClose(s)
  <2>1. PICK n \in Nat : n = told[s].closes + 1
    BY <1>1
  <2>2. told' = [told EXCEPT ![s].closes = @ + 1, ![s].early = early]
    BY <1>1, <1>2, <1>4 DEF ReceiveClose
  <2>3. told' = [told EXCEPT ![s] = [told[s] EXCEPT !.closes = n, !.early = early]]
    BY <1>1, <2>1, <2>2
  <2>4. /\ told' \in [Sessions -> [prepare : BOOLEAN, closes : Nat, cleaned : BOOLEAN, early : BOOLEAN]]
        /\ \A t \in Sessions : t # s => told'[t] = told[t]
        /\ told'[s].cleaned = told[s].cleaned /\ told'[s].prepare = told[s].prepare /\ told'[s].early = early
    BY <1>1, <2>3
  <2>5. Enqueued(s, "close")
    BY <1>2, <1>4, <2>4 DEF ReceiveClose, Enqueued, process
  <2> QED
    BY <2>5, Enqueues
<1>5. CASE ShutDown(s)
  <2>1. ~told[s].early => ~Busy
    BY <1>5 DEF SessionInv, ProcessesRun, ShutDown
  <2>2. Enqueued(s, "shutdown")
    BY <1>1, <1>5, <2>1 DEF ShutDown, Enqueued
  <2> QED
    BY <2>2, Enqueues
<1> QED
  BY <1>3, <1>4, <1>5

\* The agent starts.
LEMMA Starts == ASSUME SessionInv, Start PROVE SessionInv'
<1> USE Names
<1>1. /\ UNCHANGED <<worktree, previews, tunnel, file, persisted, active, saving, queue, flow, lost, started, told>>
      /\ agent = "down" /\ agent' = "up" /\ recovery' = [NoRecovery EXCEPT !.stage = "load"]
  BY DEF Start, resources, registry
<1>2. /\ recovery = NoRecovery /\ saving = NoSave
      /\ \A s \in Sessions : queue[s] = <<>> /\ persisted[s] = None /\ active[s] = None
      /\ \A f \in Flows : flow[f].kind = "idle"
  BY <1>1 DEF SessionInv, ProcessesRun
<1>3. /\ recovery'.stage = "load" /\ recovery'.todo = {} /\ recovery'.current = None
      /\ recovery' \in [stage : {"none", "load", "reconcile", "rebuild", "done", "late"}, todo : SUBSET Sessions,
                        current : Sessions \cup {None}, read : [Sessions -> Workspace \cup {None}]]
  BY <1>1 DEF NoRecovery
<1>4. Domains'
  <2>1. TypeOK'
    BY <1>1, <1>2, <1>3 DEF SessionInv, Domains, TypeOK, At
  <2> QED
    BY <1>1, <1>3, <2>1 DEF SessionInv, Domains
<1>5. ProcessesRun'
  BY <1>1, <1>2, <1>3 DEF ProcessesRun
<1>6. QueuesFit'
  BY <1>1, <1>2 DEF SessionInv, QueuesFit
<1>7. SavesFit' /\ RecordsAgree'
  BY <1>1, <1>2, <1>3 DEF SessionInv, SavesFit, RecordsAgree
<1>8. OperationsAreSound'
  <2> SUFFICES ASSUME NEW s \in Sessions, ~told[s].early
               PROVE  OperationIsSound(s)'
    BY <1>1 DEF OperationsAreSound
  <2>1. OperationIsSound(s)
    BY DEF SessionInv, OperationsAreSound
  <2>2. Operator(s)' = Operator(s) /\ Step(s)' = Step(s) /\ Left(s)' = Left(s) /\ Tree(s)' = Tree(s)
    BY <1>1, <1>2, <1>3 DEF Operator, Step, Left, Tree
  <2> QED
    BY <1>1, <1>2, <1>3, <2>1, <2>2 DEF OperationIsSound
<1> QED
  BY <1>4, <1>5, <1>6, <1>7, <1>8 DEF SessionInv

\* It loads the state file.
LEMMA Loads == ASSUME SessionInv, Load PROVE SessionInv'
<1> USE Names
<1> DEFINE stored == {s \in Sessions : file[s] # None}
<1>1. /\ UNCHANGED <<worktree, previews, tunnel, file, saving, queue, flow, agent, lost, started, told>>
      /\ saving = NoSave /\ recovery.stage = "load" /\ persisted' = file /\ active' = file
      /\ recovery' = [recovery EXCEPT !.stage = "reconcile", !.todo = stored, !.read = file]
  BY DEF Load, resources, process
<1>2. /\ recovery \in [stage : {"none", "load", "reconcile", "rebuild", "done", "late"}, todo : SUBSET Sessions,
                       current : Sessions \cup {None}, read : [Sessions -> Workspace \cup {None}]]
      /\ file \in [Sessions -> Workspace \cup {None}]
      /\ recovery.current = None
  BY <1>1 DEF SessionInv, Domains, TypeOK
<1>3. /\ recovery'.stage = "reconcile" /\ recovery'.todo = stored /\ recovery'.read = file /\ recovery'.current = None
      /\ recovery' \in [stage : {"none", "load", "reconcile", "rebuild", "done", "late"}, todo : SUBSET Sessions,
                        current : Sessions \cup {None}, read : [Sessions -> Workspace \cup {None}]]
  <2>1. stored \in SUBSET Sessions
    OBVIOUS
  <2> HIDE DEF stored
  <2> QED
    BY <1>1, <1>2, <2>1
<1>4. Domains'
  <2>1. TypeOK'
    BY <1>1, <1>2, <1>3 DEF SessionInv, Domains, TypeOK, At
  <2> QED
    BY <1>1, <1>3, <2>1 DEF SessionInv, Domains
<1>5. ProcessesRun'
  <2>1. agent # "down"
    BY <1>1 DEF SessionInv, ProcessesRun, NoRecovery
  <2> QED
    BY <1>1, <1>3, <2>1 DEF SessionInv, ProcessesRun, Busy
<1>6. QueuesFit'
  BY <1>1 DEF SessionInv, QueuesFit
<1>7. SavesFit' /\ RecordsAgree'
  BY <1>1 DEF SessionInv, SavesFit, RecordsAgree
<1>8. OperationsAreSound'
  <2> SUFFICES ASSUME NEW s \in Sessions, ~told[s].early
               PROVE  OperationIsSound(s)'
    BY <1>1 DEF OperationsAreSound
  <2>1. OperationIsSound(s)
    BY DEF SessionInv, OperationsAreSound
  <2>2. Operator(s)' = Operator(s) /\ Step(s)' = Step(s) /\ Left(s)' = Left(s) /\ Tree(s)' = Tree(s)
    BY <1>1, <1>2, <1>3 DEF Operator, Step, Left, Tree
  <2> QED
    BY <1>1, <1>3, <2>1, <2>2 DEF OperationIsSound
<1> QED
  BY <1>4, <1>5, <1>6, <1>7, <1>8 DEF SessionInv

\* It removes the containers it finds.
LEMMA Reconciles == ASSUME SessionInv, Reconcile PROVE SessionInv'
<1> USE Names
<1>1. /\ UNCHANGED <<worktree, file, persisted, active, saving, queue, flow, agent, lost, started, told>>
      /\ recovery.stage = "reconcile" /\ recovery' = [recovery EXCEPT !.stage = "rebuild"]
      /\ previews' = [s \in Sessions |-> IF s \in Containers THEN {} ELSE previews[s]]
      /\ tunnel' = [s \in Sessions |-> FALSE]
  BY DEF Reconcile, registry, process
<1>2. /\ recovery \in [stage : {"none", "load", "reconcile", "rebuild", "done", "late"}, todo : SUBSET Sessions,
                       current : Sessions \cup {None}, read : [Sessions -> Workspace \cup {None}]]
      /\ previews \in [Sessions -> SUBSET (1..MaxStarts)]
      /\ recovery.current = None
  BY <1>1 DEF SessionInv, Domains, TypeOK
<1>3. /\ recovery'.stage = "rebuild" /\ recovery'.todo = recovery.todo /\ recovery'.read = recovery.read
      /\ recovery'.current = None
      /\ recovery' \in [stage : {"none", "load", "reconcile", "rebuild", "done", "late"}, todo : SUBSET Sessions,
                        current : Sessions \cup {None}, read : [Sessions -> Workspace \cup {None}]]
  BY <1>1, <1>2
<1>4. Domains'
  <2>1. previews' \in [Sessions -> SUBSET (1..MaxStarts)] /\ tunnel' \in [Sessions -> BOOLEAN]
    BY <1>1, <1>2
  <2>2. TypeOK'
    BY <1>1, <1>2, <1>3, <2>1 DEF SessionInv, Domains, TypeOK, At
  <2> QED
    BY <1>1, <1>3, <2>2 DEF SessionInv, Domains
<1>5. ProcessesRun'
  <2>1. agent # "down"
    BY <1>1 DEF SessionInv, ProcessesRun, NoRecovery
  <2> QED
    BY <1>1, <1>3, <2>1 DEF SessionInv, ProcessesRun, Busy
<1>6. QueuesFit'
  BY <1>1 DEF SessionInv, QueuesFit
<1>7. SavesFit' /\ RecordsAgree'
  BY <1>1, <1>2, <1>3 DEF SessionInv, SavesFit, RecordsAgree, Saved, SessionOf
<1>8. OperationsAreSound'
  <2> SUFFICES ASSUME NEW s \in Sessions, ~told[s].early
               PROVE  OperationIsSound(s)'
    BY <1>1 DEF OperationsAreSound
  <2>1. OperationIsSound(s)
    BY DEF SessionInv, OperationsAreSound
  <2>2. Operator(s)' = Operator(s) /\ Step(s)' = Step(s) /\ Left(s)' = Left(s) /\ Tree(s)' = Tree(s)
    BY <1>1, <1>2, <1>3 DEF Operator, Step, Left, Tree
  <2> QED
    BY <1>1, <1>3, <2>1, <2>2 DEF OperationIsSound
<1> QED
  BY <1>4, <1>5, <1>6, <1>7, <1>8 DEF SessionInv

\* It has recovered.
LEMMA Recovers == ASSUME SessionInv, EndRecovery PROVE SessionInv'
<1> USE Names
<1>0. PICK stage \in {"done", "late"} : stage = IF agent = "up" THEN "done" ELSE "late"
  OBVIOUS
<1>1. /\ UNCHANGED <<worktree, previews, tunnel, file, persisted, active, saving, queue, flow, agent, lost, started, told>>
      /\ recovery.stage = "rebuild" /\ recovery.todo = {} /\ recovery' = [NoRecovery EXCEPT !.stage = stage]
  BY <1>0 DEF EndRecovery, resources, registry, process
<1>2. recovery.current = None
  BY <1>1 DEF SessionInv, Domains, TypeOK
<1>3. /\ recovery'.stage = stage /\ recovery'.todo = {} /\ recovery'.current = None
      /\ recovery' \in [stage : {"none", "load", "reconcile", "rebuild", "done", "late"}, todo : SUBSET Sessions,
                        current : Sessions \cup {None}, read : [Sessions -> Workspace \cup {None}]]
  BY <1>0, <1>1 DEF NoRecovery
<1>4. Domains'
  <2>2. TypeOK'
    BY <1>1, <1>2, <1>3 DEF SessionInv, Domains, TypeOK, At
  <2> QED
    BY <1>1, <1>3, <2>2 DEF SessionInv, Domains
<1>5. ProcessesRun'
  <2>1. agent # "down"
    BY <1>1 DEF SessionInv, ProcessesRun, NoRecovery
  <2> QED
    BY <1>0, <1>1, <1>3, <2>1 DEF ProcessesRun, Busy
<1>6. QueuesFit'
  BY <1>1 DEF SessionInv, QueuesFit
<1>7. SavesFit' /\ RecordsAgree'
  BY <1>1, <1>2, <1>3 DEF SessionInv, SavesFit, RecordsAgree, Saved, SessionOf
<1>8. OperationsAreSound'
  <2> SUFFICES ASSUME NEW s \in Sessions, ~told[s].early
               PROVE  OperationIsSound(s)'
    BY <1>1 DEF OperationsAreSound
  <2>1. OperationIsSound(s)
    BY DEF SessionInv, OperationsAreSound
  <2>2. Operator(s)' = Operator(s) /\ Step(s)' = Step(s) /\ Left(s)' = Left(s) /\ Tree(s)' = Tree(s)
    BY <1>1, <1>2, <1>3 DEF Operator, Step, Left, Tree
  <2> QED
    BY <1>1, <1>3, <2>1, <2>2 DEF OperationIsSound
<1> QED
  BY <1>4, <1>5, <1>6, <1>7, <1>8 DEF SessionInv

\* The agent is told to stop, or has shut its sessions down.
LEMMA Stops == ASSUME SessionInv, Stop \/ EndShutdown PROVE SessionInv'
<1>1. /\ UNCHANGED <<worktree, previews, tunnel, file, persisted, active, saving, queue, flow, recovery, lost, started>>
      /\ agent \in {"up", "stopping"} /\ agent' \in {"stopping", "stopped"}
  BY DEF Stop, EndShutdown, resources, registry
<1>2. /\ told' \in [Sessions -> [prepare : BOOLEAN, closes : Nat, cleaned : BOOLEAN, early : BOOLEAN]]
      /\ \A s \in Sessions :
           /\ told'[s].prepare = told[s].prepare /\ told'[s].cleaned = told[s].cleaned
           /\ ~told'[s].early => ~told[s].early /\ ~Busy
  <2>0. told \in [Sessions -> [prepare : BOOLEAN, closes : Nat, cleaned : BOOLEAN, early : BOOLEAN]]
    BY DEF SessionInv, Domains
  <2>1. CASE Stop
    <3>1. PICK busy \in BOOLEAN : busy <=> Busy
      OBVIOUS
    <3>2. told' = [s \in Sessions |-> [told[s] EXCEPT !.early = @ \/ busy]]
      <4>1. \A s \in Sessions : (told[s].early \/ busy) = (told[s].early \/ Busy)
        BY <3>1
      <4> QED
        BY <2>1, <4>1 DEF Stop
    <3>3. \A s \in Sessions : (told[s].early \/ busy) \in BOOLEAN
      BY <2>0
    <3>4. told' \in [Sessions -> [prepare : BOOLEAN, closes : Nat, cleaned : BOOLEAN, early : BOOLEAN]]
      BY <2>0, <3>2, <3>3
    <3>5. ASSUME NEW s \in Sessions
          PROVE  /\ told'[s].prepare = told[s].prepare /\ told'[s].cleaned = told[s].cleaned
                 /\ told'[s].early = (told[s].early \/ busy)
      BY <2>0, <3>2
    <3> QED
      BY <3>1, <3>4, <3>5
  <2>2. CASE EndShutdown
    <3>1. told' = told /\ agent = "stopping"
      BY <2>2 DEF EndShutdown
    <3>2. \A s \in Sessions : ~told[s].early => ~Busy
      BY <3>1 DEF SessionInv, ProcessesRun
    <3> QED
      BY <2>0, <3>1, <3>2
  <2> QED
    BY <2>1, <2>2
<1>3. Domains'
  <2>1. TypeOK'
    BY <1>1 DEF SessionInv, Domains, TypeOK, At
  <2> QED
    BY <1>1, <1>2, <2>1 DEF SessionInv, Domains
<1>4. ProcessesRun'
  BY <1>1, <1>2 DEF SessionInv, ProcessesRun, Busy
<1>5. QueuesFit'
  BY <1>1, <1>2 DEF SessionInv, QueuesFit
<1>6. SavesFit' /\ RecordsAgree'
  BY <1>1 DEF SessionInv, SavesFit, RecordsAgree, Saved, SessionOf
<1>7. OperationsAreSound'
  <2> SUFFICES ASSUME NEW s \in Sessions, ~told'[s].early
               PROVE  OperationIsSound(s)'
    BY DEF OperationsAreSound
  <2>1. OperationIsSound(s) /\ told'[s].cleaned = told[s].cleaned
    BY <1>2 DEF SessionInv, OperationsAreSound
  <2>2. Operator(s)' = Operator(s) /\ Step(s)' = Step(s) /\ Left(s)' = Left(s) /\ Tree(s)' = Tree(s)
    BY <1>1 DEF Operator, Step, Left, Tree
  <2> QED
    BY <1>1, <2>1, <2>2 DEF OperationIsSound
<1> QED
  BY <1>3, <1>4, <1>5, <1>6, <1>7 DEF SessionInv

\* Memory goes, and with it whatever was under way.
LEMMA Deaths == ASSUME SessionInv, Die PROVE SessionInv'
<1> USE Names
<1>1. /\ UNCHANGED <<worktree, previews, tunnel, started, told>>
      /\ file' = file \/ (saving # NoSave /\ file' = persisted)
      /\ lost' = [s \in Sessions |-> lost[s] \cup Unrecorded(s)]
      /\ persisted' = [s \in Sessions |-> None] /\ active' = [s \in Sessions |-> None]
      /\ saving' = NoSave /\ queue' = [s \in Sessions |-> <<>>] /\ flow' = [f \in Flows |-> Idle]
      /\ recovery' = NoRecovery /\ agent' = "down"
  <2>1. file' \in {file} \cup (IF saving = NoSave THEN {} ELSE {persisted})
    BY DEF Die
  <2>2. file' = file \/ (saving # NoSave /\ file' = persisted)
    BY <2>1
  <2> QED
    BY <2>2 DEF Die, resources
<1>2. /\ file \in [Sessions -> Workspace \cup {None}] /\ persisted \in [Sessions -> Workspace \cup {None}]
      /\ lost \in [Sessions -> SUBSET Nat] /\ previews \in [Sessions -> SUBSET (1..MaxStarts)] /\ MaxStarts \in Nat
  BY BoundsAssumption DEF SessionInv, Domains, TypeOK, MaxStarts
<1>3. /\ Idle \in FlowStates /\ Idle.kind = "idle" /\ Idle.at = "idle" /\ Idle.ws \in Workspace
  BY Beginnings DEF Idle
<1>4. /\ NoRecovery.stage = "none" /\ NoRecovery.todo = {} /\ NoRecovery.current = None
      /\ NoRecovery \in [stage : {"none", "load", "reconcile", "rebuild", "done", "late"}, todo : SUBSET Sessions,
                         current : Sessions \cup {None}, read : [Sessions -> Workspace \cup {None}]]
  BY DEF NoRecovery
<1>5. \A f \in Flows : flow'[f] = Idle
  BY <1>1
<1>6. Recovery \in Flows /\ \A s \in Sessions : s \in Flows
  BY DEF Flows
<1>7. Domains'
  <2>1. \A s \in Sessions : Unrecorded(s) \subseteq Nat
    BY <1>2 DEF Unrecorded
  <2>2. lost' \in [Sessions -> SUBSET Nat]
    BY <1>1, <1>2, <2>1
  <2>3. queue' \in [Sessions -> Seq({"prepare", "close", "shutdown"})]
    BY <1>1
  <2>4. (recovery'.current = None) <=> flow'[Recovery].at = "idle"
    BY <1>1, <1>3, <1>4, <1>5, <1>6
  <2>5. {file', persisted', active'} \subseteq [Sessions -> Workspace \cup {None}]
    BY <1>1, <1>2
  <2>6. TypeOK'
    BY <1>1, <1>3, <1>4, <1>5, <2>3, <2>4, <2>5 DEF SessionInv, Domains, TypeOK, At
  <2>7. flow' \in [Flows -> FlowStates]
    BY <1>1, <1>3
  <2>8. \A g \in Flows :
          Fits(flow'[g].kind, flow'[g].at) /\ flow'[g].kind \in (IF g = Recovery THEN RecoveryKinds ELSE SessionKinds)
    BY <1>3, <1>5 DEF Fits, SessionKinds, RecoveryKinds
  <2> QED
    BY <1>1, <1>4, <2>2, <2>6, <2>7, <2>8 DEF SessionInv, Domains
<1>8. ProcessesRun'
  BY <1>1, <1>3, <1>4, <1>5 DEF ProcessesRun, Busy
<1>9. QueuesFit'
  BY <1>1, <1>3, <1>5, <1>6 DEF SessionInv, QueuesFit
<1>10. SavesFit'
  BY <1>1, <1>3, <1>5, <1>6 DEF SavesFit
<1>11. RecordsAgree'
  BY <1>1, <1>4 DEF RecordsAgree
<1>12. OperationsAreSound'
  <2> SUFFICES ASSUME NEW s \in Sessions, ~told[s].early
               PROVE  OperationIsSound(s)'
    BY <1>1 DEF OperationsAreSound
  <2>1. OperationIsSound(s)
    BY DEF SessionInv, OperationsAreSound
  <2>2. s # None /\ s # Recovery
    BY <1>6
  <2>3. Step(s)' = Idle
    BY <1>1, <1>4, <1>5, <1>6, <2>2 DEF Step, Operator
  <2>4. lost'[s] = lost[s] \cup Unrecorded(s)
    BY <1>1
  <2>5. Left(s)' \subseteq Left(s) /\ Left(s)' \subseteq Named(file'[s])
    BY <1>1, <2>4 DEF Left, Unrecorded
  <2>6. (file'[s] = None => Tree(s)' # "kept") /\ (Tree(s) # "kept" => Tree(s)' # "kept")
    BY <1>1, <2>4 DEF Tree, Unrecorded
  <2>7. told[s].cleaned => file'[s] = None
    <3> SUFFICES ASSUME told[s].cleaned, saving # NoSave, file' = persisted
                 PROVE  persisted[s] = None
      BY <1>1, <2>1 DEF OperationIsSound
    <3>1. file[s] = None /\ saving.session # s
      BY <2>1 DEF OperationIsSound
    <3>2. agent # "down" /\ recovery.stage # "none"
      BY DEF SessionInv, ProcessesRun
    <3>3. CASE recovery.stage = "load"
      BY <3>3 DEF SessionInv, ProcessesRun, Busy
    <3>4. CASE recovery.stage # "load"
      BY <3>1, <3>2, <3>4 DEF SessionInv, RecordsAgree
    <3> QED
      BY <3>3, <3>4
  <2>8. Sound(Idle.kind, Idle.at, Idle.ws, Idle.failed, file'[s], Left(s)', Tree(s)')
    BY <1>3, <2>5, <2>6 DEF Sound
  <2>9. Sound(Step(s)'.kind, Step(s)'.at, Step(s)'.ws, Step(s)'.failed, file'[s], Left(s)', Tree(s)')
    BY <2>3, <2>8
  <2>10. told[s].cleaned => Left(s)' = {} /\ Tree(s)' # "kept"
    BY <2>1, <2>5, <2>6 DEF OperationIsSound
  <2>11. flow'[s].at = "idle"
    BY <1>3, <1>5, <1>6
  <2> QED
    BY <1>1, <1>4, <2>7, <2>9, <2>10, <2>11 DEF OperationIsSound
<1> QED
  BY <1>7, <1>8, <1>9, <1>10, <1>11, <1>12 DEF SessionInv

\* The recovery goes on to the next session: with what it has read of it, or without.
LEMMA Visits == ASSUME SessionInv, NEW s \in Sessions, BeginRebuild(s) \/ FailValidate(s) PROVE SessionInv'
<1> USE Names
<1>0. /\ UNCHANGED <<worktree, previews, tunnel, file, persisted, active, saving, queue, agent, lost, started, told>>
      /\ recovery.stage = "rebuild" /\ recovery.current = None /\ s \in recovery.todo
      /\ recovery' = [recovery EXCEPT !.current = s]
  BY DEF BeginRebuild, FailValidate, resources, registry, process
<1>1. /\ recovery \in [stage : {"none", "load", "reconcile", "rebuild", "done", "late"}, todo : SUBSET Sessions,
                       current : Sessions \cup {None}, read : [Sessions -> Workspace \cup {None}]]
      /\ recovery.read[s] \in Workspace /\ flow \in [Flows -> FlowStates] /\ flow[Recovery].at = "idle"
  BY <1>0 DEF SessionInv, Domains, TypeOK, At
<1>2. PICK at \in {"close", "suspend"}, x \in FlowStates :
        /\ flow' = [flow EXCEPT ![Recovery] = x] /\ x.kind = "rebuild" /\ x.at = at
        /\ at = "close" => x.ws = recovery.read[s]
  <2>1. Idle \in FlowStates
    BY Beginnings
  <2>2. CASE BeginRebuild(s)
    <3>1. PICK at \in {"close", "suspend"} : at = IF worktree[s] = "full" THEN "close" ELSE "suspend"
      OBVIOUS
    <3>2. PICK x \in FlowStates : x = [Idle EXCEPT !.kind = "rebuild", !.ws = recovery.read[s], !.at = at]
      BY <1>1, <3>1, Beginnings DEF RecoveryKinds, Places
    <3>3. x.kind = "rebuild" /\ x.at = at /\ x.ws = recovery.read[s]
      BY <2>1, <3>2 DEF FlowStates
    <3>4. flow' = [flow EXCEPT ![Recovery] = x]
      BY <2>2, <3>1, <3>2 DEF BeginRebuild
    <3> QED
      BY <3>3, <3>4
  <2>3. CASE FailValidate(s)
    <3>2. PICK x \in FlowStates : x = [Idle EXCEPT !.kind = "rebuild", !.at = "suspend"]
      BY <2>1, Fields DEF RecoveryKinds, Places
    <3>3. x.kind = "rebuild" /\ x.at = "suspend"
      BY <2>1, <3>2 DEF FlowStates
    <3>4. flow' = [flow EXCEPT ![Recovery] = x]
      BY <2>3, <3>2 DEF FailValidate
    <3> QED
      BY <3>3, <3>4
  <2> QED
    BY <2>2, <2>3
<1>3. /\ recovery'.stage = "rebuild" /\ recovery'.current = s /\ recovery'.todo = recovery.todo
      /\ recovery'.read = recovery.read
      /\ recovery' \in [stage : {"none", "load", "reconcile", "rebuild", "done", "late"}, todo : SUBSET Sessions,
                        current : Sessions \cup {None}, read : [Sessions -> Workspace \cup {None}]]
  BY <1>0, <1>1
<1>4. /\ flow' \in [Flows -> FlowStates] /\ flow'[Recovery] = x
      /\ \A g \in Flows : g # Recovery => flow'[g] = flow[g]
  BY <1>1, <1>2 DEF Flows
<1>5. Domains'
  <2>1. \A g \in Flows :
          Fits(flow'[g].kind, flow'[g].at) /\ flow'[g].kind \in (IF g = Recovery THEN RecoveryKinds ELSE SessionKinds)
    BY <1>2, <1>4 DEF SessionInv, Domains, Fits, RecoveryKinds
  <2>2. \A g \in Flows : flow'[g].ws \in Workspace
    BY <1>4 DEF FlowStates
  <2>3. (recovery'.current = None) <=> flow'[Recovery].at = "idle"
    BY <1>2, <1>3, <1>4 DEF Flows
  <2>4. TypeOK'
    BY <1>0, <1>3, <2>2, <2>3 DEF SessionInv, Domains, TypeOK, At
  <2> QED
    BY <1>0, <1>3, <1>4, <2>1, <2>4 DEF SessionInv, Domains
<1>6. ProcessesRun'
  BY <1>0, <1>3 DEF SessionInv, ProcessesRun, Busy, NoRecovery
<1>7. QueuesFit'
  BY <1>0, <1>4 DEF SessionInv, QueuesFit, Flows
<1>8. SavesFit'
  <2>0. \A t \in Sessions : flow'[t].at = "forget" => worktree'[t] = "none"
    BY <1>0, <1>4 DEF SessionInv, SavesFit, Flows
  <2> SUFFICES ASSUME saving # NoSave
               PROVE  Saved(saving, flow[saving.flow])'
    BY <1>0, <2>0 DEF SavesFit
  <2>1. Saved(saving, flow[saving.flow]) /\ saving \in Saves
    BY DEF SessionInv, SavesFit, Domains
  <2>2. saving.flow # Recovery /\ saving.flow \in Flows
    BY <1>1, <2>1 DEF Saved, Saves
  <2>3. flow'[saving.flow] = flow[saving.flow]
    BY <1>4, <2>2
  <2>4. SessionOf(saving.flow)' = SessionOf(saving.flow)
    BY <1>0, <2>2 DEF SessionOf
  <2> QED
    BY <1>0, <2>1, <2>3, <2>4 DEF Saved
<1>9. RecordsAgree'
  BY <1>0, <1>3 DEF SessionInv, RecordsAgree
<1>10. OperationsAreSound'
  <2> SUFFICES ASSUME NEW t \in Sessions, ~told[t].early
               PROVE  OperationIsSound(t)'
    BY <1>0 DEF OperationsAreSound
  <2>1. OperationIsSound(t)
    BY DEF SessionInv, OperationsAreSound
  <2>2. Left(t)' = Left(t) /\ Tree(t)' = Tree(t)
    BY <1>0 DEF Left, Tree
  <2>3. t # Recovery /\ t \in Flows /\ Operator(t) = t /\ Step(t) = flow[t] /\ flow'[t] = flow[t]
    BY <1>0, <1>4 DEF Operator, Step, Flows
  <2>4. CASE t # s
    <3>1. Operator(t)' = t /\ Step(t)' = Step(t)
      BY <1>0, <1>3, <2>3, <2>4 DEF Operator, Step
    <3> QED
      BY <1>0, <1>3, <2>1, <2>2, <2>3, <2>4, <3>1 DEF OperationIsSound
  <2>5. CASE t = s
    <3>1. Step(s)' = x
      BY <1>3, <1>4, <2>5 DEF Operator, Step
    <3>2. file[s] # None /\ recovery.read[s] = file[s]
      BY <1>0, <2>1, <2>3, <2>5 DEF OperationIsSound
    <3>3. flow[s].kind = "idle" /\ flow[s].at = "idle"
      <4>1. queue[s] = <<>>
        BY <1>0, <2>5 DEF SessionInv, ProcessesRun, Busy
      <4>2. flow[s].kind = "idle"
        BY <4>1 DEF SessionInv, QueuesFit
      <4> QED
        BY <2>3, <2>5, <4>2 DEF SessionInv, Domains, Fits
    <3>4. Left(s) \subseteq Named(file[s])
      <4>1. Sound(flow[s].kind, flow[s].at, flow[s].ws, flow[s].failed, file[s], Left(s), Tree(s))
        BY <2>1, <2>3, <2>5 DEF OperationIsSound
      <4> QED
        BY <3>3, <4>1 DEF Sound
    <3>5. Sound(x.kind, x.at, x.ws, x.failed, file[s], Left(s), Tree(s))
      BY <1>2, <3>2, <3>4 DEF Sound, Named
    <3>6. Sound(Step(s)'.kind, Step(s)'.at, Step(s)'.ws, Step(s)'.failed, file'[s], Left(s)', Tree(s)')
      BY <1>0, <2>2, <2>5, <3>1, <3>5
    <3>7. ~(saving # NoSave /\ saving.session = s)
      BY <2>1, <2>3, <2>5, <3>3 DEF OperationIsSound, SessionInv, SavesFit, Saved
    <3>8. ~told[s].cleaned
      BY <2>1, <2>5, <3>2 DEF OperationIsSound
    <3> QED
      BY <1>0, <1>3, <2>5, <3>2, <3>6, <3>7, <3>8 DEF OperationIsSound
  <2> QED
    BY <2>4, <2>5
<1> QED
  BY <1>5, <1>6, <1>7, <1>8, <1>9, <1>10 DEF SessionInv

\* The recovery is done with a session, or gives it up.
LEMMA Leavings == ASSUME SessionInv, EndRebuild \/ Suspend PROVE SessionInv'
<1> USE Names
<1>0. /\ UNCHANGED <<worktree, previews, tunnel, file, persisted, saving, queue, agent, lost, started, told>>
      /\ flow[Recovery].at \in {"rebuilt", "suspend"}
      /\ active' \in {active, [active EXCEPT ![recovery.current] = None]}
      /\ recovery' = NextRecovered /\ flow' = [flow EXCEPT ![Recovery] = Idle]
  BY DEF EndRebuild, Suspend, At, resources, registry, process
<1>1. PICK t \in Sessions : t = recovery.current
  BY <1>0 DEF SessionInv, Domains, TypeOK, At
<1>2. /\ recovery \in [stage : {"none", "load", "reconcile", "rebuild", "done", "late"}, todo : SUBSET Sessions,
                       current : Sessions \cup {None}, read : [Sessions -> Workspace \cup {None}]]
      /\ flow \in [Flows -> FlowStates] /\ recovery.stage = "rebuild" /\ t \in recovery.todo
      /\ active \in [Sessions -> Workspace \cup {None}]
      /\ flow[Recovery].kind \in {"rebuild", "undo"}
  <2>1. Fits(flow[Recovery].kind, flow[Recovery].at) /\ Recovery \in Flows
    BY DEF SessionInv, Domains, Flows
  <2>2. flow[Recovery].kind \in {"rebuild", "undo"}
    BY <1>0, <2>1 DEF Fits
  <2> QED
    BY <1>1, <2>2 DEF SessionInv, Domains, TypeOK, Flows
<1>3. /\ recovery'.stage = "rebuild" /\ recovery'.current = None /\ recovery'.todo = recovery.todo \ {t}
      /\ recovery'.read = recovery.read
      /\ recovery' \in [stage : {"none", "load", "reconcile", "rebuild", "done", "late"}, todo : SUBSET Sessions,
                        current : Sessions \cup {None}, read : [Sessions -> Workspace \cup {None}]]
  <2>1. recovery' = [recovery EXCEPT !.todo = recovery.todo \ {t}, !.current = None]
    BY <1>0, <1>1 DEF NextRecovered
  <2>2. recovery.todo \ {t} \in SUBSET Sessions
    BY <1>2
  <2> QED
    BY <1>2, <2>1, <2>2
<1>4. /\ Idle \in FlowStates /\ Idle.kind = "idle" /\ Idle.at = "idle" /\ Idle.ws \in Workspace
  BY Beginnings DEF Idle
<1>5. /\ flow' \in [Flows -> FlowStates] /\ flow'[Recovery] = Idle
      /\ \A g \in Flows : g # Recovery => flow'[g] = flow[g]
  BY <1>0, <1>2, <1>4 DEF Flows
<1>6. /\ active' \in [Sessions -> Workspace \cup {None}]
      /\ \A s \in Sessions : active'[s] \in {active[s], None}
  BY <1>0, <1>1, <1>2
<1>7. Domains'
  <2>1. \A g \in Flows :
          Fits(flow'[g].kind, flow'[g].at) /\ flow'[g].kind \in (IF g = Recovery THEN RecoveryKinds ELSE SessionKinds)
    BY <1>4, <1>5 DEF SessionInv, Domains, Fits, RecoveryKinds
  <2>2. \A g \in Flows : flow'[g].ws \in Workspace
    BY <1>5 DEF FlowStates
  <2>3. (recovery'.current = None) <=> flow'[Recovery].at = "idle"
    BY <1>3, <1>4, <1>5
  <2>4. TypeOK'
    BY <1>0, <1>3, <1>6, <2>2, <2>3 DEF SessionInv, Domains, TypeOK, At
  <2>5. \A s \in recovery'.todo : recovery'.read[s] # None
    BY <1>3 DEF SessionInv, Domains
  <2> QED
    BY <1>0, <1>3, <1>5, <2>1, <2>4, <2>5 DEF SessionInv, Domains
<1>8. ProcessesRun'
  BY <1>0, <1>2, <1>3 DEF SessionInv, ProcessesRun, Busy, NoRecovery
<1>9. QueuesFit'
  BY <1>0, <1>5 DEF SessionInv, QueuesFit, Flows
<1>10. SavesFit'
  <2>0. \A s \in Sessions : flow'[s].at = "forget" => worktree'[s] = "none"
    BY <1>0, <1>5 DEF SessionInv, SavesFit, Flows
  <2> SUFFICES ASSUME saving # NoSave
               PROVE  Saved(saving, flow[saving.flow])'
    BY <1>0, <2>0 DEF SavesFit
  <2>1. Saved(saving, flow[saving.flow]) /\ saving \in Saves
    BY DEF SessionInv, SavesFit, Domains
  <2>2. saving.flow # Recovery /\ saving.flow \in Flows /\ saving.session \in Sessions
    BY <1>0, <2>1 DEF Saved, Saves
  <2>3. flow'[saving.flow] = flow[saving.flow]
    BY <1>5, <2>2
  <2>4. SessionOf(saving.flow)' = SessionOf(saving.flow)
    BY <1>0, <2>2 DEF SessionOf
  <2>5. active[saving.session] = None => active'[saving.session] = None
    BY <1>6, <2>2
  <2> QED
    BY <1>0, <2>1, <2>3, <2>4, <2>5 DEF Saved
<1>11. RecordsAgree'
  BY <1>0, <1>2, <1>3, <1>6 DEF SessionInv, RecordsAgree
<1>12. OperationsAreSound'
  <2> SUFFICES ASSUME NEW s \in Sessions, ~told[s].early
               PROVE  OperationIsSound(s)'
    BY <1>0 DEF OperationsAreSound
  <2>1. OperationIsSound(s)
    BY DEF SessionInv, OperationsAreSound
  <2>2. Left(s)' = Left(s) /\ Tree(s)' = Tree(s)
    BY <1>0 DEF Left, Tree
  <2>3. s # Recovery /\ s \in Flows /\ flow'[s] = flow[s] /\ Operator(s)' = s /\ Step(s)' = flow[s]
    BY <1>3, <1>5 DEF Operator, Step, Flows
  <2>4. CASE s # t
    <3>1. Operator(s) = s /\ Step(s) = flow[s]
      BY <1>1, <2>4 DEF Operator, Step
    <3>2. s \in recovery'.todo => file[s] # None /\ recovery.read[s] = file[s]
      BY <1>1, <1>3, <2>1, <2>4 DEF OperationIsSound
    <3> QED
      BY <1>0, <1>3, <2>1, <2>2, <2>3, <3>1, <3>2 DEF OperationIsSound
  <2>5. CASE s = t
    <3>1. Operator(s) = Recovery /\ Step(s) = flow[Recovery]
      BY <1>1, <2>5 DEF Operator, Step
    <3>2. flow[s].kind = "idle" /\ flow[s].at = "idle"
      <4>1. queue[s] = <<>>
        BY <1>2 DEF SessionInv, ProcessesRun, Busy
      <4>2. flow[s].kind = "idle"
        BY <4>1 DEF SessionInv, QueuesFit
      <4> QED
        BY <2>3, <4>2 DEF SessionInv, Domains, Fits
    <3>3. Sound(flow[Recovery].kind, flow[Recovery].at, flow[Recovery].ws, flow[Recovery].failed, file[s], Left(s), Tree(s))
      BY <2>1, <3>1 DEF OperationIsSound
    <3>4. file[s] # None /\ Left(s) \subseteq Named(file[s])
      BY <1>0, <1>2, <3>3 DEF Sound
    <3>5. Sound(flow[s].kind, flow[s].at, flow[s].ws, flow[s].failed, file[s], Left(s), Tree(s))
      BY <3>2, <3>4 DEF Sound
    <3>6. Sound(Step(s)'.kind, Step(s)'.at, Step(s)'.ws, Step(s)'.failed, file'[s], Left(s)', Tree(s)')
      BY <1>0, <2>2, <2>3, <3>5
    <3>7. ~(saving # NoSave /\ saving.session = s)
      BY <1>0, <2>1, <3>1 DEF OperationIsSound, SessionInv, SavesFit, Saved
    <3>8. ~told[s].cleaned /\ s \notin recovery'.todo
      BY <1>3, <2>1, <2>5, <3>4 DEF OperationIsSound
    <3> QED
      BY <1>0, <3>6, <3>7, <3>8 DEF OperationIsSound
  <2> QED
    BY <2>4, <2>5
<1> QED
  BY <1>7, <1>8, <1>9, <1>10, <1>11, <1>12 DEF SessionInv

\* It has removed what there was of a preview.
LEMMA Rebuilds == ASSUME SessionInv, Rebuild PROVE SessionInv'
<1> USE Names
<1> DEFINE f == Recovery
<1>0. f \in Flows /\ flow[f].at = "removed"
  BY DEF Rebuild, At, Flows
<1>1. PICK t \in Sessions : t = SessionOf(f)
  BY <1>0, Here
<1>2. /\ flow \in [Flows -> FlowStates] /\ flow[f] \in FlowStates
      /\ flow[f].kind # "idle" /\ Fits(flow[f].kind, flow[f].at)
      /\ worktree \in [Sessions -> {"none", "branch", "full"}]
      /\ previews \in [Sessions -> SUBSET (1..MaxStarts)] /\ lost \in [Sessions -> SUBSET Nat]
      /\ tunnel \in [Sessions -> BOOLEAN] /\ started \in [Sessions -> Nat]
      /\ ~told[t].early => Sound(flow[f].kind, flow[f].at, flow[f].ws, flow[f].failed, file[t], Left(t), Tree(t))
  BY <1>0, <1>1, Here
<1>3. PICK at \in {"suspend", "start"} : at = IF flow[f].failed THEN "suspend" ELSE "start"
  OBVIOUS
<1>4. PICK x \in FlowStates : x = [flow[f] EXCEPT !.at = at]
  BY <1>2, <1>3, Fields DEF Places
<1>5. x.kind = "rebuild" /\ flow[f].kind = "rebuild" /\ x.at = at /\ x.ws = flow[f].ws /\ x.failed = flow[f].failed
  BY <1>0, <1>2, <1>4 DEF FlowStates, Fits
<1>6. flow' = [flow EXCEPT ![f] = x]
  BY <1>2, <1>3, <1>4 DEF Rebuild, Goto
<1>7. Left(t)' = Left(t) /\ Tree(t)' = Tree(t)
  BY DEF Rebuild, Left, Tree, resources, process
<1>8. ~told[t].early => Sound(x.kind, x.at, x.ws, x.failed, file[t], Left(t), Tree(t))
  BY <1>0, <1>2, <1>3, <1>5 DEF Sound
<1>9. Fits(x.kind, x.at)
  BY <1>3, <1>5 DEF Fits
<1>10. NextPlace(f, t, x)
  BY <1>0, <1>1, <1>2, <1>3, <1>5, <1>6, <1>7, <1>8, <1>9 DEF NextPlace, Rebuild, resources, process
<1> QED
  BY <1>0, <1>10, MovesOn

\* It holds of what an earlier process left.
LEMMA Beginning == ASSUME Init PROVE SessionInv
<1> USE Names
<1>1. PICK stored \in SUBSET Sessions :
        /\ worktree = [s \in Sessions |-> IF s \in stored THEN "full" ELSE "none"]
        /\ previews = [s \in Sessions |-> IF s \in stored THEN {1} ELSE {}]
        /\ tunnel = [s \in Sessions |-> s \in stored]
        /\ file = [s \in Sessions |-> IF s \in stored THEN [preview |-> 1, tunnel |-> TRUE] ELSE None]
        /\ started = [s \in Sessions |-> IF s \in stored THEN 1 ELSE 0]
        /\ told = [s \in Sessions |-> [prepare |-> s \in stored, closes |-> 0, cleaned |-> FALSE, early |-> FALSE]]
  BY DEF Init
<1>2. /\ persisted = [s \in Sessions |-> None] /\ active = [s \in Sessions |-> None] /\ saving = NoSave
      /\ queue = [s \in Sessions |-> <<>>] /\ flow = [f \in Flows |-> Idle] /\ recovery = NoRecovery
      /\ agent = "down" /\ lost = [s \in Sessions |-> {}]
  BY DEF Init
<1>3. MaxStarts \in Nat /\ 1 \in 1..MaxStarts /\ [preview |-> 1, tunnel |-> TRUE] \in Workspace
  BY BoundsAssumption DEF MaxStarts, Workspace
<1>4. /\ Idle \in FlowStates /\ Idle.kind = "idle" /\ Idle.at = "idle" /\ Idle.ws \in Workspace
  BY Beginnings DEF Idle
<1>5. /\ NoRecovery.stage = "none" /\ NoRecovery.todo = {} /\ NoRecovery.current = None
      /\ NoRecovery \in [stage : {"none", "load", "reconcile", "rebuild", "done", "late"}, todo : SUBSET Sessions,
                         current : Sessions \cup {None}, read : [Sessions -> Workspace \cup {None}]]
  BY DEF NoRecovery
<1>6. Recovery \in Flows /\ \A s \in Sessions : s \in Flows
  BY DEF Flows
<1>7. \A f \in Flows : flow[f] = Idle
  BY <1>2
<1>8. Domains
  <2>1. /\ worktree \in [Sessions -> {"none", "branch", "full"}]
        /\ previews \in [Sessions -> SUBSET (1..MaxStarts)]
        /\ tunnel \in [Sessions -> BOOLEAN]
        /\ started \in [Sessions -> Nat]
        /\ told \in [Sessions -> [prepare : BOOLEAN, closes : Nat, cleaned : BOOLEAN, early : BOOLEAN]]
    BY <1>1, <1>3
  <2>2. file \in [Sessions -> Workspace \cup {None}]
    BY <1>1, <1>3
  <2>3. {file, persisted, active} \subseteq [Sessions -> Workspace \cup {None}]
    BY <1>2, <2>2
  <2>4. queue \in [Sessions -> Seq({"prepare", "close", "shutdown"})]
    BY <1>2
  <2>5. TypeOK
    BY <1>2, <1>4, <1>5, <1>6, <1>7, <2>1, <2>3, <2>4 DEF TypeOK, At
  <2>6. \A g \in Flows :
          Fits(flow[g].kind, flow[g].at) /\ flow[g].kind \in (IF g = Recovery THEN RecoveryKinds ELSE SessionKinds)
    BY <1>4, <1>7 DEF Fits, SessionKinds, RecoveryKinds
  <2>7. flow \in [Flows -> FlowStates] /\ lost \in [Sessions -> SUBSET Nat]
    BY <1>2, <1>4
  <2> QED
    BY <1>2, <1>5, <2>1, <2>5, <2>6, <2>7 DEF Domains
<1>9. ProcessesRun
  BY <1>2, <1>4, <1>5, <1>7 DEF ProcessesRun, Busy
<1>10. QueuesFit
  BY <1>1, <1>2, <1>4, <1>6, <1>7 DEF QueuesFit
<1>11. SavesFit /\ RecordsAgree
  BY <1>2, <1>4, <1>5, <1>6, <1>7 DEF SavesFit, RecordsAgree
<1>12. OperationsAreSound
  <2> SUFFICES ASSUME NEW s \in Sessions
               PROVE  OperationIsSound(s)
    BY DEF OperationsAreSound
  <2>1. Step(s) = Idle /\ flow[s].at = "idle"
    BY <1>2, <1>4, <1>5, <1>6, <1>7 DEF Step, Operator
  <2>2. CASE s \in stored
    <3>1. file[s] = [preview |-> 1, tunnel |-> TRUE] /\ previews[s] = {1}
      BY <1>1, <2>2
    <3>2. file[s] # None /\ file[s].preview = 1
      <4>1. file[s] \in Workspace
        BY <1>3, <3>1
      <4>2. [preview |-> 1, tunnel |-> TRUE].preview = 1
        OBVIOUS
      <4> QED
        BY <3>1, <4>1, <4>2
    <3>3. Left(s) \subseteq Named(file[s])
      BY <3>1, <3>2 DEF Left, Named
    <3> QED
      BY <1>1, <1>2, <1>4, <1>5, <2>1, <3>2, <3>3 DEF OperationIsSound, Sound
  <2>3. CASE s \notin stored
    <3>1. file[s] = None /\ Left(s) = {} /\ Tree(s) = "none"
      BY <1>1, <2>3 DEF Left, Tree
    <3> QED
      BY <1>1, <1>2, <1>4, <1>5, <2>1, <3>1 DEF OperationIsSound, Sound
  <2> QED
    BY <2>2, <2>3
<1> QED
  BY <1>8, <1>9, <1>10, <1>11, <1>12 DEF SessionInv

\* A step that changes nothing.
LEMMA Stutters == ASSUME SessionInv, UNCHANGED vars PROVE SessionInv'
<1>1. UNCHANGED <<worktree, previews, tunnel, file, persisted, active, saving, queue, flow, recovery, agent, lost, started, told>>
  BY DEF vars, resources, registry, process
<1>2. Domains'
  BY <1>1 DEF SessionInv, Domains, TypeOK, At
<1>3. ProcessesRun' /\ QueuesFit' /\ SavesFit' /\ RecordsAgree'
  BY <1>1 DEF SessionInv, ProcessesRun, Busy, QueuesFit, SavesFit, Saved, SessionOf, RecordsAgree
<1>4. \A s \in Sessions : Step(s)' = Step(s) /\ Left(s)' = Left(s) /\ Tree(s)' = Tree(s) /\ Operator(s)' = Operator(s)
  BY <1>1 DEF Step, Operator, Left, Tree
<1>5. OperationsAreSound'
  BY <1>1, <1>4 DEF SessionInv, OperationsAreSound, OperationIsSound
<1> QED
  BY <1>2, <1>3, <1>5 DEF SessionInv

\* Every step keeps it.
LEMMA Steps == ASSUME SessionInv, [Next]_vars PROVE SessionInv'
<1>1. CASE Start
  BY <1>1, Starts
<1>2. CASE Stop \/ EndShutdown
  BY <1>2, Stops
<1>3. CASE Crash \/ Exit \/ FailReconcile
  <2>1. Die
    BY <1>3 DEF Crash, Exit, FailReconcile
  <2> QED
    BY <2>1, Deaths
<1>4. ASSUME NEW s \in Sessions, ReceivePrepare(s) \/ ReceiveClose(s) \/ ShutDown(s)
      PROVE  SessionInv'
  BY <1>4, Commands
<1>5. ASSUME NEW s \in Sessions, Operation(s)
      PROVE  SessionInv'
  <2>1. CASE BeginPrepare(s) \/ BeginClose(s) \/ BeginShutdown(s)
    BY <2>1, BeginSteps
  <2>2. CASE Release(s)
    BY <2>2, Releases
  <2>3. CASE CreateWorktree(s) \/ FailWorktree(s) \/ RemoveWorktree(s) \/ FailRemoveWorktree(s)
    BY <2>3, WorktreeSteps
  <2>4. CASE Register(s) \/ Forget(s)
    BY <2>4, RecordSteps
  <2> QED
    BY <1>5, <2>1, <2>2, <2>3, <2>4 DEF Operation
<1>6. ASSUME NEW f \in Flows, FlowStep(f)
      PROVE  SessionInv'
  <2>1. CASE StartPreview(f) \/ OpenTunnel(f) \/ FailPreview(f)
    BY <2>1, PreviewSteps
  <2>2. CASE UpdateRebuilt(f) \/ CloseTunnel(f) \/ CloseTunnelInVain(f) \/ FailCloseTunnel(f)
    BY <2>2, UpdateSteps
  <2>3. CASE StopPreview(f) \/ FailStopPreview(f)
    BY <2>3, StopSteps
  <2> QED
    BY <1>6, <2>1, <2>2, <2>3 DEF FlowStep
<1>7. CASE Load
  BY <1>7, Loads
<1>8. CASE Reconcile
  BY <1>8, Reconciles
<1>9. CASE Rebuild
  BY <1>9, Rebuilds
<1>10. CASE EndRebuild \/ Suspend
  BY <1>10, Leavings
<1>11. CASE EndRecovery
  BY <1>11, Recovers
<1>12. ASSUME NEW s \in Sessions, BeginRebuild(s) \/ FailValidate(s)
       PROVE  SessionInv'
  BY <1>12, Visits
<1>13. CASE EndSave
  BY <1>13, SaveEnds
<1>14. CASE FailSave
  BY <1>14, SaveFails
<1>15. CASE UNCHANGED vars
  BY <1>15, Stutters
<1>16. RecoveryStep => SessionInv'
  BY <1>3, <1>7, <1>8, <1>9, <1>10, <1>11, <1>12 DEF RecoveryStep
<1>17. StoreStep => SessionInv'
  BY <1>13, <1>14 DEF StoreStep
<1>18. ShutdownStep => SessionInv'
  BY <1>2, <1>3, <1>4 DEF ShutdownStep
<1> QED
  BY <1>1, <1>2, <1>3, <1>4, <1>5, <1>6, <1>15, <1>16, <1>17, <1>18 DEF Next

THEOREM Invariance == Spec => []SessionInv
<1>1. Init => SessionInv
  BY Beginning
<1>2. SessionInv /\ [Next]_vars => SessionInv'
  BY Steps
<1> QED
  BY <1>1, <1>2, PTL DEF Spec

\* What the invariant says of memory, file, worktrees and previews.
LEMMA Accounts == ASSUME SessionInv PROVE SessionsAreAccountedFor
<1> USE Names
<1>1. TypeOK
  BY DEF SessionInv, Domains
<1>2. ActiveIsPersisted
  BY DEF SessionInv, RecordsAgree, ActiveIsPersisted
<1>3. FileMatchesMemory
  <2> SUFFICES ASSUME saving = NoSave, recovery.stage \notin {"none", "load"}
               PROVE  file = persisted
    BY DEF FileMatchesMemory
  <2>1. \A s \in Sessions : file[s] = persisted[s]
    BY DEF SessionInv, RecordsAgree
  <2> QED
    BY <1>1, <2>1 DEF TypeOK
<1>4. CleanedIsGone
  <2> SUFFICES ASSUME NEW s \in Sessions, told[s].cleaned, ~told[s].early
               PROVE  /\ file[s] = None
                      /\ worktree[s] = "none" \/ 0 \in lost[s]
                      /\ s \notin Containers => previews[s] \subseteq lost[s]
    BY DEF CleanedIsGone
  <2>1. file[s] = None /\ Left(s) = {} /\ Tree(s) # "kept"
    BY DEF SessionInv, OperationsAreSound, OperationIsSound
  <2> QED
    BY <2>1 DEF Left, Tree
<1>5. PreviewsAreKnown
  <2> SUFFICES ASSUME NEW s \in Sessions \ Containers, ~told[s].early, NEW n \in previews[s] \ lost[s]
               PROVE  \/ file[s] # None /\ file[s].preview = n
                      \/ \E f \in {s, Recovery} : SessionOf(f) = s /\ flow[f].ws.preview = n
    BY DEF PreviewsAreKnown
  <2>1. n \in Left(s) /\ s # Recovery
    BY DEF Left
  <2>2. /\ Operator(s) \in {s, Recovery} /\ SessionOf(Operator(s)) = s /\ Step(s) = flow[Operator(s)]
        /\ Operator(s) \in Flows
    BY <2>1 DEF Operator, SessionOf, Step, Flows
  <2>3. Sound(Step(s).kind, Step(s).at, Step(s).ws, Step(s).failed, file[s], Left(s), Tree(s))
    BY DEF SessionInv, OperationsAreSound, OperationIsSound
  <2>4. Step(s) \in FlowStates /\ Fits(Step(s).kind, Step(s).at)
    BY <2>2 DEF SessionInv, Domains
  <2>5. Left(s) \subseteq {Step(s).ws.preview} \/ Left(s) \subseteq Named(file[s])
    <3>1. Step(s).at \in Places
      BY <2>4 DEF FlowStates
    <3> QED
      BY <2>3, <3>1 DEF Sound, Places
  <2>6. CASE Left(s) \subseteq {Step(s).ws.preview}
    BY <2>1, <2>2, <2>6
  <2>7. CASE Left(s) \subseteq Named(file[s])
    BY <2>1, <2>7 DEF Named
  <2> QED
    BY <2>5, <2>6, <2>7
<1> QED
  BY <1>1, <1>2, <1>3, <1>4, <1>5 DEF SessionsAreAccountedFor

\* Whatever fails, is repeated or is stopped halfway, memory, state file, worktrees and
\* previews agree about every session.
THEOREM SessionsAccounted == Spec => []SessionsAreAccountedFor
<1>1. SessionInv => SessionsAreAccountedFor
  BY Accounts
<1> QED
  BY <1>1, Invariance, PTL
-----------------------------------------------------------------------------
(***************************************************************************)
(* What an orderly stop leaves behind.  While nothing failed, what there   *)
(* is of a session is what the operation on it, or its record, names: an   *)
(* operation that ends before the stop has removed it or recorded it, and  *)
(* what is recorded is shut down.                                          *)
(***************************************************************************)
\* What there is of a session is what a workspace names: its tunnel and its preview.
Covered(s, ws) ==
  /\ tunnel[s] => ws.tunnel
  /\ IF s \in Containers THEN previews[s] # {} => ws.preview # 0
     ELSE previews[s] \ lost[s] \subseteq {ws.preview}
Empty(s) == Covered(s, Bare)
Recorded(s) == IF active[s] = None THEN Bare ELSE active[s]

\* What there is of a session, and of its records, when an operation on it that met no fault
\* is at a place.
Tidy(s, kind, at, ws, failed) ==
  /\ at # "saving"
  /\ at \notin {"idle", "end"} => ~failed
  /\ at \in {"register", "start", "open", "update", "close", "stop"} => Covered(s, ws)
  /\ at \in {"idle", "worktree", "end", "rebuilt"} => Covered(s, Recorded(s))
  /\ at \in {"remove", "removed", "forget", "cleaned", "suspend"} => Empty(s)
  /\ at = "end" /\ kind # "prepare" => Empty(s)
  /\ at = "worktree" => ws = Bare /\ active[s] = None
  /\ at = "stop" => ~ws.tunnel
  /\ at \in {"open", "update"} => ws.preview # 0
  /\ at \in {"start", "open", "update", "close", "stop"} => persisted[s] # None
  /\ kind = "prepare" /\ at \in {"start", "open"} => active[s] # None
  /\ kind = "prepare" /\ at = "register" /\ active[s] = None => ws = Bare
  /\ kind = "prepare" /\ at \in {"register", "start", "open"} => worktree[s] = "full"
  /\ kind = "rebuild" /\ at # "suspend" => worktree[s] = "full"

\* An operation that began before the agent was told to stop leaves nothing of a session that
\* is not shut down: it removes what there is, or it is a preparation that will not be heard.
Fading(s, kind, at, ws, deaf) ==
  /\ kind = "idle" => Empty(s)
  /\ kind = "prepare" => IF at = "end" THEN Empty(s) ELSE ~ws.tunnel /\ (ws.preview = 0 \/ deaf)

\* Where the operation on a session is, or will be once it is saved.
Place(s) == IF saving # NoSave /\ saving.session = s THEN saving.ok ELSE Step(s).at

SessionIsTidy(s) ==
  /\ s \notin Containers /\ worktree[s] # "full" => Left(s) = {}
  /\ recovery.stage = "reconcile" => active[s] = persisted[s]
  /\ s \in recovery.todo =>
       /\ active[s] # None
       /\ recovery.stage = "rebuild" /\ recovery.current # s =>
            ~tunnel[s] /\ (s \in Containers => previews[s] = {})
  /\ recovery.stage \in {"rebuild", "done"} => Tidy(s, Step(s).kind, Place(s), Step(s).ws, Step(s).failed)
  /\ recovery.stage = "done" /\ agent # "up" =>
       s \in leaving \/ ShuttingDown(s) \/ Fading(s, Step(s).kind, Place(s), Step(s).ws, Step(s).deaf)

\* While nothing failed, whatever there is of a session will be removed by an orderly stop.
StopInv ==
  /\ count \in [runs : Nat, faults : Nat]
  /\ recovery.stage = "late" => \A s \in Sessions : told[s].early
  /\ agent = "stopped" => leaving = {} /\ \A s \in Sessions : ~ShuttingDown(s)
  /\ count.faults = 0 => \A s \in Sessions : ~told[s].early => SessionIsTidy(s)

\* What stays of a session, and what no longer counts of it, stays covered.
LEMMA CoveredStays ==
  ASSUME NEW s \in Sessions, tunnel'[s] = tunnel[s], previews'[s] = previews[s], lost[s] \subseteq lost'[s]
  PROVE  /\ \A ws : Covered(s, ws) => Covered(s, ws)'
         /\ Left(s)' \subseteq Left(s)
BY DEF Covered, Left

\* Of what holds nothing, any workspace names all.
LEMMA EmptyIsCovered ==
  ASSUME SessionInv, NEW s \in Sessions, Empty(s)
  PROVE  /\ ~tunnel[s] /\ Left(s) = {} /\ (s \in Containers => previews[s] = {})
         /\ \A ws : Covered(s, ws)
<1>1. previews[s] \in SUBSET (1..MaxStarts) /\ MaxStarts \in Nat
  BY BoundsAssumption DEF SessionInv, Domains, TypeOK, MaxStarts
<1>2. ~tunnel[s] /\ (s \in Containers => previews[s] = {}) /\ (s \notin Containers => previews[s] \ lost[s] \subseteq {0})
  BY DEF Empty, Covered, Bare
<1>3. Left(s) = {}
  BY <1>1, <1>2 DEF Left
<1> QED
  BY <1>2, <1>3 DEF Covered, Left

LEMMA NothingIsEmpty ==
  ASSUME NEW s \in Sessions, ~tunnel[s], Left(s) = {}, s \in Containers => previews[s] = {}
  PROVE  Empty(s)
BY DEF Empty, Covered, Left, Bare

\* Nothing there is of session s, nor of its records, changes, but for what was lost track of.
Alike(s) ==
  /\ worktree'[s] = worktree[s] /\ previews'[s] = previews[s] /\ tunnel'[s] = tunnel[s] /\ lost[s] \subseteq lost'[s]
  /\ active'[s] = active[s] /\ persisted'[s] = persisted[s]
Apart(s) == Alike(s) /\ Step(s)' = Step(s) /\ Place(s)' = Place(s)

LEMMA TidyStays ==
  ASSUME NEW s \in Sessions, Alike(s), NEW kind, NEW at, NEW ws, NEW failed, NEW deaf
  PROVE  /\ Tidy(s, kind, at, ws, failed) => Tidy(s, kind, at, ws, failed)'
         /\ Fading(s, kind, at, ws, deaf) => Fading(s, kind, at, ws, deaf)'
<1>1. /\ \A w : Covered(s, w) => Covered(s, w)'
      /\ Empty(s) => Empty(s)'
  BY CoveredStays DEF Alike, Empty
<1>2. Recorded(s)' = Recorded(s)
  BY DEF Recorded, Alike
<1>3. Covered(s, Recorded(s)) => Covered(s, Recorded(s))'
  BY <1>1, <1>2
<1> QED
  BY <1>1, <1>3 DEF Tidy, Fading, Alike

\* So does a session that the step is not about.
LEMMA StaysTidy ==
  ASSUME NEW s \in Sessions, SessionIsTidy(s), Apart(s),
         recovery'.stage = recovery.stage,
         s \in recovery'.todo => s \in recovery.todo /\ (recovery'.current # s => recovery.current # s),
         agent' # "up" =>
           agent # "up" /\ (s \in leaving \/ ShuttingDown(s) => s \in leaving' \/ ShuttingDown(s)')
  PROVE  SessionIsTidy(s)'
<1>1. Left(s)' \subseteq Left(s)
  BY CoveredStays DEF Apart, Alike
<1>2. PICK x, place : x = Step(s) /\ place = Place(s)
  OBVIOUS
<1>3. Step(s)' = x /\ Place(s)' = place
  BY <1>2 DEF Apart, Alike
<1>4. s \notin Containers /\ worktree'[s] # "full" => Left(s)' = {}
  BY <1>1 DEF SessionIsTidy, Apart, Alike
<1>5. /\ recovery'.stage = "reconcile" => active'[s] = persisted'[s]
      /\ s \in recovery'.todo =>
           /\ active'[s] # None
           /\ recovery'.stage = "rebuild" /\ recovery'.current # s =>
                ~tunnel'[s] /\ (s \in Containers => previews'[s] = {})
  BY DEF SessionIsTidy, Apart, Alike
<1>6. recovery'.stage \in {"rebuild", "done"} => Tidy(s, x.kind, place, x.ws, x.failed)'
  BY <1>2, TidyStays DEF SessionIsTidy, Apart
<1>7. recovery'.stage = "done" /\ agent' # "up" =>
        s \in leaving' \/ ShuttingDown(s)' \/ Fading(s, x.kind, place, x.ws, x.deaf)'
  BY <1>2, TidyStays DEF SessionIsTidy, Apart
<1> QED
  BY <1>3, <1>4, <1>5, <1>6, <1>7 DEF SessionIsTidy

\* Where nothing failed, what the operation that acts finds.
LEMMA Finding ==
  ASSUME SessionInv, StopInv, NEW f \in Flows, NEW t \in Sessions, t = SessionOf(f),
         flow[f].kind # "idle" \/ (f \in Sessions /\ queue[f] # <<>>),
         count.faults = 0, ~told[t].early
  PROVE  /\ f = Operator(t) /\ Step(t) = flow[f] /\ recovery.stage \in {"rebuild", "done"}
         /\ f \in Sessions => recovery.stage = "done" /\ t \notin recovery.todo
         /\ SessionIsTidy(t)
         /\ flow[f].at # "saving" =>
              /\ ~(saving # NoSave /\ saving.session = t) /\ Place(t) = flow[f].at
              /\ Tidy(t, flow[f].kind, flow[f].at, flow[f].ws, flow[f].failed)
              /\ recovery.stage = "done" /\ agent # "up" =>
                   t \in leaving \/ ShuttingDown(t)
                     \/ Fading(t, flow[f].kind, flow[f].at, flow[f].ws, flow[f].deaf)
              /\ file[t] = persisted[t]
         /\ flow[f].at # "saving" =>
              Sound(flow[f].kind, flow[f].at, flow[f].ws, flow[f].failed, file[t], Left(t), Tree(t))
         /\ t \in recovery.todo => active[t] # None
         /\ active[t] # None => active[t] = persisted[t]
<1>1. /\ f = Operator(t) /\ recovery.stage \notin {"none", "load"} /\ agent # "down"
      /\ Sound(flow[f].kind, flow[f].at, flow[f].ws, flow[f].failed, file[t], Left(t), Tree(t))
      /\ f \notin Sessions => recovery.stage = "rebuild"
  BY Acting
<1>2. f \in Sessions => ~Busy
  <2> SUFFICES ASSUME f \in Sessions
               PROVE  ~Busy
    OBVIOUS
  <2>1. t = f
    BY Names DEF SessionOf
  <2>2. queue[f] # <<>>
    BY DEF SessionInv, QueuesFit
  <2> QED
    BY <2>1, <2>2 DEF SessionInv, ProcessesRun
<1>3. recovery.stage \in {"rebuild", "done"} /\ (f \in Sessions => recovery.stage = "done" /\ t \notin recovery.todo)
  <2>1. recovery.stage # "late"
    BY DEF StopInv
  <2>2. recovery.stage \in {"none", "load", "reconcile", "rebuild", "done", "late"}
        /\ (t \in recovery.todo => recovery.stage \in {"reconcile", "rebuild"})
    BY DEF SessionInv, Domains
  <2> QED
    BY <1>1, <1>2, <2>1, <2>2 DEF Busy
<1>4. SessionIsTidy(t) /\ Step(t) = flow[f]
  <2>1. SessionIsTidy(t)
    BY DEF StopInv
  <2> QED
    BY <1>1, <2>1 DEF Step
<1>5. ASSUME flow[f].at # "saving"
      PROVE  ~(saving # NoSave /\ saving.session = t) /\ Place(t) = flow[f].at /\ file[t] = persisted[t]
  <2>1. ~(saving # NoSave /\ saving.session = t)
    <3> SUFFICES ASSUME saving # NoSave, saving.session = t
                 PROVE  FALSE
      OBVIOUS
    <3>1. saving.flow = f
      BY <1>1 DEF SessionInv, OperationsAreSound, OperationIsSound
    <3>2. flow[saving.flow].at = "saving"
      BY DEF SessionInv, SavesFit, Saved
    <3> QED
      BY <1>5, <3>1, <3>2
  <2>2. file[t] = persisted[t]
    BY <1>1, <2>1 DEF SessionInv, RecordsAgree
  <2> QED
    BY <1>4, <2>1, <2>2 DEF Place
<1>6. active[t] # None => active[t] = persisted[t]
  BY DEF SessionInv, RecordsAgree
<1> QED
  BY <1>1, <1>3, <1>4, <1>5, <1>6 DEF SessionIsTidy

\* An operation f acts on session t, is then as in x, and at the place given or on its way there.
Acted(f, t, x, place) ==
  /\ t = SessionOf(f) /\ (flow[f].kind # "idle" \/ (f \in Sessions /\ queue[f] # <<>>))
  /\ flow' = [flow EXCEPT ![f] = x]
  /\ \A s \in Sessions : s # t =>
       /\ worktree'[s] = worktree[s] /\ previews'[s] = previews[s] /\ tunnel'[s] = tunnel[s]
       /\ lost[s] \subseteq lost'[s] /\ active'[s] = active[s] /\ persisted'[s] = persisted[s]
       /\ queue'[s] = queue[s]
  /\ \A s \in Sessions : told'[s].early = told[s].early
  /\ ShuttingDown(t)' => ShuttingDown(t)
  /\ UNCHANGED <<recovery, agent, leaving>>
  /\ count' \in [runs : Nat, faults : Nat] /\ (count'.faults = 0 => count.faults = 0)
  /\ \/ UNCHANGED saving /\ flow[f].at # "saving" /\ place = x.at
     \/ saving = NoSave /\ saving' # NoSave /\ saving'.session = t /\ place = saving'.ok
     \/ saving # NoSave /\ saving.session = t /\ saving' = NoSave /\ place = x.at
Tidied(t, x, place) ==
  /\ t \notin Containers /\ worktree'[t] # "full" => Left(t)' = {}
  /\ t \in recovery.todo => active'[t] # None
  /\ Tidy(t, x.kind, place, x.ws, x.failed)'
  /\ recovery.stage = "done" /\ agent # "up" =>
       t \in leaving \/ ShuttingDown(t)' \/ Fading(t, x.kind, place, x.ws, x.deaf)'

LEMMA Acts ==
  ASSUME SessionInv, StopInv, NEW f \in Flows, NEW t \in Sessions, NEW x \in FlowStates, NEW place,
         Acted(f, t, x, place),
         count'.faults = 0 /\ ~told[t].early => Tidied(t, x, place)
  PROVE  StopInv'
<1> USE Names
<1>0. flow \in [Flows -> FlowStates]
  BY DEF SessionInv, Domains
<1>1. \A s \in Sessions : s # t => ShuttingDown(s)' = ShuttingDown(s)
  BY DEF Acted, ShuttingDown
<1>2. /\ count' \in [runs : Nat, faults : Nat]
      /\ recovery'.stage = "late" => \A s \in Sessions : told'[s].early
      /\ agent' = "stopped" => leaving' = {} /\ \A s \in Sessions : ~ShuttingDown(s)'
  BY <1>1 DEF StopInv, Acted
<1>3. ASSUME count'.faults = 0, NEW s \in Sessions, ~told'[s].early, s # t
      PROVE  SessionIsTidy(s)'
  <2>0. count.faults = 0 /\ ~told[s].early
    BY <1>3 DEF Acted
  <2>1. SessionIsTidy(s)
    BY <2>0 DEF StopInv
  <2>2. Operator(s)' = Operator(s) /\ Operator(s) # f /\ Operator(s) \in Flows
    BY <1>3 DEF Operator, Acted, SessionOf, Flows
  <2>3. Step(s)' = Step(s)
    BY <1>0, <2>2 DEF Step, Acted
  <2>4. Place(s)' = Place(s)
    BY <1>3, <2>3 DEF Place, Acted
  <2>5. Apart(s)
    BY <1>3, <2>3, <2>4 DEF Apart, Alike, Acted
  <2> QED
    BY <1>1, <1>3, <2>1, <2>5, StaysTidy DEF Acted
<1>4. ASSUME count'.faults = 0, ~told'[t].early
      PROVE  SessionIsTidy(t)'
  <2>1. count.faults = 0 /\ ~told[t].early /\ Tidied(t, x, place)
    BY <1>4 DEF Acted
  <2>2. /\ f = Operator(t) /\ recovery.stage \in {"rebuild", "done"}
        /\ f \in Sessions => t \notin recovery.todo
        /\ flow[f].at # "saving" => ~(saving # NoSave /\ saving.session = t)
    BY <2>1, Finding DEF Acted
  <2>3. Step(t)' = x
    BY <1>0, <2>2 DEF Step, Operator, Acted
  <2>4. Place(t)' = place
    BY <2>2, <2>3 DEF Place, Acted
  <2>5. t \in recovery.todo => recovery.current = t
    BY <2>2 DEF Operator
  <2> QED
    BY <2>1, <2>2, <2>3, <2>4, <2>5 DEF Tidied, SessionIsTidy, Acted
<1> QED
  BY <1>2, <1>3, <1>4 DEF StopInv

\* After a fault nothing more is said.
LEMMA Faults ==
  ASSUME StopInv, Fault, recovery'.stage = "late" => recovery.stage = "late",
         \A s \in Sessions : told'[s].early = told[s].early,
         agent' = "stopped" => agent = "stopped" /\ leaving' = leaving /\ queue' = queue
  PROVE  StopInv'
<1>1. count' \in [runs : Nat, faults : Nat] /\ count'.faults # 0
  BY DEF StopInv, Fault
<1>2. queue' = queue => \A s \in Sessions : ShuttingDown(s)' = ShuttingDown(s)
  BY DEF ShuttingDown
<1> QED
  BY <1>1, <1>2 DEF StopInv

\* Steps that make or remove a worktree.
LEMMA TreesAreTidy ==
  ASSUME SessionInv, StopInv, NEW s \in Sessions,
         CreateWorktree(s) \/ FailWorktree(s) \/ RemoveWorktree(s) \/ FailRemoveWorktree(s)
  PROVE  StopInv'
<1>0. s \in Flows /\ flow[s].at \in {"worktree", "remove"}
  BY DEF Flows, CreateWorktree, FailWorktree, RemoveWorktree, FailRemoveWorktree, At
<1>1. /\ SessionOf(s) = s /\ flow \in [Flows -> FlowStates] /\ flow[s] \in FlowStates
      /\ flow[s].kind # "idle" /\ Fits(flow[s].kind, flow[s].at)
      /\ worktree \in [Sessions -> {"none", "branch", "full"}]
  BY <1>0, Here
<1>2. count \in [runs : Nat, faults : Nat]
  BY DEF StopInv
<1>3. ASSUME count.faults = 0, ~told[s].early
      PROVE  /\ recovery.stage = "done" /\ s \notin recovery.todo
             /\ Tidy(s, flow[s].kind, flow[s].at, flow[s].ws, flow[s].failed)
             /\ agent # "up" =>
                  s \in leaving \/ ShuttingDown(s) \/ Fading(s, flow[s].kind, flow[s].at, flow[s].ws, flow[s].deaf)
  BY <1>0, <1>1, <1>3, Finding
<1>4. ASSUME CreateWorktree(s)
      PROVE  StopInv'
  <2>1. PICK deaf \in BOOLEAN : deaf = Deafen(s)
    BY DEF Deafen
  <2>2. PICK x \in FlowStates : x = [flow[s] EXCEPT !.at = "register", !.deaf = deaf]
    BY <1>1, Fields DEF Places
  <2>3. /\ x.kind = "prepare" /\ flow[s].kind = "prepare" /\ flow[s].at = "worktree"
        /\ x.at = "register" /\ x.ws = flow[s].ws /\ x.failed = flow[s].failed
    BY <1>1, <1>4, <2>2 DEF FlowStates, Fits, CreateWorktree, At
  <2>4. /\ flow' = [flow EXCEPT ![s] = x] /\ worktree' = [worktree EXCEPT ![s] = "full"]
        /\ UNCHANGED <<previews, tunnel, active, persisted, saving, queue, recovery, agent, leaving, lost, told, count>>
    BY <1>1, <1>4, <2>1, <2>2 DEF CreateWorktree, registry, process
  <2>5. Acted(s, s, x, "register")
    BY <1>1, <1>2, <2>3, <2>4 DEF Acted, ShuttingDown
  <2>6. ASSUME count.faults = 0, ~told[s].early
        PROVE  Tidied(s, x, "register")
    <3>1. Covered(s, Bare) /\ x.ws = Bare /\ active[s] = None /\ ~x.failed
      BY <1>3, <2>3, <2>6 DEF Tidy, Recorded
    <3>2. Covered(s, x.ws)'
      BY <2>4, <3>1, CoveredStays
    <3>3. Tidy(s, x.kind, "register", x.ws, x.failed)'
      BY <1>1, <2>3, <2>4, <3>1, <3>2 DEF Tidy
    <3>4. Fading(s, x.kind, "register", x.ws, x.deaf)'
      BY <2>3, <3>1 DEF Fading, Bare
    <3> QED
      BY <1>1, <1>3, <2>4, <2>6, <3>3, <3>4 DEF Tidied
  <2> QED
    BY <1>0, <2>4, <2>5, <2>6, Acts
<1>5. ASSUME FailWorktree(s)
      PROVE  StopInv'
  <2>1. PICK x \in FlowStates : x = [flow[s] EXCEPT !.at = "end", !.failed = TRUE]
    BY <1>1, Fields DEF Places
  <2>2. /\ x.kind = "prepare" /\ flow[s].kind = "prepare" /\ flow[s].at = "worktree" /\ x.at = "end"
    BY <1>1, <1>5, <2>1 DEF FlowStates, Fits, FailWorktree, At
  <2>3. /\ flow' = [flow EXCEPT ![s] = x]
        /\ UNCHANGED <<worktree, previews, tunnel, active, persisted, saving, queue, recovery, agent, leaving, lost, told>>
        /\ count' = count \/ Fault
    BY <1>1, <1>5, <2>1 DEF FailWorktree, registry, process, resources
  <2>4. CASE Fault
    BY <2>3, <2>4, Faults
  <2>5. CASE count' = count
    <3>1. Acted(s, s, x, "end")
      BY <1>1, <1>2, <2>2, <2>3, <2>5 DEF Acted, ShuttingDown
    <3>2. ASSUME count.faults = 0, ~told[s].early
          PROVE  Tidied(s, x, "end")
      <4>1. Empty(s) /\ active[s] = None
        BY <1>3, <2>2, <3>2 DEF Tidy, Recorded, Empty
      <4>2. Empty(s)' /\ Left(s)' = {}
        BY <2>3, <4>1, CoveredStays, EmptyIsCovered DEF Empty
      <4>3. Tidy(s, x.kind, "end", x.ws, x.failed)'
        BY <2>2, <2>3, <4>1, <4>2 DEF Tidy, Recorded, Empty
      <4>4. Fading(s, x.kind, "end", x.ws, x.deaf)'
        BY <2>2, <4>2 DEF Fading
      <4> QED
        BY <1>3, <3>2, <4>2, <4>3, <4>4 DEF Tidied
    <3> QED
      BY <1>0, <2>5, <3>1, <3>2, Acts
  <2> QED
    BY <2>3, <2>4, <2>5
<1>6. ASSUME RemoveWorktree(s)
      PROVE  StopInv'
  <2>1. PICK at \in {"end", "forget"} : at = IF flow[s].failed THEN "end" ELSE "forget"
    OBVIOUS
  <2>2. PICK x \in FlowStates : x = [flow[s] EXCEPT !.at = at]
    BY <1>1, <2>1, Fields DEF Places
  <2>3. /\ x.kind = flow[s].kind /\ x.kind \in {"rollback", "close"} /\ flow[s].at = "remove"
        /\ x.at = at /\ x.ws = flow[s].ws /\ x.failed = flow[s].failed
    BY <1>1, <1>6, <2>2 DEF FlowStates, Fits, RemoveWorktree, At
  <2>4. /\ flow' = [flow EXCEPT ![s] = x] /\ worktree' = [worktree EXCEPT ![s] = "none"]
        /\ UNCHANGED <<previews, tunnel, active, persisted, saving, queue, recovery, agent, leaving, lost, told, count>>
    BY <1>1, <1>6, <2>1, <2>2 DEF RemoveWorktree, registry, process
  <2>5. Acted(s, s, x, at)
    BY <1>1, <1>2, <2>3, <2>4 DEF Acted, ShuttingDown
  <2>6. ASSUME count.faults = 0, ~told[s].early
        PROVE  Tidied(s, x, at)
    <3>1. Empty(s) /\ ~x.failed /\ at = "forget"
      BY <1>3, <2>1, <2>3, <2>6 DEF Tidy
    <3>2. Empty(s)' /\ Left(s)' = {}
      BY <2>4, <3>1, CoveredStays, EmptyIsCovered DEF Empty
    <3>3. Tidy(s, x.kind, at, x.ws, x.failed)'
      BY <2>3, <3>1, <3>2 DEF Tidy
    <3>4. Fading(s, x.kind, at, x.ws, x.deaf)'
      BY <2>3 DEF Fading
    <3> QED
      BY <1>3, <2>6, <3>2, <3>3, <3>4 DEF Tidied
  <2> QED
    BY <1>0, <2>4, <2>5, <2>6, Acts
<1>7. ASSUME FailRemoveWorktree(s)
      PROVE  StopInv'
  BY <1>7, Faults DEF FailRemoveWorktree
<1> QED
  BY <1>4, <1>5, <1>6, <1>7

\* The registration and the unregistration of a session.
LEMMA RecordsAreTidy ==
  ASSUME SessionInv, StopInv, NEW s \in Sessions, Register(s) \/ Forget(s)
  PROVE  StopInv'
<1>0. s \in Flows /\ flow[s].at \in {"register", "forget"} /\ saving = NoSave
  BY DEF Flows, Register, Forget, At, Save
<1>1. /\ SessionOf(s) = s /\ flow \in [Flows -> FlowStates] /\ flow[s] \in FlowStates
      /\ flow[s].kind # "idle" /\ Fits(flow[s].kind, flow[s].at)
      /\ active \in [Sessions -> Workspace \cup {None}] /\ persisted \in [Sessions -> Workspace \cup {None}]
  BY <1>0, Here DEF SessionInv, Domains, TypeOK
<1>2. count \in [runs : Nat, faults : Nat]
  BY DEF StopInv
<1>3. ASSUME count.faults = 0, ~told[s].early
      PROVE  /\ recovery.stage = "done" /\ s \notin recovery.todo
             /\ s \notin Containers /\ worktree[s] # "full" => Left(s) = {}
             /\ Tidy(s, flow[s].kind, flow[s].at, flow[s].ws, flow[s].failed)
             /\ agent # "up" =>
                  s \in leaving \/ ShuttingDown(s) \/ Fading(s, flow[s].kind, flow[s].at, flow[s].ws, flow[s].deaf)
  BY <1>0, <1>1, <1>3, Finding DEF SessionIsTidy
<1>4. \A x : flow' = [flow EXCEPT ![s].at = x] => flow' = [flow EXCEPT ![s] = [flow[s] EXCEPT !.at = x]]
  BY <1>1
<1>6. ASSUME Register(s)
      PROVE  StopInv'
  <2>1. PICK ok \in {"end", "open", "start"} :
          ok = IF flow[s].ws.tunnel THEN "end" ELSE IF flow[s].ws.preview # 0 THEN "open" ELSE "start"
    OBVIOUS
  <2>2. PICK x \in FlowStates : x = [flow[s] EXCEPT !.at = "saving"]
    BY <1>1, Fields DEF Places
  <2>3. /\ x.kind = "prepare" /\ flow[s].kind = "prepare" /\ flow[s].at = "register"
        /\ x.at = "saving" /\ x.ws = flow[s].ws /\ x.failed = flow[s].failed /\ x.deaf = flow[s].deaf
        /\ x.ws \in Workspace /\ x.ws # None
    BY <1>1, <1>6, <2>2, Names DEF FlowStates, Fits, Register, At
  <2>4. /\ flow' = [flow EXCEPT ![s] = x]
        /\ persisted' = [persisted EXCEPT ![s] = x.ws] /\ active' = [active EXCEPT ![s] = x.ws]
        /\ saving'.session = s /\ saving'.ok = ok /\ saving' # NoSave
        /\ UNCHANGED <<worktree, previews, tunnel, queue, recovery, agent, leaving, lost, told, count>>
    BY <1>1, <1>4, <1>6, <2>1, <2>2, <2>3, Names DEF Register, Goto, Save, NoSave, resources, process
  <2>5. Acted(s, s, x, ok)
    BY <1>0, <1>1, <1>2, <2>4 DEF Acted, ShuttingDown
  <2>6. ASSUME count.faults = 0, ~told[s].early
        PROVE  Tidied(s, x, ok)
    <3>1. Covered(s, x.ws) /\ ~x.failed /\ worktree[s] = "full"
      BY <1>3, <2>3, <2>6 DEF Tidy
    <3>2. Covered(s, x.ws)' /\ Recorded(s)' = x.ws /\ active'[s] # None /\ persisted'[s] # None
      BY <1>1, <2>3, <2>4, <3>1, CoveredStays DEF Recorded
    <3>3. Covered(s, Recorded(s))'
      BY <3>2
    <3>4. Tidy(s, x.kind, ok, x.ws, x.failed)'
      BY <2>1, <2>3, <2>4, <3>1, <3>2, <3>3 DEF Tidy
    <3>5. agent # "up" => s \in leaving \/ ShuttingDown(s) \/ Fading(s, x.kind, ok, x.ws, x.deaf)'
      BY <1>3, <2>1, <2>3, <2>6 DEF Fading
    <3>6. ShuttingDown(s)' = ShuttingDown(s)
      BY <2>4 DEF ShuttingDown
    <3> QED
      BY <1>3, <2>4, <2>6, <3>1, <3>2, <3>4, <3>5, <3>6 DEF Tidied
  <2> QED
    BY <1>0, <2>4, <2>5, <2>6, Acts
<1>7. ASSUME Forget(s)
      PROVE  StopInv'
  <2>1. PICK done \in {"end", "cleaned"} : done = IF flow[s].kind = "rollback" THEN "end" ELSE "cleaned"
    OBVIOUS
  <2>2. PICK at \in {"end", "cleaned", "saving"} : at = IF persisted[s] = None THEN done ELSE "saving"
    BY <2>1
  <2>3. PICK x \in FlowStates : x = [flow[s] EXCEPT !.at = at]
    BY <1>1, Fields DEF Places
  <2>4. /\ flow[s].kind \in {"rollback", "close"} /\ flow[s].at = "forget"
        /\ x.kind = flow[s].kind /\ x.at = at /\ x.ws = flow[s].ws /\ x.failed = flow[s].failed
    BY <1>1, <1>7, <2>3 DEF FlowStates, Fits, Forget, At
  <2>5. /\ flow' = [flow EXCEPT ![s] = x]
        /\ UNCHANGED <<worktree, previews, tunnel, queue, recovery, agent, leaving, lost, told, count>>
    BY <1>4, <1>7, <2>1, <2>2, <2>3 DEF Forget, Goto, resources, process
  <2>6. /\ \A t \in Sessions : t # s => active'[t] = active[t] /\ persisted'[t] = persisted[t]
        /\ \/ UNCHANGED saving /\ at = done
           \/ saving' # NoSave /\ saving'.session = s /\ saving'.ok = done
    BY <1>1, <1>7, <2>1, <2>2, Names DEF Forget, Save, NoSave, registry
  <2>7. Acted(s, s, x, done)
    BY <1>0, <1>1, <1>2, <2>4, <2>5, <2>6 DEF Acted, ShuttingDown
  <2>8. ASSUME count.faults = 0, ~told[s].early
        PROVE  Tidied(s, x, done)
    <3>1. Empty(s) /\ ~x.failed
      BY <1>3, <2>4, <2>8 DEF Tidy
    <3>2. \A ws : Covered(s, ws) => Covered(s, ws)'
      BY <2>5, CoveredStays
    <3>3. Empty(s)' /\ Left(s)' = {} /\ Covered(s, Recorded(s))'
      BY <2>5, <3>1, <3>2, CoveredStays, EmptyIsCovered DEF Empty
    <3>4. Tidy(s, x.kind, done, x.ws, x.failed)'
      BY <2>1, <2>4, <3>1, <3>3 DEF Tidy
    <3>5. Fading(s, x.kind, done, x.ws, x.deaf)'
      BY <2>4 DEF Fading
    <3> QED
      BY <1>3, <2>8, <3>3, <3>4, <3>5 DEF Tidied
  <2> QED
    BY <1>0, <2>5, <2>7, <2>8, Acts
<1> QED
  BY <1>6, <1>7

\* Steps that start a preview, open its tunnel or fail to.
LEMMA PreviewsAreTidy ==
  ASSUME SessionInv, StopInv, NEW f \in Flows, StartPreview(f) \/ OpenTunnel(f) \/ FailPreview(f)
  PROVE  StopInv'
<1>0. flow[f].at \in {"start", "open"}
  BY DEF StartPreview, OpenTunnel, FailPreview, At
<1>1. PICK t \in Sessions : t = SessionOf(f)
  BY <1>0, Here
<1>2. /\ flow \in [Flows -> FlowStates] /\ flow[f] \in FlowStates /\ flow[f].ws \in Workspace
      /\ flow[f].kind \in {"prepare", "rebuild"}
      /\ previews \in [Sessions -> SUBSET (1..MaxStarts)] /\ started \in [Sessions -> Nat] /\ tunnel \in [Sessions -> BOOLEAN]
      /\ MaxStarts \in Nat
  BY <1>0, Here DEF Fits, FlowStates
<1>3. count \in [runs : Nat, faults : Nat]
  BY DEF StopInv
<1>4. ASSUME count.faults = 0, ~told[t].early
      PROVE  /\ t \in recovery.todo => active[t] # None
             /\ t \notin Containers /\ worktree[t] # "full" => Left(t) = {}
             /\ Tidy(t, flow[f].kind, flow[f].at, flow[f].ws, flow[f].failed)
             /\ recovery.stage = "done" /\ agent # "up" =>
                  t \in leaving \/ ShuttingDown(t) \/ Fading(t, flow[f].kind, flow[f].at, flow[f].ws, flow[f].deaf)
             /\ flow[f].at = "start" => flow[f].ws.preview = 0
             /\ worktree[t] = "full"
  <2>1. /\ t \in recovery.todo => active[t] # None
        /\ t \notin Containers /\ worktree[t] # "full" => Left(t) = {}
        /\ Tidy(t, flow[f].kind, flow[f].at, flow[f].ws, flow[f].failed)
        /\ recovery.stage = "done" /\ agent # "up" =>
             t \in leaving \/ ShuttingDown(t) \/ Fading(t, flow[f].kind, flow[f].at, flow[f].ws, flow[f].deaf)
        /\ Sound(flow[f].kind, flow[f].at, flow[f].ws, flow[f].failed, file[t], Left(t), Tree(t))
    BY <1>0, <1>1, <1>2, <1>4, Finding DEF SessionIsTidy
  <2>2. flow[f].at = "start" => flow[f].ws.preview = 0
    BY <2>1 DEF Sound
  <2>3. worktree[t] = "full"
    BY <1>0, <1>2, <2>1 DEF Tidy
  <2> QED
    BY <2>1, <2>2, <2>3
<1>5. ASSUME StartPreview(f)
      PROVE  StopInv'
  <2>1. PICK n : n = started[t] + 1 /\ n \in 1..MaxStarts
    BY <1>1, <1>2, <1>5 DEF StartPreview
  <2>2. PICK ws \in Workspace : ws = [flow[f].ws EXCEPT !.preview = n]
    <3>1. n \in 0..MaxStarts
      BY <1>2, <2>1
    <3>2. [flow[f].ws EXCEPT !.preview = n] \in Workspace
      BY <1>2, <3>1, WorkspaceFields
    <3> QED
      BY <3>2
  <2>3. ws.preview = n /\ ws.tunnel = flow[f].ws.tunnel /\ n # 0
    BY <1>2, <2>1, <2>2, WorkspaceFields
  <2>4. PICK deaf \in BOOLEAN : deaf = IF flow[f].kind = "prepare" THEN Deafen(f) ELSE flow[f].deaf
    BY <1>2 DEF Deafen, FlowStates
  <2>5. PICK at \in {"register", "update"} : at = IF flow[f].kind = "prepare" THEN "register" ELSE "update"
    OBVIOUS
  <2>6. PICK x \in FlowStates : x = [flow[f] EXCEPT !.at = at, !.ws = ws, !.deaf = deaf]
    BY <1>2, Fields DEF Places
  <2>7. x.kind = flow[f].kind /\ x.at = at /\ x.ws = ws /\ x.failed = flow[f].failed /\ x.deaf = deaf
    BY <1>2, <2>6 DEF FlowStates
  <2>8. flow[f].kind # "prepare" => x = [flow[f] EXCEPT !.at = at, !.ws = ws]
    BY <1>2, <2>4, <2>6 DEF FlowStates
  <2>9. flow' = [flow EXCEPT ![f] = x]
    BY <1>1, <1>2, <1>5, <2>1, <2>2, <2>4, <2>5, <2>6, <2>8 DEF StartPreview
  <2>10. /\ previews' = [previews EXCEPT ![t] = IF t \in Containers /\ @ # {} THEN @ ELSE @ \cup {n}]
         /\ UNCHANGED <<worktree, tunnel, active, persisted, saving, queue, recovery, agent, leaving, lost, told, count>>
         /\ flow[f].at = "start" /\ (flow[f].kind = "prepare" => ~flow[f].deaf)
    BY <1>1, <1>5, <2>1 DEF StartPreview, registry, process, At, MayStep
  <2>11. Acted(f, t, x, at)
    BY <1>1, <1>2, <1>3, <2>7, <2>9, <2>10 DEF Acted, ShuttingDown
  <2>12. ASSUME count.faults = 0, ~told[t].early
         PROVE  Tidied(t, x, at)
    <3>1. /\ Covered(t, flow[f].ws) /\ flow[f].ws.preview = 0 /\ persisted[t] # None /\ ~x.failed
          /\ flow[f].kind = "prepare" => active[t] # None
      BY <1>4, <2>7, <2>10, <2>12 DEF Tidy
    <3>2. Covered(t, ws)'
      BY <1>2, <2>1, <2>3, <2>10, <3>1 DEF Covered
    <3>3. Tidy(t, x.kind, at, x.ws, x.failed)'
      BY <1>2, <1>4, <2>3, <2>5, <2>7, <2>10, <2>12, <3>1, <3>2 DEF Tidy
    <3>4. ASSUME recovery.stage = "done", agent # "up"
          PROVE  t \in leaving \/ ShuttingDown(t)' \/ Fading(t, x.kind, at, x.ws, x.deaf)'
      <4>1. ShuttingDown(t)' = ShuttingDown(t)
        BY <2>10 DEF ShuttingDown
      <4>2. CASE Fading(t, flow[f].kind, flow[f].at, flow[f].ws, flow[f].deaf)
        <5>1. flow[f].kind = "prepare" => ~x.ws.tunnel /\ x.deaf
          BY <2>3, <2>4, <2>7, <2>10, <3>4, <4>2 DEF Fading, Deafen
        <5> QED
          BY <1>2, <2>5, <2>7, <5>1 DEF Fading
      <4> QED
        BY <1>4, <2>12, <3>4, <4>1, <4>2
    <3> QED
      BY <1>4, <2>10, <2>12, <3>3, <3>4 DEF Tidied
  <2> QED
    BY <2>10, <2>11, <2>12, Acts
<1>6. ASSUME OpenTunnel(f)
      PROVE  StopInv'
  <2>1. PICK ws \in Workspace : ws = [flow[f].ws EXCEPT !.tunnel = TRUE]
    BY <1>2, WorkspaceFields
  <2>2. ws.preview = flow[f].ws.preview /\ ws.tunnel = TRUE
    BY <1>2, <2>1, WorkspaceFields
  <2>3. PICK at \in {"register", "update"} : at = IF flow[f].kind = "prepare" THEN "register" ELSE "update"
    OBVIOUS
  <2>4. PICK x \in FlowStates : x = [flow[f] EXCEPT !.at = at, !.ws = ws]
    BY <1>2, Fields DEF Places
  <2>5. x.kind = flow[f].kind /\ x.at = at /\ x.ws = ws /\ x.failed = flow[f].failed
    BY <1>2, <2>4 DEF FlowStates
  <2>6. flow' = [flow EXCEPT ![f] = x]
    BY <1>2, <1>6, <2>1, <2>3, <2>4 DEF OpenTunnel, FlowStates
  <2>7. /\ tunnel' = [tunnel EXCEPT ![t] = TRUE]
        /\ UNCHANGED <<worktree, previews, active, persisted, saving, queue, recovery, agent, leaving, lost, told, count>>
        /\ flow[f].at = "open" /\ (flow[f].kind = "prepare" => ~flow[f].deaf)
    BY <1>1, <1>6 DEF OpenTunnel, registry, process, At, MayStep
  <2>8. Acted(f, t, x, at)
    BY <1>1, <1>2, <1>3, <2>5, <2>6, <2>7 DEF Acted, ShuttingDown
  <2>9. ASSUME count.faults = 0, ~told[t].early
        PROVE  Tidied(t, x, at)
    <3>1. /\ Covered(t, flow[f].ws) /\ ws.preview # 0 /\ persisted[t] # None /\ ~x.failed
          /\ flow[f].kind = "prepare" => active[t] # None
      BY <1>4, <2>2, <2>5, <2>7, <2>9 DEF Tidy
    <3>2. Covered(t, ws)'
      BY <2>2, <2>7, <3>1 DEF Covered
    <3>3. Tidy(t, x.kind, at, x.ws, x.failed)'
      BY <1>2, <1>4, <2>3, <2>5, <2>7, <2>9, <3>1, <3>2 DEF Tidy
    <3>4. ASSUME recovery.stage = "done", agent # "up"
          PROVE  t \in leaving \/ ShuttingDown(t)' \/ Fading(t, x.kind, at, x.ws, x.deaf)'
      <4>1. ShuttingDown(t)' = ShuttingDown(t)
        BY <2>7 DEF ShuttingDown
      <4>2. CASE Fading(t, flow[f].kind, flow[f].at, flow[f].ws, flow[f].deaf)
        <5>1. flow[f].kind # "prepare"
          BY <2>2, <2>7, <3>1, <4>2 DEF Fading
        <5> QED
          BY <1>2, <2>5, <5>1 DEF Fading
      <4> QED
        BY <1>4, <2>9, <3>4, <4>1, <4>2
    <3> QED
      BY <1>4, <2>7, <2>9, <3>3, <3>4 DEF Tidied
  <2> QED
    BY <2>7, <2>8, <2>9, Acts
<1>7. ASSUME FailPreview(f)
      PROVE  StopInv'
  <2>1. PICK kind \in {"rollback", "undo"} : kind = Undone(flow[f].kind)
    BY <1>2 DEF Undone
  <2>2. PICK x \in FlowStates : x = [flow[f] EXCEPT !.kind = kind, !.at = "close"]
    BY <1>2, Fields DEF Places, SessionKinds, RecoveryKinds
  <2>3. x.kind = kind /\ x.at = "close" /\ x.ws = flow[f].ws /\ x.failed = flow[f].failed
    BY <1>2, <2>2 DEF FlowStates
  <2>4. flow' = [flow EXCEPT ![f] = x]
    BY <1>2, <1>7, <2>1, <2>2 DEF FailPreview, Undo
  <2>5. /\ UNCHANGED <<worktree, previews, tunnel, active, persisted, saving, queue, recovery, agent, leaving, lost, told>>
        /\ count' = count \/ Fault
    BY <1>7 DEF FailPreview, registry, process, resources
  <2>6. CASE Fault
    BY <2>5, <2>6, Faults
  <2>7. CASE count' = count
    <3>1. Acted(f, t, x, "close")
      BY <1>0, <1>1, <1>2, <1>3, <2>3, <2>4, <2>5, <2>7 DEF Acted, ShuttingDown
    <3>2. ASSUME count.faults = 0, ~told[t].early
          PROVE  Tidied(t, x, "close")
      <4>1. Covered(t, x.ws) /\ persisted[t] # None /\ ~x.failed
        BY <1>0, <1>4, <2>3, <3>2 DEF Tidy
      <4>2. Covered(t, x.ws)'
        BY <2>5, <4>1, CoveredStays
      <4>3. Tidy(t, x.kind, "close", x.ws, x.failed)'
        BY <2>3, <2>5, <4>1, <4>2 DEF Tidy
      <4>4. Fading(t, x.kind, "close", x.ws, x.deaf)'
        BY <2>3 DEF Fading
      <4> QED
        BY <1>4, <2>5, <3>2, <4>3, <4>4 DEF Tidied
    <3> QED
      BY <2>7, <3>1, <3>2, Acts
  <2> QED
    BY <2>5, <2>6, <2>7
<1> QED
  BY <1>5, <1>6, <1>7

\* What an update of the record does, of a session that has one.
LEMMA UpdateActs ==
  ASSUME SessionInv, StopInv, NEW f \in Flows, NEW t \in Sessions, t = SessionOf(f),
         flow[f].kind # "idle", flow[f].at # "saving",
         NEW ws \in Workspace, NEW ok \in Places, NEW failure \in Places, Update(f, ws, ok, failure),
         \A s \in Sessions : s # t => previews'[s] = previews[s] /\ tunnel'[s] = tunnel[s],
         UNCHANGED <<worktree, queue, recovery, agent, leaving, lost, told, count>>
  PROVE  \E x \in FlowStates, place \in Places :
           /\ Acted(f, t, x, place)
           /\ persisted[t] # None =>
                /\ x.kind = flow[f].kind /\ x.ws = ws /\ x.failed = flow[f].failed /\ place = ok
                /\ persisted'[t] # None
                /\ active'[t] = IF active[t] = None THEN None ELSE ws
<1>1. /\ flow \in [Flows -> FlowStates] /\ flow[f] \in FlowStates
      /\ active \in [Sessions -> Workspace \cup {None}] /\ persisted \in [Sessions -> Workspace \cup {None}]
      /\ flow[f].kind \in SessionKinds \cup RecoveryKinds
  BY DEF SessionInv, Domains, TypeOK, FlowStates
<1>2. count \in [runs : Nat, faults : Nat] /\ ws # None
  BY Names DEF StopInv
<1>3. CASE persisted[t] # None
  <2>1. PICK x \in FlowStates : x = [flow[f] EXCEPT !.at = "saving", !.ws = ws]
    BY <1>1, Fields DEF Places
  <2>2. x.kind = flow[f].kind /\ x.ws = ws /\ x.failed = flow[f].failed
    BY <1>1, <2>1 DEF FlowStates
  <2>3. flow' = [flow EXCEPT ![f] = x] /\ Save(f, "update", ws, ok, failure)
    BY <1>1, <1>3, <2>1 DEF Update
  <2>4. /\ saving = NoSave /\ saving'.session = t /\ saving'.ok = ok /\ saving' # NoSave
        /\ persisted' = [persisted EXCEPT ![t] = ws]
        /\ active' = [active EXCEPT ![t] = IF active[t] = None THEN None ELSE ws]
    BY <1>1, <2>3, Names DEF Save, NoSave
  <2>5. Acted(f, t, x, ok)
    BY <1>1, <1>2, <2>3, <2>4 DEF Acted, ShuttingDown
  <2> QED
    BY <1>1, <1>2, <1>3, <2>2, <2>4, <2>5
<1>4. CASE persisted[t] = None
  <2>1. PICK kind \in SessionKinds \cup RecoveryKinds :
          kind = IF failure = "close" THEN Undone(flow[f].kind) ELSE flow[f].kind
    BY <1>1 DEF Undone, SessionKinds, RecoveryKinds
  <2>2. PICK failed \in BOOLEAN : failed = (failure # "close")
    OBVIOUS
  <2>3. PICK x \in FlowStates : x = [flow[f] EXCEPT !.at = failure, !.ws = ws, !.kind = kind, !.failed = failed]
    BY <1>1, Fields
  <2>4. x.at = failure
    BY <1>1, <2>3 DEF FlowStates
  <2>5. flow' = [flow EXCEPT ![f] = x] /\ UNCHANGED <<active, persisted, saving>>
    BY <1>1, <1>4, <2>1, <2>2, <2>3 DEF Update, registry
  <2>6. Acted(f, t, x, failure)
    BY <1>1, <1>2, <2>4, <2>5 DEF Acted, ShuttingDown
  <2> QED
    BY <1>4, <2>6
<1> QED
  BY <1>3, <1>4

\* Steps that record a rebuilt preview, close its tunnel or stop it.
LEMMA UpdatesAreTidy ==
  ASSUME SessionInv, StopInv, NEW f \in Flows,
         \/ UpdateRebuilt(f)
         \/ CloseTunnel(f) \/ CloseTunnelInVain(f) \/ FailCloseTunnel(f)
         \/ StopPreview(f) \/ FailStopPreview(f)
  PROVE  StopInv'
<1>0. flow[f].at \in {"update", "close", "stop"}
  BY DEF UpdateRebuilt, CloseTunnel, CloseTunnelInVain, FailCloseTunnel, StopPreview, FailStopPreview, At
<1>1. PICK t \in Sessions : t = SessionOf(f)
  BY <1>0, Here
<1>2. /\ flow \in [Flows -> FlowStates] /\ flow[f] \in FlowStates /\ flow[f].ws \in Workspace
      /\ Fits(flow[f].kind, flow[f].at) /\ flow[f].kind # "idle"
      /\ previews \in [Sessions -> SUBSET (1..MaxStarts)] /\ tunnel \in [Sessions -> BOOLEAN]
  BY <1>0, Here DEF FlowStates
<1>3. count \in [runs : Nat, faults : Nat]
  BY DEF StopInv
<1>4. ASSUME count.faults = 0, ~told[t].early
      PROVE  /\ t \in recovery.todo => active[t] # None
             /\ t \notin Containers /\ worktree[t] # "full" => Left(t) = {}
             /\ Tidy(t, flow[f].kind, flow[f].at, flow[f].ws, flow[f].failed)
             /\ Covered(t, flow[f].ws) /\ persisted[t] # None /\ ~flow[f].failed
             /\ flow[f].kind \in {"rebuild", "undo"} => active[t] # None
             /\ flow[f].kind = "rebuild" => worktree[t] = "full"
  <2>1. /\ t \in recovery.todo => active[t] # None
        /\ t \notin Containers /\ worktree[t] # "full" => Left(t) = {}
        /\ Tidy(t, flow[f].kind, flow[f].at, flow[f].ws, flow[f].failed)
        /\ f = Operator(t)
    BY <1>0, <1>1, <1>2, <1>4, Finding DEF SessionIsTidy
  <2>2. flow[f].kind \in {"rebuild", "undo"} => recovery.current = t /\ t \in recovery.todo
    <3> SUFFICES ASSUME flow[f].kind \in {"rebuild", "undo"}
                 PROVE  recovery.current = t /\ t \in recovery.todo
      OBVIOUS
    <3>1. f = Recovery
      BY DEF SessionInv, Domains, SessionKinds
    <3>2. recovery.current = t /\ t # None
      BY <1>1, <3>1, Names, NamesAssumption DEF SessionOf
    <3> QED
      BY <3>2 DEF SessionInv, Domains
  <2> QED
    BY <1>0, <2>1, <2>2 DEF Tidy
<1>5. ASSUME UpdateRebuilt(f)
      PROVE  StopInv'
  <2>1. PICK ok \in {"rebuilt", "open"} : ok = IF flow[f].ws.tunnel THEN "rebuilt" ELSE "open"
    OBVIOUS
  <2>2. /\ Update(f, flow[f].ws, ok, "close") /\ flow[f].at = "update" /\ flow[f].kind = "rebuild"
        /\ UNCHANGED <<worktree, previews, tunnel, queue, recovery, agent, leaving, lost, told, count>>
    BY <1>2, <1>5, <2>1 DEF UpdateRebuilt, resources, process, At, Fits
  <2>3. PICK x \in FlowStates, place \in Places :
           /\ Acted(f, t, x, place)
           /\ persisted[t] # None =>
                /\ x.kind = flow[f].kind /\ x.ws = flow[f].ws /\ x.failed = flow[f].failed /\ place = ok
                /\ persisted'[t] # None
                /\ active'[t] = IF active[t] = None THEN None ELSE flow[f].ws
    <3>1. ok \in Places /\ "close" \in Places /\ flow[f].at # "saving"
      BY <2>1, <2>2 DEF Places
    <3> QED
      BY <1>1, <1>2, <2>2, <3>1, UpdateActs
  <2>4. ASSUME count.faults = 0, ~told[t].early
        PROVE  Tidied(t, x, place)
    <3>1. /\ x.kind = "rebuild" /\ x.ws = flow[f].ws /\ ~x.failed /\ place = ok
          /\ persisted'[t] # None /\ active'[t] = x.ws /\ x.ws # None
      BY <1>2, <1>4, <2>2, <2>3, <2>4, Names
    <3>2. Covered(t, x.ws)' /\ Recorded(t)' = x.ws
      BY <1>4, <2>2, <2>4, <3>1, CoveredStays DEF Recorded
    <3>3. Covered(t, Recorded(t))'
      BY <3>2
    <3>4. x.ws.preview # 0 /\ worktree'[t] = "full"
      BY <1>4, <2>2, <2>4, <3>1 DEF Tidy
    <3>5. Tidy(t, x.kind, place, x.ws, x.failed)'
      BY <2>1, <3>1, <3>2, <3>3, <3>4 DEF Tidy
    <3>6. Fading(t, x.kind, place, x.ws, x.deaf)'
      BY <3>1 DEF Fading
    <3> QED
      BY <3>1, <3>4, <3>5, <3>6 DEF Tidied
  <2> QED
    BY <2>2, <2>3, <2>4, Acts
<1>6. ASSUME CloseTunnel(f)
      PROVE  StopInv'
  <2>1. /\ flow[f].at = "close" /\ flow[f].kind \in {"close", "rollback", "shutdown", "rebuild", "undo"}
        /\ UNCHANGED <<worktree, previews, queue, recovery, agent, leaving, lost, told, count>>
    BY <1>2, <1>6 DEF CloseTunnel, process, At, Fits
  <2>2. ASSUME NEW x \in FlowStates, NEW place, place = "stop", count.faults = 0, ~told[t].early,
               x.kind = flow[f].kind, ~x.ws.tunnel, x.ws.preview = flow[f].ws.preview, x.failed = flow[f].failed,
               persisted'[t] # None, active[t] # None => active'[t] # None, ~tunnel'[t]
        PROVE  Tidied(t, x, place)
    <3>1. Covered(t, x.ws)'
      BY <1>4, <2>1, <2>2 DEF Covered
    <3>2. Tidy(t, x.kind, place, x.ws, x.failed)'
      BY <1>4, <2>1, <2>2, <3>1 DEF Tidy
    <3>3. Fading(t, x.kind, place, x.ws, x.deaf)'
      BY <2>1, <2>2 DEF Fading
    <3>4. Left(t)' = Left(t)
      BY <2>1 DEF Left
    <3> QED
      BY <1>4, <2>1, <2>2, <3>2, <3>3, <3>4 DEF Tidied
  <2>3. CASE flow[f].ws.tunnel
    <3>1. PICK ws \in Workspace : ws = [flow[f].ws EXCEPT !.tunnel = FALSE]
      BY <1>2, WorkspaceFields
    <3>2. ~ws.tunnel /\ ws.preview = flow[f].ws.preview /\ ws # None
      BY <1>2, <3>1, WorkspaceFields, Names
    <3>3. Update(f, ws, "stop", "stop") /\ tunnel' = [tunnel EXCEPT ![t] = FALSE]
      BY <1>1, <1>6, <2>3, <3>1 DEF CloseTunnel
    <3>4. PICK x \in FlowStates, place \in Places :
            /\ Acted(f, t, x, place)
            /\ persisted[t] # None =>
                 /\ x.kind = flow[f].kind /\ x.ws = ws /\ x.failed = flow[f].failed /\ place = "stop"
                 /\ persisted'[t] # None
                 /\ active'[t] = IF active[t] = None THEN None ELSE ws
      <4>0. PICK next \in Places : next = "stop"
        BY DEF Places
      <4>1. /\ flow[f].at # "saving"
            /\ \A s \in Sessions : s # t => previews'[s] = previews[s] /\ tunnel'[s] = tunnel[s]
        BY <1>2, <2>1, <3>3
      <4>2. Update(f, ws, next, next)
        BY <3>3, <4>0
      <4>3. \E x \in FlowStates, place \in Places :
              /\ Acted(f, t, x, place)
              /\ persisted[t] # None =>
                   /\ x.kind = flow[f].kind /\ x.ws = ws /\ x.failed = flow[f].failed /\ place = next
                   /\ persisted'[t] # None
                   /\ active'[t] = IF active[t] = None THEN None ELSE ws
        BY <1>1, <1>2, <2>1, <4>1, <4>2, UpdateActs
      <4> QED
        BY <4>0, <4>3
    <3>5. ASSUME count.faults = 0, ~told[t].early
          PROVE  Tidied(t, x, place)
      BY <1>2, <1>4, <2>2, <3>2, <3>3, <3>4, <3>5
    <3> QED
      BY <2>1, <3>4, <3>5, Acts
  <2>4. CASE ~flow[f].ws.tunnel
    <3>1. PICK x \in FlowStates : x = [flow[f] EXCEPT !.at = "stop"]
      BY <1>2, Fields DEF Places
    <3>2. x.kind = flow[f].kind /\ x.at = "stop" /\ x.ws = flow[f].ws /\ x.failed = flow[f].failed
      BY <1>2, <3>1 DEF FlowStates
    <3>3. flow' = [flow EXCEPT ![f] = x] /\ UNCHANGED <<tunnel, active, persisted, saving>>
      BY <1>2, <1>6, <2>4, <3>1 DEF CloseTunnel, Goto, registry
    <3>4. Acted(f, t, x, "stop")
      BY <1>1, <1>2, <1>3, <2>1, <3>2, <3>3 DEF Acted, ShuttingDown
    <3>5. ASSUME count.faults = 0, ~told[t].early
          PROVE  Tidied(t, x, "stop")
      <4>1. ~tunnel[t]
        BY <1>4, <2>4, <3>5 DEF Covered
      <4> QED
        BY <1>4, <2>2, <2>4, <3>2, <3>3, <3>5, <4>1
    <3> QED
      BY <2>1, <3>4, <3>5, Acts
  <2> QED
    BY <2>3, <2>4
<1>7. ASSUME CloseTunnelInVain(f) \/ FailCloseTunnel(f) \/ FailStopPreview(f)
      PROVE  StopInv'
  BY <1>7, Faults DEF CloseTunnelInVain, FailCloseTunnel, FailStopPreview, process
<1>8. ASSUME StopPreview(f)
      PROVE  StopInv'
  <2>1. /\ flow[f].at = "stop" /\ flow[f].kind \in {"close", "rollback", "shutdown", "rebuild", "undo"}
        /\ UNCHANGED <<worktree, tunnel, queue, recovery, agent, leaving, lost, told, count>>
    BY <1>2, <1>8 DEF StopPreview, process, At, Fits
  <2>2. PICK next \in {"remove", "end", "removed", "suspend"} :
          /\ next = AfterStop(f)
          /\ next = "end" => flow[f].kind = "shutdown"
    BY <2>1 DEF AfterStop, CleansUp
  <2>3. ASSUME NEW x \in FlowStates, count.faults = 0, ~told[t].early,
               x.kind = flow[f].kind, x.failed = flow[f].failed, active[t] # None => active'[t] # None,
               \/ previews' = [previews EXCEPT ![t] = Stopped(t, flow[f].ws.preview)]
               \/ UNCHANGED previews /\ flow[f].ws.preview = 0
        PROVE  Tidied(t, x, next)
    <3>1. ~tunnel[t] /\ Covered(t, flow[f].ws) /\ ~x.failed
      BY <1>4, <2>1, <2>3 DEF Tidy, Covered
    <3>2. Empty(t)'
      <4>1. CASE UNCHANGED previews /\ flow[f].ws.preview = 0
        BY <2>1, <3>1, <4>1 DEF Empty, Covered, Bare
      <4>2. CASE previews' = [previews EXCEPT ![t] = Stopped(t, flow[f].ws.preview)]
        <5>1. previews'[t] = IF t \in Containers THEN {} ELSE previews[t] \ {flow[f].ws.preview}
          BY <1>2, <4>2 DEF Stopped
        <5> QED
          BY <2>1, <3>1, <5>1 DEF Empty, Covered, Bare
      <4> QED
        BY <2>3, <4>1, <4>2
    <3>3. Left(t)' = {} /\ Covered(t, Recorded(t))'
      <4>1. previews'[t] \in SUBSET (1..MaxStarts)
        BY <1>2, <2>3 DEF Stopped
      <4>2. MaxStarts \in Nat
        BY BoundsAssumption DEF MaxStarts
      <4>3. ~tunnel'[t] /\ (t \in Containers => previews'[t] = {}) /\ (t \notin Containers => previews'[t] \ lost'[t] = {})
        BY <3>2, <4>1, <4>2 DEF Empty, Covered, Bare
      <4> QED
        BY <4>3 DEF Left, Covered
    <3>4. Tidy(t, x.kind, next, x.ws, x.failed)'
      BY <1>4, <2>1, <2>2, <2>3, <3>1, <3>2, <3>3 DEF Tidy
    <3>5. Fading(t, x.kind, next, x.ws, x.deaf)'
      BY <2>1, <2>3 DEF Fading
    <3> QED
      BY <1>4, <2>3, <3>3, <3>4, <3>5 DEF Tidied
  <2>4. CASE flow[f].ws.preview # 0
    <3>1. PICK ws \in Workspace : ws = [flow[f].ws EXCEPT !.preview = 0]
      <4>1. 0 \in 0..MaxStarts
        BY BoundsAssumption DEF MaxStarts
      <4>2. [flow[f].ws EXCEPT !.preview = 0] \in Workspace
        BY <1>2, <4>1, WorkspaceFields
      <4> QED
        BY <4>2
    <3>2. ws # None
      BY Names
    <3>3. Update(f, ws, next, next) /\ previews' = [previews EXCEPT ![t] = Stopped(t, flow[f].ws.preview)]
      BY <1>1, <1>8, <2>2, <2>4, <3>1 DEF StopPreview
    <3>4. PICK x \in FlowStates, place \in Places :
            /\ Acted(f, t, x, place)
            /\ persisted[t] # None =>
                 /\ x.kind = flow[f].kind /\ x.ws = ws /\ x.failed = flow[f].failed /\ place = next
                 /\ persisted'[t] # None
                 /\ active'[t] = IF active[t] = None THEN None ELSE ws
      <4>1. /\ next \in Places /\ flow[f].at # "saving"
            /\ \A s \in Sessions : s # t => previews'[s] = previews[s] /\ tunnel'[s] = tunnel[s]
        BY <1>2, <2>1, <2>2, <3>3 DEF Places
      <4> QED
        BY <1>1, <1>2, <2>1, <3>3, <4>1, UpdateActs
    <3>5. ASSUME count.faults = 0, ~told[t].early
          PROVE  Tidied(t, x, place)
      BY <1>4, <2>3, <3>2, <3>3, <3>4, <3>5
    <3> QED
      BY <2>1, <3>4, <3>5, Acts
  <2>5. CASE flow[f].ws.preview = 0
    <3>1. PICK x \in FlowStates : x = [flow[f] EXCEPT !.at = next]
      BY <1>2, <2>2, Fields DEF Places
    <3>2. x.kind = flow[f].kind /\ x.at = next /\ x.ws = flow[f].ws /\ x.failed = flow[f].failed
      BY <1>2, <3>1 DEF FlowStates
    <3>3. flow' = [flow EXCEPT ![f] = x] /\ UNCHANGED <<previews, active, persisted, saving>>
      BY <1>2, <1>8, <2>2, <2>5, <3>1 DEF StopPreview, Goto, registry
    <3>4. Acted(f, t, x, next)
      BY <1>1, <1>2, <1>3, <2>1, <3>2, <3>3 DEF Acted, ShuttingDown
    <3>5. ASSUME count.faults = 0, ~told[t].early
          PROVE  Tidied(t, x, next)
      BY <2>3, <2>5, <3>2, <3>3, <3>5
    <3> QED
      BY <2>1, <3>4, <3>5, Acts
  <2> QED
    BY <2>4, <2>5
<1> QED
  BY <1>5, <1>6, <1>7, <1>8

\* An operation begins with what it finds in the registry.
LEMMA BeginsAreTidy ==
  ASSUME SessionInv, StopInv, NEW s \in Sessions, BeginPrepare(s) \/ BeginClose(s) \/ BeginShutdown(s)
  PROVE  StopInv'
<1> USE Names
<1>0. s \in Flows /\ queue[s] # <<>> /\ flow[s].at = "idle"
  BY DEF Flows, BeginPrepare, BeginClose, BeginShutdown, At
<1>1. /\ SessionOf(s) = s /\ flow \in [Flows -> FlowStates] /\ flow[s].kind = "idle"
      /\ active \in [Sessions -> Workspace \cup {None}] /\ persisted \in [Sessions -> Workspace \cup {None}]
      /\ active[s] # None => active[s] = persisted[s]
      /\ Bare.preview = 0 /\ ~Bare.tunnel
  <2>1. Fits(flow[s].kind, flow[s].at)
    BY <1>0 DEF SessionInv, Domains
  <2>2. flow[s].kind = "idle"
    BY <1>0, <2>1 DEF Fits
  <2>3. SessionOf(s) = s
    BY DEF SessionOf
  <2> QED
    BY <2>2, <2>3 DEF SessionInv, Domains, TypeOK, RecordsAgree, Bare
<1>2. count \in [runs : Nat, faults : Nat]
  BY DEF StopInv
<1>3. /\ UNCHANGED <<worktree, previews, tunnel, active, persisted, saving, queue, recovery, agent, leaving, lost, told, count>>
      /\ \A ws : Covered(s, ws) => Covered(s, ws)'
  <2>1. UNCHANGED <<worktree, previews, tunnel, active, persisted, saving, queue, recovery, agent, leaving, lost, told, count>>
    BY DEF BeginPrepare, BeginClose, BeginShutdown, resources, registry, process
  <2> QED
    BY <2>1, CoveredStays
<1>4. ASSUME count.faults = 0, ~told[s].early
      PROVE  /\ s \notin recovery.todo
             /\ s \notin Containers /\ worktree[s] # "full" => Left(s) = {}
             /\ Covered(s, Recorded(s))
             /\ agent # "up" => s \in leaving \/ ShuttingDown(s) \/ Empty(s)
             /\ active[s] = None => Empty(s)
  <2>1. /\ s \notin recovery.todo /\ recovery.stage = "done"
        /\ s \notin Containers /\ worktree[s] # "full" => Left(s) = {}
        /\ Tidy(s, flow[s].kind, flow[s].at, flow[s].ws, flow[s].failed)
        /\ agent # "up" =>
             s \in leaving \/ ShuttingDown(s) \/ Fading(s, flow[s].kind, flow[s].at, flow[s].ws, flow[s].deaf)
    BY <1>0, <1>1, <1>4, Finding DEF SessionIsTidy
  <2>2. Covered(s, Recorded(s))
    BY <1>0, <2>1 DEF Tidy
  <2>3. agent # "up" => s \in leaving \/ ShuttingDown(s) \/ Empty(s)
    BY <1>1, <2>1 DEF Fading
  <2> QED
    BY <2>1, <2>2, <2>3 DEF Recorded, Empty
<1>5. ASSUME NEW x \in FlowStates, flow' = [flow EXCEPT ![s] = x],
             count.faults = 0 /\ ~told[s].early =>
               /\ Tidy(s, x.kind, x.at, x.ws, x.failed)'
               /\ agent # "up" => s \in leaving \/ ShuttingDown(s) \/ Fading(s, x.kind, x.at, x.ws, x.deaf)'
      PROVE  StopInv'
  <2>1. Acted(s, s, x, x.at)
    BY <1>0, <1>1, <1>2, <1>3, <1>5 DEF Acted, ShuttingDown
  <2>2. ShuttingDown(s)' = ShuttingDown(s) /\ Left(s)' = Left(s)
    BY <1>3 DEF ShuttingDown, Left
  <2>3. count.faults = 0 /\ ~told[s].early => Tidied(s, x, x.at)
    BY <1>3, <1>4, <1>5, <2>2 DEF Tidied
  <2> QED
    BY <1>0, <1>3, <2>1, <2>3, Acts
<1>6. ASSUME BeginPrepare(s)
      PROVE  StopInv'
  <2>1. PICK at \in {"end", "worktree"} :
          at = IF \/ active[s] # None /\ active[s].preview # 0 /\ active[s].tunnel
                  \/ persisted[s] # None
               THEN "end" ELSE "worktree"
    OBVIOUS
  <2>2. PICK deaf \in BOOLEAN : deaf = (agent # "up")
    OBVIOUS
  <2>3. PICK x \in FlowStates : x = [Idle EXCEPT !.kind = "prepare", !.deaf = deaf, !.at = at]
    BY <2>1, <2>2, Beginnings DEF Places, SessionKinds
  <2>4. x.kind = "prepare" /\ x.at = at /\ x.ws = Bare /\ ~x.failed
    BY <2>3 DEF Idle
  <2>5. flow' = [flow EXCEPT ![s] = x]
    BY <1>6, <2>1, <2>2, <2>3 DEF BeginPrepare
  <2>6. at = "worktree" => active[s] = None
    BY <1>1, <2>1
  <2>7. ASSUME count.faults = 0, ~told[s].early
        PROVE  /\ Tidy(s, x.kind, x.at, x.ws, x.failed)'
               /\ agent # "up" => s \in leaving \/ ShuttingDown(s) \/ Fading(s, x.kind, x.at, x.ws, x.deaf)'
    <3>1. Recorded(s)' = Recorded(s)
      BY <1>3 DEF Recorded
    <3>2. Covered(s, Recorded(s))' /\ (Empty(s) => Empty(s)')
      BY <1>3, <1>4, <2>7, <3>1 DEF Empty
    <3>3. Tidy(s, x.kind, x.at, x.ws, x.failed)'
      BY <1>3, <2>4, <2>6, <3>2 DEF Tidy
    <3>4. agent # "up" => s \in leaving \/ ShuttingDown(s) \/ Fading(s, x.kind, x.at, x.ws, x.deaf)'
      BY <1>1, <1>4, <2>4, <2>7, <3>2 DEF Fading
    <3> QED
      BY <3>3, <3>4
  <2> QED
    BY <1>5, <2>5, <2>7
<1>7. ASSUME BeginClose(s)
      PROVE  StopInv'
  <2>1. PICK at \in {"cleaned", "close"}, ws \in Workspace :
          /\ at = IF persisted[s] = None THEN "cleaned" ELSE "close"
          /\ ws = IF persisted[s] = None THEN Bare ELSE persisted[s]
    BY <1>1
  <2>2. PICK x \in FlowStates : x = [Idle EXCEPT !.kind = "close", !.at = at, !.ws = ws]
    BY <2>1, Beginnings DEF Places, SessionKinds
  <2>3. x.kind = "close" /\ x.at = at /\ x.ws = ws /\ ~x.failed
    BY <2>2 DEF Idle
  <2>4. flow' = [flow EXCEPT ![s] = x]
    BY <1>7, <2>1, <2>2 DEF BeginClose
  <2>5. ASSUME count.faults = 0, ~told[s].early
        PROVE  /\ Tidy(s, x.kind, x.at, x.ws, x.failed)'
               /\ agent # "up" => s \in leaving \/ ShuttingDown(s) \/ Fading(s, x.kind, x.at, x.ws, x.deaf)'
    <3>1. Fading(s, x.kind, x.at, x.ws, x.deaf)'
      BY <2>3 DEF Fading
    <3>2. at = "cleaned" => Empty(s)'
      BY <1>1, <1>3, <1>4, <2>1, <2>5 DEF Empty
    <3>3. at = "close" => Covered(s, ws)
      BY <1>1, <1>4, <2>1, <2>5, EmptyIsCovered DEF Recorded
    <3>4. at = "close" => Covered(s, ws)' /\ persisted'[s] # None
      BY <1>3, <2>1, <3>3
    <3>5. Tidy(s, x.kind, x.at, x.ws, x.failed)'
      BY <2>1, <2>3, <3>2, <3>4 DEF Tidy
    <3> QED
      BY <3>1, <3>5
  <2> QED
    BY <1>5, <2>4, <2>5
<1>8. ASSUME BeginShutdown(s)
      PROVE  StopInv'
  <2>1. PICK at \in {"end", "close"}, ws \in Workspace :
          /\ at = IF active[s] = None THEN "end" ELSE "close"
          /\ ws = IF active[s] = None THEN Bare ELSE active[s]
    BY <1>1
  <2>2. PICK x \in FlowStates : x = [Idle EXCEPT !.kind = "shutdown", !.at = at, !.ws = ws]
    BY <2>1, Beginnings DEF Places, SessionKinds
  <2>3. x.kind = "shutdown" /\ x.at = at /\ x.ws = ws /\ ~x.failed
    BY <2>2 DEF Idle
  <2>4. flow' = [flow EXCEPT ![s] = x]
    BY <1>8, <2>1, <2>2 DEF BeginShutdown
  <2>5. ASSUME count.faults = 0, ~told[s].early
        PROVE  /\ Tidy(s, x.kind, x.at, x.ws, x.failed)'
               /\ agent # "up" => s \in leaving \/ ShuttingDown(s) \/ Fading(s, x.kind, x.at, x.ws, x.deaf)'
    <3>1. Fading(s, x.kind, x.at, x.ws, x.deaf)'
      BY <2>3 DEF Fading
    <3>2. Recorded(s)' = Recorded(s)
      BY <1>3 DEF Recorded
    <3>3. Covered(s, Recorded(s))'
      BY <1>3, <1>4, <2>5, <3>2
    <3>4. at = "end" => Empty(s)'
      BY <1>3, <1>4, <2>1, <2>5 DEF Empty
    <3>5. at = "close" => Covered(s, ws)' /\ persisted'[s] # None
      BY <1>1, <1>3, <1>4, <2>1, <2>5 DEF Recorded
    <3>6. Tidy(s, x.kind, x.at, x.ws, x.failed)'
      BY <2>1, <2>3, <3>3, <3>4, <3>5 DEF Tidy
    <3> QED
      BY <3>1, <3>6
  <2> QED
    BY <1>5, <2>4, <2>5
<1> QED
  BY <1>6, <1>7, <1>8

\* The lock of a session is given back.
LEMMA ReleasesAreTidy == ASSUME SessionInv, StopInv, NEW s \in Sessions, Release(s) PROVE StopInv'
<1> USE Names
<1>0. s \in Flows /\ flow[s].at \in {"end", "cleaned"}
  BY DEF Flows, Release
<1>1. /\ SessionOf(s) = s /\ flow \in [Flows -> FlowStates]
      /\ flow[s].kind \in {"prepare", "rollback", "close", "shutdown"}
      /\ queue \in [Sessions -> Seq({"prepare", "close", "shutdown"})]
      /\ told \in [Sessions -> [prepare : BOOLEAN, closes : Nat, cleaned : BOOLEAN, early : BOOLEAN]]
  <2>1. Fits(flow[s].kind, flow[s].at)
    BY <1>0 DEF SessionInv, Domains
  <2>2. flow[s].kind \in {"prepare", "rollback", "close", "shutdown"}
    BY <1>0, <2>1 DEF Fits
  <2>3. SessionOf(s) = s
    BY DEF SessionOf
  <2> QED
    BY <2>2, <2>3 DEF SessionInv, Domains, TypeOK
<1>2. queue[s] # <<>> /\ (Head(queue[s]) = "prepare" <=> flow[s].kind \in {"prepare", "rollback"})
  BY <1>1 DEF SessionInv, QueuesFit
<1>3. /\ UNCHANGED <<worktree, previews, tunnel, active, persisted, saving, recovery, agent, leaving, lost, count>>
      /\ flow' = [flow EXCEPT ![s] = Idle] /\ queue' = [queue EXCEPT ![s] = Tail(@)]
      /\ \A t \in Sessions : told'[t].early = told[t].early
  BY <1>1 DEF Release, resources, registry, process
<1>4. /\ ShuttingDown(s)' => ShuttingDown(s)
      /\ ShuttingDown(s) /\ Head(queue[s]) # "shutdown" => ShuttingDown(s)'
  <2>1. PICK q \in Seq({"prepare", "close", "shutdown"}) : q = queue[s]
    BY <1>1
  <2>2. /\ Len(q) \in Nat \ {0} /\ DOMAIN q = 1..Len(q) /\ DOMAIN Tail(q) = 1..(Len(q) - 1) /\ Head(q) = q[1]
        /\ \A i \in 1..(Len(q) - 1) : Tail(q)[i] = q[i + 1]
    BY <1>2, <2>1
  <2>3. queue'[s] = Tail(q)
    BY <1>1, <1>3, <2>1
  <2>4. ASSUME NEW i \in DOMAIN Tail(q), Tail(q)[i] = "shutdown"
        PROVE  ShuttingDown(s)
    <3>1. i + 1 \in DOMAIN q /\ q[i + 1] = "shutdown"
      BY <2>2, <2>4
    <3> QED
      BY <2>1, <3>1 DEF ShuttingDown
  <2>5. ASSUME NEW i \in DOMAIN q, q[i] = "shutdown", Head(q) # "shutdown"
        PROVE  ShuttingDown(s)'
    <3>1. i - 1 \in DOMAIN Tail(q) /\ Tail(q)[i - 1] = "shutdown"
      <4>1. i \in 1..Len(q) /\ i # 1
        BY <2>2, <2>5
      <4>2. i - 1 \in 1..(Len(q) - 1) /\ (i - 1) + 1 = i
        BY <2>2, <4>1
      <4> QED
        BY <2>2, <2>5, <4>2
    <3> QED
      BY <2>3, <3>1 DEF ShuttingDown
  <2> QED
    BY <2>1, <2>3, <2>4, <2>5 DEF ShuttingDown
<1>5. count \in [runs : Nat, faults : Nat] /\ Idle \in FlowStates /\ Idle.kind = "idle" /\ Idle.at = "idle"
  BY Beginnings DEF StopInv, Idle
<1>6. Acted(s, s, Idle, "idle")
  BY <1>0, <1>1, <1>3, <1>4, <1>5 DEF Acted
<1>7. ASSUME count.faults = 0, ~told[s].early
      PROVE  Tidied(s, Idle, "idle")
  <2>1. /\ s \notin recovery.todo /\ recovery.stage = "done"
        /\ s \notin Containers /\ worktree[s] # "full" => Left(s) = {}
        /\ Tidy(s, flow[s].kind, flow[s].at, flow[s].ws, flow[s].failed)
        /\ agent # "up" =>
             s \in leaving \/ ShuttingDown(s) \/ Fading(s, flow[s].kind, flow[s].at, flow[s].ws, flow[s].deaf)
    BY <1>0, <1>1, <1>7, Finding DEF SessionIsTidy
  <2>2. flow[s].kind = "prepare" => flow[s].at = "end"
    <3>1. Fits(flow[s].kind, flow[s].at)
      BY <1>0 DEF SessionInv, Domains
    <3> QED
      BY <1>0, <3>1 DEF Fits
  <2>3. flow[s].kind # "prepare" => Empty(s)
    BY <1>0, <2>1 DEF Tidy
  <2>4. Covered(s, Recorded(s))
    BY <1>0, <2>1, <2>2, <2>3, EmptyIsCovered DEF Tidy
  <2>5. Recorded(s)' = Recorded(s) /\ Left(s)' = Left(s)
    BY <1>3 DEF Recorded, Left
  <2>6. Covered(s, Recorded(s))' /\ (Empty(s) => Empty(s)')
    BY <1>3, <2>4, <2>5, CoveredStays DEF Empty
  <2>7. Tidy(s, Idle.kind, "idle", Idle.ws, Idle.failed)'
    BY <1>5, <2>6 DEF Tidy
  <2>8. ASSUME agent # "up"
        PROVE  s \in leaving \/ ShuttingDown(s)' \/ Empty(s)
    <3>1. CASE flow[s].kind = "prepare"
      <4>1. Head(queue[s]) # "shutdown"
        BY <1>2, <3>1
      <4>2. Fading(s, flow[s].kind, flow[s].at, flow[s].ws, flow[s].deaf) => Empty(s)
        BY <2>2, <3>1 DEF Fading
      <4> QED
        BY <1>4, <2>1, <2>8, <4>1, <4>2
    <3>2. CASE flow[s].kind # "prepare"
      BY <2>3, <3>2
    <3> QED
      BY <3>1, <3>2
  <2>9. agent # "up" => s \in leaving \/ ShuttingDown(s)' \/ Fading(s, Idle.kind, "idle", Idle.ws, Idle.deaf)'
    BY <1>5, <2>6, <2>8 DEF Fading
  <2> QED
    BY <1>3, <2>1, <2>5, <2>7, <2>9 DEF Tidied
<1> QED
  BY <1>0, <1>3, <1>5, <1>6, <1>7, Acts

\* A save ends: its operation is where it was on its way to.
LEMMA SavesAreTidy == ASSUME SessionInv, StopInv, EndSave PROVE StopInv'
<1> USE Names
<1>1. saving # NoSave /\ saving \in Saves /\ Saved(saving, flow[saving.flow])
  BY DEF EndSave, SessionInv, Domains, SavesFit
<1>2. PICK f \in Flows, t \in Sessions, ok \in Places : f = saving.flow /\ t = saving.session /\ ok = saving.ok
  BY <1>1 DEF Saves
<1>3. /\ flow \in [Flows -> FlowStates] /\ flow[f] \in FlowStates /\ t = SessionOf(f) /\ flow[f].at = "saving"
      /\ flow[f].kind # "idle"
  <2>1. flow \in [Flows -> FlowStates] /\ Fits(flow[f].kind, flow[f].at) /\ t = SessionOf(f) /\ flow[f].at = "saving"
    BY <1>1, <1>2 DEF Saved, SessionInv, Domains
  <2> QED
    BY <2>1 DEF Fits
<1>4. PICK x \in FlowStates : x = [flow[f] EXCEPT !.at = ok]
  BY <1>2, <1>3, Fields
<1>5. x.kind = flow[f].kind /\ x.at = ok /\ x.ws = flow[f].ws /\ x.failed = flow[f].failed /\ x.deaf = flow[f].deaf
  BY <1>3, <1>4 DEF FlowStates
<1>6. flow' = [flow EXCEPT ![f] = x] /\ saving' = NoSave
  BY <1>2, <1>3, <1>4 DEF EndSave
<1>7. /\ UNCHANGED <<worktree, previews, tunnel, active, persisted, queue, recovery, agent, leaving, told, count>>
      /\ \A s \in Sessions : lost[s] \subseteq lost'[s]
  BY DEF EndSave, resources
<1>8. count \in [runs : Nat, faults : Nat]
  BY DEF StopInv
<1>9. ShuttingDown(t)' = ShuttingDown(t)
  BY <1>7 DEF ShuttingDown
<1>10. Acted(f, t, x, ok)
  BY <1>1, <1>2, <1>3, <1>5, <1>6, <1>7, <1>8, <1>9 DEF Acted
<1>11. ASSUME count.faults = 0, ~told[t].early
       PROVE  Tidied(t, x, ok)
  <2>1. /\ SessionIsTidy(t) /\ Step(t) = flow[f] /\ recovery.stage \in {"rebuild", "done"}
        /\ t \in recovery.todo => active[t] # None
    BY <1>3, <1>11, Finding
  <2>2. Place(t) = ok
    BY <1>1, <1>2 DEF Place
  <2>3. /\ Tidy(t, x.kind, ok, x.ws, x.failed)
        /\ recovery.stage = "done" /\ agent # "up" =>
             t \in leaving \/ ShuttingDown(t) \/ Fading(t, x.kind, ok, x.ws, x.deaf)
        /\ t \notin Containers /\ worktree[t] # "full" => Left(t) = {}
    BY <1>5, <2>1, <2>2 DEF SessionIsTidy
  <2>4. Alike(t)
    BY <1>7 DEF Alike
  <2>5. Left(t)' \subseteq Left(t)
    BY <1>7, CoveredStays
  <2> QED
    BY <1>7, <1>9, <2>1, <2>3, <2>4, <2>5, TidyStays DEF Tidied
<1> QED
  BY <1>7, <1>10, <1>11, Acts

\* A rebuild goes on once what there was is removed.
LEMMA RebuildsAreTidy == ASSUME SessionInv, StopInv, Rebuild PROVE StopInv'
<1> USE Names
<1>0. Recovery \in Flows /\ flow[Recovery].at = "removed"
  BY DEF Flows, Rebuild, At
<1>1. PICK t \in Sessions : t = SessionOf(Recovery)
  BY <1>0, Here
<1>2. /\ flow \in [Flows -> FlowStates] /\ flow[Recovery] \in FlowStates /\ flow[Recovery].kind = "rebuild"
      /\ recovery.current = t /\ t \in recovery.todo
  <2>1. flow \in [Flows -> FlowStates] /\ Fits(flow[Recovery].kind, flow[Recovery].at)
    BY <1>0 DEF SessionInv, Domains
  <2>2. flow[Recovery].kind = "rebuild"
    BY <1>0, <2>1 DEF Fits
  <2>3. recovery.current = t /\ t # None
    BY <1>1, NamesAssumption DEF SessionOf
  <2> QED
    BY <1>0, <2>1, <2>2, <2>3 DEF SessionInv, Domains
<1>3. PICK at \in {"suspend", "start"} : at = IF flow[Recovery].failed THEN "suspend" ELSE "start"
  OBVIOUS
<1>4. PICK x \in FlowStates : x = [flow[Recovery] EXCEPT !.at = at]
  BY <1>2, <1>3, Fields DEF Places
<1>5. x.kind = "rebuild" /\ x.at = at /\ x.ws = flow[Recovery].ws /\ x.failed = flow[Recovery].failed
  BY <1>2, <1>4 DEF FlowStates
<1>6. /\ flow' = [flow EXCEPT ![Recovery] = x]
      /\ UNCHANGED <<worktree, previews, tunnel, active, persisted, saving, queue, recovery, agent, leaving, lost, told, count>>
  BY <1>0, <1>2, <1>3, <1>4 DEF Rebuild, Goto, resources, registry, process
<1>7. count \in [runs : Nat, faults : Nat]
  BY DEF StopInv
<1>8. Acted(Recovery, t, x, at)
  BY <1>0, <1>1, <1>2, <1>5, <1>6, <1>7 DEF Acted, ShuttingDown
<1>9. ASSUME count.faults = 0, ~told[t].early
      PROVE  Tidied(t, x, at)
  <2>1. /\ Tidy(t, flow[Recovery].kind, flow[Recovery].at, flow[Recovery].ws, flow[Recovery].failed)
        /\ active[t] # None /\ persisted[t] # None
        /\ t \notin Containers /\ worktree[t] # "full" => Left(t) = {}
    BY <1>0, <1>1, <1>2, <1>9, Finding DEF SessionIsTidy
  <2>2. Empty(t) /\ ~x.failed /\ at = "start" /\ worktree[t] = "full"
    BY <1>0, <1>2, <1>3, <1>5, <2>1 DEF Tidy
  <2>3. Covered(t, x.ws)
    BY <2>2, EmptyIsCovered
  <2>4. Covered(t, x.ws)' /\ Left(t)' \subseteq Left(t)
    BY <1>6, <2>3, CoveredStays
  <2>5. Tidy(t, x.kind, at, x.ws, x.failed)'
    BY <1>5, <1>6, <2>1, <2>2, <2>4 DEF Tidy
  <2>6. Fading(t, x.kind, at, x.ws, x.deaf)'
    BY <1>5 DEF Fading
  <2> QED
    BY <1>6, <2>1, <2>4, <2>5, <2>6 DEF Tidied
<1> QED
  BY <1>0, <1>6, <1>8, <1>9, Acts

\* While the agent recovers, nothing is under way of a session but what the recovery does.
LEMMA Resting ==
  ASSUME SessionInv, NEW s \in Sessions, ~told[s].early, recovery.stage \in {"reconcile", "rebuild"}
  PROVE  /\ flow[s].kind = "idle" /\ flow[s].at = "idle"
         /\ saving # NoSave /\ saving.session = s => recovery.current = s /\ flow[Recovery].at = "saving"
         /\ recovery.current # s => Step(s) = flow[s] /\ Place(s) = "idle" /\ Left(s) \subseteq Named(persisted[s])
         /\ recovery.current # s \/ flow[Recovery].at # "saving" => file[s] = persisted[s]
<1> USE Names
<1>1. flow[s].kind = "idle" /\ flow[s].at = "idle"
  <2>1. queue[s] = <<>>
    BY DEF SessionInv, ProcessesRun, Busy
  <2>2. flow[s].kind = "idle" /\ Fits(flow[s].kind, flow[s].at)
    BY <2>1 DEF SessionInv, QueuesFit, Domains, Flows
  <2> QED
    BY <2>2 DEF Fits
<1>2. ASSUME saving # NoSave, saving.session = s
      PROVE  recovery.current = s /\ flow[Recovery].at = "saving"
  <2>1. saving.flow = Operator(s) /\ flow[saving.flow].at = "saving"
    BY <1>2 DEF SessionInv, SavesFit, Saved, OperationsAreSound, OperationIsSound
  <2> QED
    BY <1>1, <2>1 DEF Operator
<1>3. recovery.current # s \/ flow[Recovery].at # "saving" => file[s] = persisted[s]
  BY <1>2 DEF SessionInv, RecordsAgree
<1>4. ASSUME recovery.current # s
      PROVE  Step(s) = flow[s] /\ Place(s) = "idle" /\ Left(s) \subseteq Named(persisted[s])
  <2>1. Step(s) = flow[s]
    BY <1>4 DEF Step, Operator
  <2>2. Place(s) = "idle"
    BY <1>1, <1>2, <1>4, <2>1 DEF Place
  <2>3. Sound(flow[s].kind, flow[s].at, flow[s].ws, flow[s].failed, file[s], Left(s), Tree(s))
    BY <2>1 DEF SessionInv, OperationsAreSound, OperationIsSound
  <2> QED
    BY <1>1, <1>3, <1>4, <2>1, <2>2, <2>3 DEF Sound
<1> QED
  BY <1>1, <1>2, <1>3, <1>4

\* The place an operation is at, or on its way to, is one of its kind.
LEMMA PlaceFits ==
  ASSUME SessionInv, NEW s \in Sessions, ~told[s].early
  PROVE  Fits(Step(s).kind, Place(s))
<1>1. Operator(s) \in Flows
  BY DEF Operator, Flows
<1>2. CASE saving # NoSave /\ saving.session = s
  <2>1. Saved(saving, Step(s))
    BY <1>2 DEF SessionInv, SavesFit, OperationsAreSound, OperationIsSound, Step
  <2> QED
    BY <1>2, <2>1 DEF Saved, Place
<1>3. CASE ~(saving # NoSave /\ saving.session = s)
  BY <1>1, <1>3 DEF SessionInv, Domains, Place, Step
<1> QED
  BY <1>2, <1>3

\* The agent starts, and its recovery reads the state file.
LEMMA LoadsAreTidy == ASSUME SessionInv, StopInv, Start \/ Load PROVE StopInv'
<1> USE Names
<1>1. /\ count' \in [runs : Nat, faults : Nat] /\ count'.faults = count.faults
      /\ UNCHANGED <<worktree, previews, lost, told>>
      /\ \/ recovery'.stage = "load" /\ recovery'.todo = {} /\ agent' = "up"
         \/ recovery'.stage = "reconcile" /\ active' = persisted' /\ agent' = agent /\ leaving' = leaving /\ queue' = queue
            /\ \A s \in recovery'.todo : active'[s] # None
  <2>1. CASE Start
    BY <2>1 DEF StopInv, Start, resources, NoRecovery
  <2>2. CASE Load
    <3>1. recovery' = [recovery EXCEPT !.stage = "reconcile", !.todo = {s \in Sessions : file[s] # None}, !.read = file]
      BY <2>2 DEF Load
    <3>2. recovery'.stage = "reconcile" /\ recovery'.todo = {s \in Sessions : file[s] # None}
      BY <3>1 DEF SessionInv, Domains
    <3> QED
      BY <2>2, <3>2 DEF StopInv, Load, resources, process
  <2> QED
    BY <2>1, <2>2
<1>2. agent' = "stopped" => leaving' = {} /\ \A s \in Sessions : ~ShuttingDown(s)'
  BY <1>1 DEF StopInv, ShuttingDown
<1>3. ASSUME count'.faults = 0, NEW s \in Sessions, ~told'[s].early
      PROVE  SessionIsTidy(s)'
  <2>1. SessionIsTidy(s)
    BY <1>1, <1>3 DEF StopInv
  <2>2. Left(s)' = Left(s)
    BY <1>1 DEF Left
  <2> QED
    BY <1>1, <2>1, <2>2 DEF SessionIsTidy
<1> QED
  BY <1>1, <1>2, <1>3 DEF StopInv

\* Docker is swept.
LEMMA ReconcilesAreTidy == ASSUME SessionInv, StopInv, Reconcile PROVE StopInv'
<1> USE Names
<1>1. /\ UNCHANGED <<worktree, active, persisted, saving, flow, queue, agent, leaving, lost, told, count>>
      /\ previews' = [s \in Sessions |-> IF s \in Containers THEN {} ELSE previews[s]]
      /\ tunnel' = [s \in Sessions |-> FALSE]
      /\ recovery.stage = "reconcile" /\ recovery.current = None
      /\ recovery'.stage = "rebuild" /\ recovery'.todo = recovery.todo /\ recovery'.current = None
  <2>1. recovery.stage = "reconcile" /\ recovery.current = None
    BY DEF Reconcile, SessionInv, Domains, TypeOK
  <2>2. recovery' = [recovery EXCEPT !.stage = "rebuild"]
    BY DEF Reconcile
  <2>3. recovery'.stage = "rebuild" /\ recovery'.todo = recovery.todo /\ recovery'.current = recovery.current
    BY <2>2 DEF SessionInv, Domains
  <2> QED
    BY <2>1, <2>3 DEF Reconcile, registry, process
<1>2. /\ agent' = "stopped" => leaving' = {} /\ \A s \in Sessions : ~ShuttingDown(s)'
      /\ count' \in [runs : Nat, faults : Nat]
  BY <1>1 DEF StopInv, ShuttingDown
<1>3. ASSUME count'.faults = 0, NEW s \in Sessions, ~told'[s].early
      PROVE  SessionIsTidy(s)'
  <2>1. SessionIsTidy(s) /\ active[s] = persisted[s] /\ ~told[s].early
    BY <1>1, <1>3 DEF StopInv, SessionIsTidy
  <2>2. recovery.current # s /\ recovery'.current # s
    BY <1>1, NamesAssumption
  <2>3. /\ flow[s].kind = "idle" /\ Step(s) = flow[s] /\ Place(s) = "idle" /\ Left(s) \subseteq Named(persisted[s])
    BY <1>1, <2>1, <2>2, Resting
  <2>4. Step(s)' = flow[s]
    BY <1>1, <2>2 DEF Step, Operator
  <2>5. Place(s)' = "idle"
    BY <1>1, <2>3, <2>4 DEF Place
  <2>6. ~tunnel'[s] /\ (s \in Containers => previews'[s] = {}) /\ Left(s)' = Left(s)
    BY <1>1 DEF Left
  <2>7. Covered(s, Recorded(s))'
    BY <1>1, <2>1, <2>3, <2>6 DEF Covered, Recorded, Left, Named, Bare
  <2>8. Tidy(s, Step(s).kind, Place(s), Step(s).ws, Step(s).failed)'
    BY <2>3, <2>4, <2>5, <2>7 DEF Tidy
  <2> QED
    BY <1>1, <2>1, <2>6, <2>8 DEF SessionIsTidy
<1> QED
  BY <1>1, <1>2, <1>3 DEF StopInv

\* The recovery begins with a session, and ends with it.
LEMMA VisitsAreTidy == ASSUME SessionInv, StopInv, NEW t \in Sessions, BeginRebuild(t) PROVE StopInv'
<1> USE Names
<1>1. /\ recovery \in [stage : {"none", "load", "reconcile", "rebuild", "done", "late"}, todo : SUBSET Sessions,
                       current : Sessions \cup {None}, read : [Sessions -> Workspace \cup {None}]]
      /\ recovery.stage = "rebuild" /\ recovery.current = None /\ t \in recovery.todo
      /\ recovery.read[t] \in Workspace /\ flow \in [Flows -> FlowStates] /\ Recovery \in Flows
      /\ None \notin Sessions
  BY NamesAssumption DEF BeginRebuild, SessionInv, Domains, Flows
<1>2. recovery'.stage = "rebuild" /\ recovery'.todo = recovery.todo /\ recovery'.current = t
  BY <1>1 DEF BeginRebuild
<1>3. UNCHANGED <<worktree, previews, tunnel, active, persisted, saving, queue, agent, leaving, lost, told, count>>
  BY DEF BeginRebuild, resources, registry, process
<1>4. PICK at \in {"close", "suspend"} : at = IF worktree[t] = "full" THEN "close" ELSE "suspend"
  OBVIOUS
<1>5. PICK x \in FlowStates : x = [Idle EXCEPT !.kind = "rebuild", !.ws = recovery.read[t], !.at = at]
  BY <1>1, Beginnings DEF Places, RecoveryKinds
<1>6. x.kind = "rebuild" /\ x.at = at /\ x.ws = recovery.read[t] /\ ~x.failed
  BY <1>5 DEF Idle
<1>7. flow' = [flow EXCEPT ![Recovery] = x]
  BY <1>4, <1>5 DEF BeginRebuild
<1>8. /\ agent' = "stopped" => leaving' = {} /\ \A s \in Sessions : ~ShuttingDown(s)'
      /\ count' \in [runs : Nat, faults : Nat]
      /\ \A s \in Sessions : ShuttingDown(s)' = ShuttingDown(s)
  BY <1>3 DEF StopInv, ShuttingDown
<1>9. ASSUME count'.faults = 0, NEW s \in Sessions, ~told'[s].early
      PROVE  SessionIsTidy(s)'
  <2>1. SessionIsTidy(s) /\ ~told[s].early
    BY <1>3, <1>9 DEF StopInv
  <2>2. CASE s # t
    <3>1. Step(s)' = Step(s)
      BY <1>1, <1>2, <1>7, <2>2 DEF Step, Operator, Flows
    <3>2. Place(s)' = Place(s)
      BY <1>3, <3>1 DEF Place
    <3>3. Apart(s)
      BY <1>3, <3>1, <3>2 DEF Apart, Alike
    <3> QED
      BY <1>1, <1>2, <1>3, <1>8, <2>1, <2>2, <3>3, StaysTidy
  <2>3. CASE s = t
    <3>1. /\ Left(t) \subseteq Named(persisted[t]) /\ file[t] = persisted[t]
          /\ ~(saving # NoSave /\ saving.session = t)
      BY <1>1, <2>1, <2>3, Resting
    <3>2. /\ active[t] # None /\ ~tunnel[t] /\ (t \in Containers => previews[t] = {})
          /\ t \notin Containers /\ worktree[t] # "full" => Left(t) = {}
      BY <1>1, <2>1, <2>3 DEF SessionIsTidy
    <3>3. active[t] = persisted[t] /\ recovery.read[t] = persisted[t]
      BY <1>1, <2>1, <2>3, <3>1, <3>2 DEF SessionInv, RecordsAgree, OperationsAreSound, OperationIsSound
    <3>4. Step(t)' = x
      BY <1>1, <1>2, <1>7 DEF Step, Operator
    <3>5. Place(t)' = at
      BY <1>3, <1>6, <3>1, <3>4 DEF Place
    <3>6. Left(t)' = Left(t) /\ (Empty(t) => Empty(t)')
      BY <1>3 DEF Left, Empty, Covered
    <3>7. at = "suspend" => Empty(t)
      BY <1>4, <3>2, NothingIsEmpty DEF Left
    <3>8. Covered(t, x.ws)'
      BY <1>1, <1>3, <1>6, <3>1, <3>2, <3>3 DEF Covered, Left, Named
    <3>9. Tidy(t, x.kind, at, x.ws, x.failed)'
      BY <1>3, <1>4, <1>6, <3>2, <3>3, <3>6, <3>7, <3>8 DEF Tidy
    <3> QED
      BY <1>2, <1>3, <2>3, <3>2, <3>4, <3>5, <3>6, <3>9 DEF SessionIsTidy
  <2> QED
    BY <2>2, <2>3
<1> QED
  BY <1>2, <1>3, <1>8, <1>9 DEF StopInv

LEMMA LeavingsAreTidy == ASSUME SessionInv, StopInv, EndRebuild \/ Suspend PROVE StopInv'
<1> USE Names
<1>0. Recovery \in Flows /\ flow[Recovery].at \in {"rebuilt", "suspend"}
  BY DEF Flows, EndRebuild, Suspend, At
<1>1. PICK t \in Sessions : t = recovery.current
  BY <1>0, Here DEF SessionOf
<1>2. /\ recovery \in [stage : {"none", "load", "reconcile", "rebuild", "done", "late"}, todo : SUBSET Sessions,
                       current : Sessions \cup {None}, read : [Sessions -> Workspace \cup {None}]]
      /\ recovery.stage = "rebuild" /\ t # None /\ None \notin Sessions
      /\ flow \in [Flows -> FlowStates] /\ active \in [Sessions -> Workspace \cup {None}]
  BY <1>1, NamesAssumption DEF SessionInv, Domains, TypeOK
<1>3. recovery'.stage = "rebuild" /\ recovery'.todo = recovery.todo \ {t} /\ recovery'.current = None
  BY <1>1, <1>2 DEF EndRebuild, Suspend, NextRecovered
<1>4. /\ UNCHANGED <<worktree, previews, tunnel, persisted, saving, queue, agent, leaving, lost, told, count>>
      /\ flow' = [flow EXCEPT ![Recovery] = Idle]
      /\ active' = IF flow[Recovery].at = "suspend" THEN [active EXCEPT ![t] = None] ELSE active
  BY <1>1 DEF EndRebuild, Suspend, resources, registry, process, At
<1>5. /\ agent' = "stopped" => leaving' = {} /\ \A s \in Sessions : ~ShuttingDown(s)'
      /\ count' \in [runs : Nat, faults : Nat]
      /\ \A s \in Sessions : ShuttingDown(s)' = ShuttingDown(s)
  BY <1>4 DEF StopInv, ShuttingDown
<1>6. ASSUME count'.faults = 0, NEW s \in Sessions, ~told'[s].early
      PROVE  SessionIsTidy(s)'
  <2>1. SessionIsTidy(s) /\ ~told[s].early
    BY <1>4, <1>6 DEF StopInv
  <2>2. CASE s # t
    <3>1. Step(s)' = Step(s)
      BY <1>1, <1>2, <1>3, <1>4, <2>2 DEF Step, Operator, Flows
    <3>2. Place(s)' = Place(s)
      BY <1>4, <3>1 DEF Place
    <3>3. Apart(s)
      BY <1>2, <1>4, <2>2, <3>1, <3>2 DEF Apart, Alike
    <3> QED
      BY <1>1, <1>2, <1>3, <1>4, <1>5, <2>1, <2>2, <3>3, StaysTidy
  <2>3. CASE s = t
    <3>1. flow[t].kind = "idle" /\ flow[t].at = "idle" /\ ~(saving # NoSave /\ saving.session = t)
      BY <1>0, <1>2, <2>1, <2>3, Resting
    <3>2. Step(t) = flow[Recovery] /\ Place(t) = flow[Recovery].at
      BY <1>1, <3>1 DEF Step, Operator, Place
    <3>3. /\ Tidy(t, flow[Recovery].kind, flow[Recovery].at, flow[Recovery].ws, flow[Recovery].failed)
          /\ t \notin Containers /\ worktree[t] # "full" => Left(t) = {}
      BY <1>2, <2>1, <2>3, <3>2 DEF SessionIsTidy
    <3>4. Step(t)' = flow[t]
      BY <1>2, <1>3, <1>4 DEF Step, Operator, Flows
    <3>5. Place(t)' = "idle"
      BY <1>4, <3>1, <3>4 DEF Place
    <3>6. Left(t)' = Left(t) /\ \A ws : Covered(t, ws) => Covered(t, ws)'
      BY <1>4 DEF Left, Covered
    <3>7. Covered(t, Recorded(t))'
      <4>1. CASE flow[Recovery].at = "suspend"
        <5>1. Covered(t, Bare) /\ Recorded(t)' = Bare
          BY <1>2, <1>4, <3>3, <4>1 DEF Tidy, Recorded, Empty
        <5> QED
          BY <3>6, <5>1
      <4>2. CASE flow[Recovery].at = "rebuilt"
        <5>1. Covered(t, Recorded(t)) /\ Recorded(t)' = Recorded(t)
          BY <1>4, <3>3, <4>2 DEF Tidy, Recorded
        <5> QED
          BY <3>6, <5>1
      <4> QED
        BY <1>0, <4>1, <4>2
    <3>8. Tidy(t, Step(t).kind, Place(t), Step(t).ws, Step(t).failed)'
      <4>1. flow'[t] = flow[t]
        BY <1>2, <1>4 DEF Flows
      <4> QED
        BY <3>1, <3>4, <3>5, <3>7, <4>1 DEF Tidy
    <3> QED
      BY <1>3, <1>4, <2>3, <3>3, <3>6, <3>8 DEF SessionIsTidy
  <2> QED
    BY <2>2, <2>3
<1> QED
  BY <1>3, <1>4, <1>5, <1>6 DEF StopInv

\* The recovery ends.
LEMMA RecoveriesAreTidy == ASSUME SessionInv, StopInv, EndRecovery PROVE StopInv'
<1> USE Names
<1>1. /\ recovery.stage = "rebuild" /\ recovery.current = None
      /\ recovery'.stage = (IF agent = "up" THEN "done" ELSE "late") /\ recovery'.todo = {} /\ recovery'.current = None
      /\ UNCHANGED <<worktree, previews, tunnel, active, persisted, saving, flow, queue, agent, leaving, lost, told, count>>
  <2>1. recovery.stage = "rebuild" /\ recovery.current = None
    BY DEF EndRecovery, SessionInv, Domains, TypeOK
  <2> QED
    BY <2>1 DEF EndRecovery, NoRecovery, resources, registry, process
<1>2. /\ agent' = "stopped" => leaving' = {} /\ \A s \in Sessions : ~ShuttingDown(s)'
      /\ count' \in [runs : Nat, faults : Nat]
  BY <1>1 DEF StopInv, ShuttingDown
<1>3. recovery'.stage = "late" => \A s \in Sessions : told'[s].early
  BY <1>1 DEF SessionInv, ProcessesRun, Busy
<1>4. ASSUME count'.faults = 0, NEW s \in Sessions, ~told'[s].early
      PROVE  SessionIsTidy(s)'
  <2>1. SessionIsTidy(s) /\ ~told[s].early
    BY <1>1, <1>4 DEF StopInv
  <2>2. agent = "up" /\ recovery'.stage = "done"
    BY <1>1, <2>1 DEF SessionInv, ProcessesRun, Busy
  <2>3. Step(s)' = Step(s) /\ Place(s)' = Place(s)
    BY <1>1 DEF Step, Operator, Place
  <2>4. Tidy(s, Step(s).kind, Place(s), Step(s).ws, Step(s).failed)
    BY <1>1, <2>1 DEF SessionIsTidy
  <2>5. PICK x, place : x = Step(s) /\ place = Place(s)
    OBVIOUS
  <2>6. Alike(s)
    BY <1>1 DEF Alike
  <2>7. Tidy(s, x.kind, place, x.ws, x.failed)'
    BY <2>4, <2>5, <2>6, TidyStays
  <2>8. Left(s)' = Left(s)
    BY <1>1 DEF Left
  <2> QED
    BY <1>1, <2>1, <2>2, <2>3, <2>5, <2>7, <2>8 DEF SessionIsTidy
<1> QED
  BY <1>2, <1>3, <1>4 DEF StopInv

\* A command comes, or the shutdown of a session is asked for.
LEMMA CommandsAreTidy ==
  ASSUME SessionInv, StopInv, NEW t \in Sessions, ReceivePrepare(t) \/ ReceiveClose(t) \/ ShutDown(t)
  PROVE  StopInv'
<1>0. /\ queue \in [Sessions -> Seq({"prepare", "close", "shutdown"})]
      /\ told \in [Sessions -> [prepare : BOOLEAN, closes : Nat, cleaned : BOOLEAN, early : BOOLEAN]]
  BY DEF SessionInv, Domains, TypeOK
<1>1. PICK c \in {"prepare", "close", "shutdown"} :
        queue' = [queue EXCEPT ![t] = Append(@, c)] /\ (agent # "up" => c = "shutdown")
  BY DEF ReceivePrepare, ReceiveClose, ShutDown
<1>2. /\ UNCHANGED <<worktree, previews, tunnel, active, persisted, saving, flow, recovery, agent, lost, count>>
      /\ agent \in {"up", "stopping"}
      /\ \A s \in Sessions : told[s].early => told'[s].early
      /\ \A s \in Sessions : s \in leaving => s \in leaving' \/ s = t
      /\ agent = "up" => leaving' = leaving
  <2>1. CASE ReceivePrepare(t) \/ ReceiveClose(t)
    <3>1. \A s \in Sessions : told[s].early => told'[s].early
      <4>1. PICK early \in BOOLEAN : early = (told[t].early \/ Busy)
        OBVIOUS
      <4>2. told[t].early => early
        BY <4>1
      <4>3. \/ told' = [told EXCEPT ![t].prepare = TRUE, ![t].early = early]
            \/ told' = [told EXCEPT ![t].closes = @ + 1, ![t].early = early]
        BY <2>1, <4>1 DEF ReceivePrepare, ReceiveClose
      <4>4. told'[t].early = early /\ \A s \in Sessions : s # t => told'[s] = told[s]
        BY <1>0, <4>3
      <4> QED
        BY <4>2, <4>4
    <3> QED
      BY <2>1, <3>1 DEF ReceivePrepare, ReceiveClose, resources, registry, process
  <2>2. CASE ShutDown(t)
    BY <2>2 DEF ShutDown, resources, registry
  <2> QED
    BY <2>1, <2>2
<1>3. ASSUME NEW s \in Sessions, agent # "up", s \in leaving \/ ShuttingDown(s)
      PROVE  s \in leaving' \/ ShuttingDown(s)'
  <2>1. CASE s = t
    <3>1. PICK q \in Seq({"prepare", "close", "shutdown"}) : q = queue[t]
      BY <1>0
    <3>2. queue'[t] = Append(q, "shutdown") /\ Len(q) + 1 \in DOMAIN Append(q, "shutdown")
          /\ Append(q, "shutdown")[Len(q) + 1] = "shutdown"
      BY <1>0, <1>1, <1>3, <3>1
    <3> QED
      BY <2>1, <3>2 DEF ShuttingDown
  <2>2. CASE s # t
    <3>1. queue'[s] = queue[s]
      BY <1>0, <1>1, <2>2
    <3> QED
      BY <1>2, <1>3, <2>2, <3>1 DEF ShuttingDown
  <2> QED
    BY <2>1, <2>2
<1>4. ASSUME count'.faults = 0, NEW s \in Sessions, ~told'[s].early
      PROVE  SessionIsTidy(s)'
  <2>1. SessionIsTidy(s)
    BY <1>2, <1>4 DEF StopInv
  <2>2. Apart(s)
    BY <1>2 DEF Apart, Alike, Step, Operator, Place
  <2> QED
    BY <1>2, <1>3, <2>1, <2>2, StaysTidy
<1> QED
  BY <1>2, <1>4 DEF StopInv

\* The agent is told to stop: what is active is shut down, and what is not is nearly gone.
LEMMA StopsAreTidy == ASSUME SessionInv, StopInv, Stop \/ EndShutdown PROVE StopInv'
<1> USE Names
<1>1. ASSUME Stop
      PROVE  StopInv'
  <2>1. /\ agent = "up" /\ agent' = "stopping" /\ leaving' = {s \in Sessions : active[s] # None}
        /\ UNCHANGED <<worktree, previews, tunnel, active, persisted, saving, flow, recovery, queue, lost, count>>
        /\ \A s \in Sessions : told'[s].early = (told[s].early \/ Busy)
    <3>1. told' = [s \in Sessions |-> [told[s] EXCEPT !.early = @ \/ Busy]]
      BY <1>1 DEF Stop
    <3>2. told \in [Sessions -> [prepare : BOOLEAN, closes : Nat, cleaned : BOOLEAN, early : BOOLEAN]]
      BY DEF SessionInv, Domains
    <3>3. \A s \in Sessions : told'[s].early = (told[s].early \/ Busy)
      BY <3>1, <3>2 DEF Busy
    <3> QED
      BY <1>1, <3>3 DEF Stop, resources, registry
  <2>2. ASSUME count'.faults = 0, NEW s \in Sessions, ~told'[s].early
        PROVE  SessionIsTidy(s)'
    <3>1. SessionIsTidy(s) /\ ~told[s].early /\ ~Busy
      BY <2>1, <2>2 DEF StopInv
    <3>2. recovery.stage = "done"
      BY <2>1, <3>1 DEF SessionInv, ProcessesRun, Domains, StopInv, Busy
    <3>3. PICK x, place : x = Step(s) /\ place = Place(s)
      OBVIOUS
    <3>4. x = Step(s)' /\ place = Place(s)'
      BY <2>1, <3>3 DEF Step, Operator, Place
    <3>5. Tidy(s, x.kind, place, x.ws, x.failed) /\ Fits(x.kind, place)
      BY <3>1, <3>2, <3>3, PlaceFits DEF SessionIsTidy
    <3>6. ASSUME active[s] = None
          PROVE  Fading(s, x.kind, place, x.ws, x.deaf)
      <4>1. Covered(s, Recorded(s)) => Empty(s)
        BY <3>6 DEF Recorded, Empty
      <4>2. x.kind = "idle" => Empty(s)
        BY <3>5, <4>1 DEF Fits, Tidy
      <4>3. x.kind = "prepare" => IF place = "end" THEN Empty(s) ELSE x.ws = Bare
        BY <3>5, <3>6, <4>1 DEF Fits, Tidy
      <4> QED
        BY <4>2, <4>3 DEF Fading, Bare
    <3>7. Alike(s) /\ Left(s)' = Left(s)
      BY <2>1 DEF Alike, Left
    <3>8. Tidy(s, x.kind, place, x.ws, x.failed)'
          /\ (Fading(s, x.kind, place, x.ws, x.deaf) => Fading(s, x.kind, place, x.ws, x.deaf)')
      BY <3>5, <3>7, TidyStays
    <3>9. s \in leaving' \/ Fading(s, x.kind, place, x.ws, x.deaf)'
      BY <2>1, <3>6, <3>8
    <3>10. recovery'.stage = "done" /\ recovery' = recovery /\ s \notin recovery'.todo
      BY <2>1, <3>2 DEF SessionInv, Domains
    <3> QED
      BY <2>1, <3>1, <3>4, <3>7, <3>8, <3>9, <3>10 DEF SessionIsTidy
  <2> QED
    BY <2>1, <2>2 DEF StopInv
<1>2. ASSUME EndShutdown
      PROVE  StopInv'
  <2>1. /\ UNCHANGED <<worktree, previews, tunnel, active, persisted, saving, flow, recovery, queue, leaving, lost, told, count>>
        /\ agent = "stopping" /\ leaving = {} /\ \A s \in Sessions : ~ShuttingDown(s)
    BY <1>2 DEF EndShutdown, resources, registry
  <2>2. \A s \in Sessions : ShuttingDown(s)' = ShuttingDown(s)
    BY <2>1 DEF ShuttingDown
  <2>3. ASSUME count'.faults = 0, NEW s \in Sessions, ~told'[s].early
        PROVE  SessionIsTidy(s)'
    <3>1. SessionIsTidy(s)
      BY <2>1, <2>3 DEF StopInv
    <3>2. Apart(s)
      BY <2>1 DEF Apart, Alike, Step, Operator, Place
    <3> QED
      BY <2>1, <2>2, <3>1, <3>2, StaysTidy
  <2> QED
    BY <2>1, <2>2, <2>3 DEF StopInv
<1> QED
  BY <1>1, <1>2

\* The process dies: what is there is there.
LEMMA DeathsAreTidy == ASSUME SessionInv, StopInv, Die, UNCHANGED count PROVE StopInv'
<1>1. /\ recovery'.stage = "none" /\ recovery'.todo = {} /\ agent' = "down"
      /\ UNCHANGED <<worktree, previews, tunnel, told, count>>
      /\ \A s \in Sessions : lost[s] \subseteq lost'[s]
  BY DEF Die, NoRecovery, resources
<1>2. ASSUME count'.faults = 0, NEW s \in Sessions, ~told'[s].early
      PROVE  SessionIsTidy(s)'
  <2>1. SessionIsTidy(s)
    BY <1>1, <1>2 DEF StopInv
  <2>2. Left(s)' \subseteq Left(s)
    BY <1>1, CoveredStays
  <2> QED
    BY <1>1, <2>1, <2>2 DEF SessionIsTidy
<1> QED
  BY <1>1, <1>2 DEF StopInv

LEMMA TidyAtFirst == ASSUME Init PROVE StopInv
<1>1. /\ count = [runs |-> 0, faults |-> 0] /\ recovery.stage = "none" /\ recovery.todo = {} /\ agent = "down"
  BY DEF Init, NoRecovery
<1>2. ASSUME NEW s \in Sessions
      PROVE  SessionIsTidy(s)
  <2>1. s \notin Containers /\ worktree[s] # "full" => Left(s) = {}
    <3>1. PICK stored \in SUBSET Sessions :
            /\ worktree = [t \in Sessions |-> IF t \in stored THEN "full" ELSE "none"]
            /\ previews = [t \in Sessions |-> IF t \in stored THEN {1} ELSE {}]
      BY DEF Init
    <3> QED
      BY <3>1 DEF Left
  <2> QED
    BY <1>1, <2>1 DEF SessionIsTidy
<1> QED
  BY <1>1, <1>2 DEF StopInv

LEMMA TidyWhileNothing == ASSUME StopInv, UNCHANGED vars PROVE StopInv'
<1>1. UNCHANGED <<worktree, previews, tunnel, file, persisted, active, saving, queue, flow, recovery, agent,
                  leaving, lost, started, told, count>>
  BY DEF vars, resources, registry, process
<1>2. ASSUME NEW s \in Sessions, SessionIsTidy(s)
      PROVE  SessionIsTidy(s)'
  <2>1. Apart(s) /\ ShuttingDown(s)' = ShuttingDown(s)
    BY <1>1 DEF Apart, Alike, Step, Operator, Place, ShuttingDown
  <2> QED
    BY <1>1, <1>2, <2>1, StaysTidy
<1>3. \A s \in Sessions : ShuttingDown(s)' = ShuttingDown(s)
  BY <1>1 DEF ShuttingDown
<1> QED
  BY <1>1, <1>2, <1>3 DEF StopInv

\* Every step keeps it.
LEMMA StepsAreTidy == ASSUME SessionInv, StopInv, [Next]_vars PROVE StopInv'
<1>1. ASSUME Start \/ Load \/ Reconcile \/ EndRecovery \/ EndRebuild \/ Suspend \/ Rebuild
      PROVE  StopInv'
  BY <1>1, LoadsAreTidy, ReconcilesAreTidy, RecoveriesAreTidy, LeavingsAreTidy, RebuildsAreTidy
<1>2. ASSUME Stop \/ EndShutdown
      PROVE  StopInv'
  BY <1>2, StopsAreTidy
<1>3. ASSUME Crash \/ Exit \/ FailReconcile
      PROVE  StopInv'
  <2>1. CASE Crash \/ Exit
    BY <2>1, DeathsAreTidy DEF Crash, Exit
  <2>2. CASE FailReconcile
    BY <2>2, Faults DEF FailReconcile, Die, NoRecovery
  <2> QED
    BY <1>3, <2>1, <2>2
<1>4. ASSUME EndSave \/ FailSave
      PROVE  StopInv'
  <2>1. CASE EndSave
    BY <2>1, SavesAreTidy
  <2>2. CASE FailSave
    BY <2>2, Faults DEF FailSave, process
  <2> QED
    BY <1>4, <2>1, <2>2
<1>5. ASSUME NEW s \in Sessions, BeginRebuild(s) \/ FailValidate(s)
      PROVE  StopInv'
  <2>1. CASE BeginRebuild(s)
    BY <2>1, VisitsAreTidy
  <2>2. CASE FailValidate(s)
    <3>1. recovery'.stage = recovery.stage
      BY <2>2 DEF FailValidate, SessionInv, Domains
    <3> QED
      BY <2>2, <3>1, Faults DEF FailValidate, process
  <2> QED
    BY <1>5, <2>1, <2>2
<1>6. ASSUME NEW s \in Sessions, ReceivePrepare(s) \/ ReceiveClose(s) \/ ShutDown(s)
      PROVE  StopInv'
  BY <1>6, CommandsAreTidy
<1>7. ASSUME NEW s \in Sessions, Operation(s)
      PROVE  StopInv'
  <2>1. CASE BeginPrepare(s) \/ BeginClose(s) \/ BeginShutdown(s)
    BY <2>1, BeginsAreTidy
  <2>2. CASE Release(s)
    BY <2>2, ReleasesAreTidy
  <2>3. CASE CreateWorktree(s) \/ FailWorktree(s) \/ RemoveWorktree(s) \/ FailRemoveWorktree(s)
    BY <2>3, TreesAreTidy
  <2>4. CASE Register(s) \/ Forget(s)
    BY <2>4, RecordsAreTidy
  <2> QED
    BY <1>7, <2>1, <2>2, <2>3, <2>4 DEF Operation
<1>8. ASSUME NEW f \in Flows, FlowStep(f)
      PROVE  StopInv'
  <2>1. CASE StartPreview(f) \/ OpenTunnel(f) \/ FailPreview(f)
    BY <2>1, PreviewsAreTidy
  <2>2. CASE \/ UpdateRebuilt(f) \/ CloseTunnel(f) \/ CloseTunnelInVain(f) \/ FailCloseTunnel(f)
             \/ StopPreview(f) \/ FailStopPreview(f)
    BY <2>2, UpdatesAreTidy
  <2> QED
    BY <1>8, <2>1, <2>2 DEF FlowStep
<1>9. CASE UNCHANGED vars
  BY <1>9, TidyWhileNothing
<1> QED
  BY <1>1, <1>2, <1>3, <1>4, <1>5, <1>6, <1>7, <1>8, <1>9 DEF Next, RecoveryStep, StoreStep, ShutdownStep

\* What an orderly stop finds: nothing.
LEMMA StopsLeaveNothing ==
  ASSUME SessionInv, StopInv, Leaves, NEW s \in Sessions, ~told[s].early
  PROVE  previews[s] \subseteq lost[s] /\ ~tunnel[s]
<1> USE Names
<1>1. /\ agent = "stopped" /\ queue[s] = <<>> /\ count.faults = 0 /\ recovery.stage = "done"
      /\ recovery.current = None /\ None \notin Sessions
  BY NamesAssumption DEF Leaves, SessionInv, Domains
<1>2. flow[s].kind = "idle" /\ flow[s].at = "idle"
  <2>1. flow[s].kind = "idle" /\ Fits(flow[s].kind, flow[s].at)
    BY <1>1 DEF SessionInv, QueuesFit, Domains, Flows
  <2> QED
    BY <2>1 DEF Fits
<1>3. Step(s) = flow[s]
  BY <1>1 DEF Step, Operator
<1>4. Fading(s, "idle", Place(s), Step(s).ws, Step(s).deaf)
  BY <1>1, <1>2, <1>3 DEF StopInv, SessionIsTidy
<1>5. Empty(s)
  BY <1>4 DEF Fading
<1>6. Left(s) = {} /\ ~tunnel[s] /\ (s \in Containers => previews[s] = {})
  BY <1>5, EmptyIsCovered
<1> QED
  BY <1>6 DEF Left

\* What takes a record from the file: the end of a save of a session that was unregistered.
LEMMA RecordsOutliveWorktrees == ASSUME SessionInv, [Next]_vars PROVE RecordStep
<1> USE Names
<1> SUFFICES ASSUME NEW s \in Sessions, recovery.stage \notin {"none", "load"}, file[s] # None, file'[s] = None
             PROVE  worktree[s] = "none"
  BY DEF RecordStep
<1>1. file' = file \/ (saving # NoSave /\ file' = persisted)
  <2>1. ASSUME NEW t \in Sessions, ReceivePrepare(t) \/ ReceiveClose(t) \/ ShutDown(t) \/ BeginRebuild(t) \/ FailValidate(t)
        PROVE  file' = file
    BY <2>1 DEF ReceivePrepare, ReceiveClose, ShutDown, BeginRebuild, FailValidate, registry
  <2>2. ASSUME NEW t \in Sessions, Operation(t)
        PROVE  file' = file
    BY <2>2 DEF Operation, BeginPrepare, BeginClose, BeginShutdown, Release, CreateWorktree, FailWorktree, Register,
       RemoveWorktree, FailRemoveWorktree, Forget, Save, registry
  <2>3. ASSUME NEW f \in Flows, NEW ws, NEW ok, NEW failure, Update(f, ws, ok, failure)
        PROVE  file' = file
    BY <2>3 DEF Update, Save, registry
  <2>4. ASSUME NEW f \in Flows, FlowStep(f)
        PROVE  file' = file
    <3>1. CASE StartPreview(f) \/ OpenTunnel(f) \/ FailPreview(f) \/ FailCloseTunnel(f) \/ FailStopPreview(f)
      BY <3>1 DEF StartPreview, OpenTunnel, FailPreview, FailCloseTunnel, FailStopPreview, registry
    <3>2. CASE UpdateRebuilt(f) \/ CloseTunnel(f) \/ CloseTunnelInVain(f) \/ StopPreview(f)
      BY <2>3, <3>2 DEF UpdateRebuilt, CloseTunnel, CloseTunnelInVain, StopPreview, registry
    <3> QED
      BY <2>4, <3>1, <3>2 DEF FlowStep
  <2>5. ASSUME Start \/ Stop \/ EndShutdown \/ Load \/ Reconcile \/ Rebuild \/ EndRebuild \/ Suspend \/ EndRecovery \/ FailSave
        PROVE  file' = file
    BY <2>5 DEF Start, Stop, EndShutdown, Load, Reconcile, Rebuild, EndRebuild, Suspend, EndRecovery, FailSave, registry
  <2>6. ASSUME EndSave \/ Crash \/ Exit \/ FailReconcile
        PROVE  file' = file \/ (saving # NoSave /\ file' = persisted)
    BY <2>6 DEF EndSave, Crash, Exit, FailReconcile, Die
  <2>7. UNCHANGED vars => file' = file
    BY DEF vars, registry
  <2> QED
    BY <2>1, <2>2, <2>4, <2>5, <2>6, <2>7 DEF Next, RecoveryStep, StoreStep, ShutdownStep
<1>2. saving # NoSave /\ persisted[s] = None
  BY <1>1
<1>3. saving.session = s
  BY <1>2 DEF SessionInv, RecordsAgree
<1>4. saving \in Saves /\ Saved(saving, flow[saving.flow]) /\ flow[saving.flow].ws \in Workspace
  <2>1. saving \in Saves /\ Saved(saving, flow[saving.flow])
    BY <1>2 DEF SessionInv, Domains, SavesFit
  <2> QED
    BY <2>1 DEF Saves, SessionInv, Domains, TypeOK
<1>5. saving.kind = "unregister"
  BY <1>2, <1>3, <1>4 DEF Saved
<1> QED
  BY <1>3, <1>4, <1>5 DEF Saved

\* A recovery forgets no worktree it has not removed, and an orderly stop leaves no preview
\* and no tunnel.
THEOREM NothingForgotten == Spec => NothingIsForgotten
<1>1. Init => SessionInv /\ StopInv
  BY Beginning, TidyAtFirst
<1>2. SessionInv /\ StopInv /\ [Next]_vars => (SessionInv /\ StopInv)'
  BY Steps, StepsAreTidy
<1>3. ASSUME SessionInv, StopInv, [Next]_vars
      PROVE  RecordStep /\ StopStep
  BY <1>3, RecordsOutliveWorktrees, StopsLeaveNothing DEF StopStep
<1>4. SessionInv /\ StopInv /\ [Next]_vars => [RecordStep /\ StopStep]_vars
  BY <1>3
<1> QED
  BY <1>1, <1>2, <1>4, PTL DEF Spec, NothingIsForgotten
=================================================================================
