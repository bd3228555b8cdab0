---------------------------- MODULE ProjectBinding ----------------------------
(***************************************************************************)
(* How the API compares a project's row with what the connected agents     *)
(* publish under its key: AgentProjectBindingService and AgentExecution-   *)
(* CapabilitiesService.  published is the snapshot found for the key: None *)
(* when no agent has it, else its owner (None for an agent of the static   *)
(* configuration), repository, models, and the models it allows.           *)
(***************************************************************************)
CONSTANT None

Published(owner, repo, models, allowed) ==
  [owner |-> owner, repo |-> repo, models |-> models, allowed |-> allowed]

\* matchesProject.
Matches(published, project) ==
  published.repo = project.repo /\ published.owner \in {None, project.owner}

\* isConnected, and assertConnected but for its two ways to refuse.
IsConnected(published, project) == published # None /\ Matches(published, project)

\* assertCompatibleIfConnected.
CompatibleIfConnected(published, project) == published = None \/ Matches(published, project)

\* listModelsForProject: a project that allows none allows them all.
ModelsFor(published) ==
  IF published = None THEN {}
  ELSE IF published.allowed = {} THEN published.models
  ELSE published.models \cap published.allowed

\* resolveSessionSelection: where no model is listed, any is accepted.
Selectable(published, model) == ModelsFor(published) = {} \/ model \in ModelsFor(published)
=============================================================================
