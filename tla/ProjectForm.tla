------------------------------ MODULE ProjectForm ------------------------------
(***************************************************************************)
(* The form that creates a project: resolveProjectCreation and the         *)
(* handlers of DeveloperProjectForm.  The form keeps what the developer    *)
(* chose; the rest is inferred on every render from the setup, which may   *)
(* be read again while the form is open.                                   *)
(***************************************************************************)
EXTENDS FiniteSets

CONSTANTS
  None,       \* "" and undefined
  Setups,     \* what the API may offer: repositories, and projects of the agents online
  Handoffs    \* keys the desktop application may hand over

VARIABLES
  setup,
  handoff,     \* preferredAgentProjectKey
  chosenEdits,       \* the developer's own choices
  refreshed,   \* the setup was read again since one of them was made
  submission   \* what onSubmit was last called with, and the setup on screen

formVars == <<setup, handoff, chosenEdits, refreshed, submission>>

NoEdits == [repo |-> None, key |-> None, branch |-> None, model |-> None, effort |-> None]

Init ==
  /\ setup \in Setups
  /\ handoff \in Handoffs \cup {None}
  /\ chosenEdits = NoEdits
  /\ refreshed = FALSE
  /\ submission = None
-----------------------------------------------------------------------------
(***************************************************************************)
(* resolveProjectCreation.                                                 *)
(***************************************************************************)
The(S) == IF Cardinality(S) = 1 THEN CHOOSE x \in S : TRUE ELSE None
Or(edit, inferred) == IF edit # None THEN edit ELSE inferred

Repositories == {r.fullName : r \in setup.repositories}

HandoffProject == The({p \in setup.projects : p.key = handoff /\ p.repo \in Repositories})

InferredRepository ==
  LET eligible == {r \in Repositories : \E p \in setup.projects : p.repo = r}
  IN  CASE handoff # None -> IF HandoffProject = None THEN None ELSE HandoffProject.repo
        [] Cardinality(eligible) = 1 -> The(eligible)
        [] OTHER -> The(Repositories)

RepoFullName == Or(chosenEdits.repo, InferredRepository)
SelectedRepository == The({r \in setup.repositories : r.fullName = RepoFullName})
MatchingProjects ==
  {p \in setup.projects : SelectedRepository # None /\ p.repo = RepoFullName}

InferredProject ==
  IF HandoffProject # None /\ SelectedRepository # None /\ HandoffProject.repo = RepoFullName
    THEN HandoffProject
    ELSE The(MatchingProjects)

AgentProjectKey == Or(chosenEdits.key, IF InferredProject = None THEN None ELSE InferredProject.key)
SelectedProject == The({p \in MatchingProjects : p.key = AgentProjectKey})

ModelOptions ==
  IF SelectedProject = None THEN {}
  ELSE {m \in SelectedProject.agentModels : SelectedProject.models = {} \/ m.id \in SelectedProject.models}

DefaultModel == Or(chosenEdits.model, IF The(ModelOptions) = None THEN None ELSE The(ModelOptions).id)
SelectedModel == The({m \in ModelOptions : m.id = DefaultModel})

\* A model without efforts of its own is run with "medium".
ReasoningOptions ==
  IF SelectedModel = None THEN {}
  ELSE IF SelectedModel.efforts = {} THEN {"medium"} ELSE SelectedModel.efforts

InferredReasoning ==
  IF SelectedModel # None /\ SelectedModel.default \in ReasoningOptions
    THEN SelectedModel.default
    ELSE The(ReasoningOptions)

DefaultReasoning == Or(chosenEdits.effort, InferredReasoning)

ResolveDefaultBranch ==
  IF SelectedRepository = None THEN None
  ELSE CASE SelectedProject # None /\ SelectedProject.branch \in SelectedRepository.branches -> SelectedProject.branch
         [] SelectedRepository.default \in SelectedRepository.branches -> SelectedRepository.default
         [] OTHER -> The(SelectedRepository.branches)

DefaultBranch == Or(chosenEdits.branch, ResolveDefaultBranch)

Values == [repo |-> RepoFullName, key |-> AgentProjectKey, branch |-> DefaultBranch,
           model |-> DefaultModel, effort |-> DefaultReasoning]

CanCreate ==
  /\ SelectedRepository # None
  /\ SelectedProject # None
  /\ SelectedModel # None
  /\ DefaultBranch \in SelectedRepository.branches
  /\ DefaultReasoning \in ReasoningOptions
-----------------------------------------------------------------------------
(***************************************************************************)
(* The handlers: a choice takes back those that hang on it.                *)
(***************************************************************************)
Edit(to) ==
  /\ chosenEdits' = to
  /\ refreshed' = (refreshed /\ to # [NoEdits EXCEPT !.repo = to.repo])
  /\ UNCHANGED <<setup, handoff, submission>>

\* Mutant of RepositoryChange: the other choices are kept.
RepositoryChangeKeeping(repo) == Edit([chosenEdits EXCEPT !.repo = repo])
RepositoryChange(repo) == Edit([NoEdits EXCEPT !.repo = repo])

AgentProjectChange(key) ==
  Edit([chosenEdits EXCEPT !.repo = RepoFullName, !.key = key, !.model = None, !.effort = None])

ModelChange(model) == Edit([chosenEdits EXCEPT !.model = model, !.effort = None])

BranchChange(branch) == Edit([chosenEdits EXCEPT !.branch = branch])
ReasoningChange(effort) == Edit([chosenEdits EXCEPT !.effort = effort])

Choose ==
  \/ \E repo \in Repositories : RepositoryChange(repo)
  \/ \E p \in MatchingProjects : AgentProjectChange(p.key)
  \/ \E m \in ModelOptions : ModelChange(m.id)
  \/ SelectedRepository # None /\ \E branch \in SelectedRepository.branches : BranchChange(branch)
  \/ \E effort \in ReasoningOptions : ReasoningChange(effort)

\* handleRefreshSetup, or the query's own: the choices are kept.
Refresh ==
  /\ setup' \in Setups
  /\ refreshed' = (chosenEdits # NoEdits)
  /\ UNCHANGED <<handoff, chosenEdits, submission>>

Submit ==
  /\ CanCreate
  /\ submission' = [values |-> Values, setup |-> setup]
  /\ UNCHANGED <<setup, handoff, chosenEdits, refreshed>>

\* The API has answered: the form stays open when it refused.
Answer ==
  /\ submission # None
  /\ submission' = None
  /\ chosenEdits' \in {chosenEdits, NoEdits}
  /\ refreshed' = (refreshed /\ chosenEdits' = chosenEdits)
  /\ UNCHANGED <<setup, handoff>>

Next == (submission = None /\ (Choose \/ Submit)) \/ Refresh \/ Answer

FormSpec == Init /\ [][Next]_formVars
-----------------------------------------------------------------------------
\* What is submitted is one local project of one agent, with a model and an effort of
\* that agent and a branch of that repository, also when the setup was read again
\* between the choices: no two of the values are of different offers.
SubmissionIsOneOffer ==
  submission # None =>
    LET v == submission.values
    IN  \E r \in submission.setup.repositories, p \in submission.setup.projects :
          /\ r.fullName = v.repo /\ v.branch \in r.branches
          /\ p.repo = v.repo /\ p.key = v.key
          /\ \A q \in submission.setup.projects : q.repo = p.repo /\ q.key = p.key => q = p
          /\ \E m \in p.agentModels :
               /\ m.id = v.model /\ (p.models = {} \/ m.id \in p.models)
               /\ v.effort \in (IF m.efforts = {} THEN {"medium"} ELSE m.efforts)

\* As long as the setup is the one the choices were made from, every choice is still in
\* its list: no order of choices leaves behind one the developer could not make again.
ChoicesAreOnTheList ==
  ~refreshed =>
    /\ chosenEdits.branch # None => DefaultBranch \in SelectedRepository.branches
    /\ chosenEdits.key # None => \E p \in MatchingProjects : p.key = AgentProjectKey
    /\ chosenEdits.model # None => SelectedModel # None
    /\ chosenEdits.effort # None => DefaultReasoning \in ReasoningOptions
-----------------------------------------------------------------------------
(***************************************************************************)
(* What the proofs rest on.                                                *)
(***************************************************************************)
\* What is offered is finite, None is nothing of it, and a model has one id with its agent.
OffersAreLists ==
  \A s \in Setups :
    /\ IsFiniteSet(s.repositories) /\ None \notin s.repositories
    /\ IsFiniteSet(s.projects) /\ None \notin s.projects
    /\ \A p \in s.projects :
         /\ IsFiniteSet(p.agentModels) /\ None \notin p.agentModels
         /\ \A m, n \in p.agentModels : m.id = n.id => m = n

Domains ==
  /\ setup \in Setups
  /\ chosenEdits = [repo |-> chosenEdits.repo, key |-> chosenEdits.key, branch |-> chosenEdits.branch,
                    model |-> chosenEdits.model, effort |-> chosenEdits.effort]
=============================================================================
