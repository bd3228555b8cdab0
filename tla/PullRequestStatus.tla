--------------------------- MODULE PullRequestStatus ---------------------------
(***************************************************************************)
(* The pull requests of one session: CreateReviewRequestUseCase.create,    *)
(* GithubSourceControlAdapter.createReviewRequest, and the deliveries of   *)
(* GitHub's webhook, which GithubWebhooksService.handle applies to the     *)
(* rows.  GitHub's side is external: it dates a change by the second, and  *)
(* a delivery may be lost, late, repeated or overtaken by a later one.     *)
(***************************************************************************)
EXTENDS Naturals, Sequences, FiniteSets

CONSTANTS
  Requests,     \* calls of create
  MaxSeconds,   \* bound: seconds that pass
  MaxChanges,   \* bound: changes of the pull requests after their creation
  MaxLosses     \* bound: answers, transactions and processes lost

VARIABLES
  reviewable,  \* failureReasons is empty
  request,     \* per call: where it is, and the number of its pull request
  shown,       \* calls whose screenshots are stored
  second,
  pulls,       \* GitHub's pull requests of the branch, by number
  origin,      \* what a delivery says it is from: a repository's name, an installation of the App
  deliveries,  \* what GitHub has sent, each handled any number of times
  reviews,     \* the rows; "seen" is the deliveries handled since
  unanswered,  \* pull requests whose creation the API never heard of
  changes,
  losses

pullVars == <<reviewable, request, shown, second, pulls, origin, deliveries, reviews, unanswered, changes, losses>>

\* What the session's project and its source control connection have recorded.
Ours == [name |-> "project's", installation |-> "connection's"]

InFlight == {"storing", "pushing", "opening", "committing"}

Init ==
  /\ reviewable = TRUE
  /\ request = [q \in Requests |-> [at |-> "idle", number |-> 0]]
  /\ shown = {}
  /\ second = 1
  /\ pulls = <<>>
  /\ origin = Ours
  /\ deliveries = {}
  /\ reviews = <<>>
  /\ unanswered = {}
  /\ changes = 0
  /\ losses = 0

At(q, stage) == request' = [request EXCEPT ![q].at = stage]
Lose == losses < MaxLosses /\ losses' = losses + 1

\* The session is validated again, or does some other work.
ChangeReadiness ==
  /\ reviewable' = ~reviewable
  /\ UNCHANGED <<request, shown, second, pulls, origin, deliveries, reviews, unanswered, changes, losses>>
-----------------------------------------------------------------------------
(***************************************************************************)
(* create: the checks, the screenshots, the push, the pull request and the *)
(* transaction, each awaited.                                              *)
(***************************************************************************)
\* assertActorCanCreateReviewRequest: the owner or a PM of the session; then the policy.
Check(q) ==
  /\ request[q].at = "idle"
  /\ \E actor \in {"owner", "pm", "other"} :
       At(q, IF actor # "other" /\ reviewable THEN "storing" ELSE "refused")
  /\ UNCHANGED <<reviewable, shown, second, pulls, origin, deliveries, reviews, unanswered, changes, losses>>

StoreScreenshots(q) ==
  /\ request[q].at = "storing"
  /\ shown' = shown \cup {q}
  /\ At(q, "pushing")
  /\ UNCHANGED <<reviewable, second, pulls, origin, deliveries, reviews, unanswered, changes, losses>>

\* The agent pushes the branch, or the command fails.
Push(q) ==
  /\ request[q].at = "pushing"
  /\ \/ At(q, "opening") /\ UNCHANGED shown
     \/ At(q, "refused") /\ shown' = shown \ {q}
  /\ UNCHANGED <<reviewable, second, pulls, origin, deliveries, reviews, unanswered, changes, losses>>

\* GitHub has one open pull request of a branch at most.
HasOpen == \E n \in DOMAIN pulls : pulls[n].state = "open"

Opened(q) == [state |-> "open", draft |-> FALSE, merged |-> FALSE, by |-> q]
Delivery(n, pull) == [number |-> n, origin |-> origin, pull |-> pull, at |-> second]
\* Nothing is sent of a repository the App is not installed for.
Sent(n, pull) == IF origin.installation = "none" THEN {} ELSE {Delivery(n, pull)}

\* The API asks as the installation of the connection.
OpenPull(q) ==
  /\ ~HasOpen /\ origin.installation = Ours.installation
  /\ pulls' = Append(pulls, Opened(q))
  /\ deliveries' = deliveries \cup Sent(Len(pulls) + 1, Opened(q))

CreateReviewRequest(q) ==
  /\ request[q].at = "opening"
  /\ OpenPull(q)
  /\ request' = [request EXCEPT ![q] = [at |-> "committing", number |-> Len(pulls) + 1]]
  /\ UNCHANGED <<reviewable, shown, second, origin, reviews, unanswered, changes, losses>>

\* GitHub refuses, or its answer is lost: either way the screenshots are removed.
FailReviewRequest(q) ==
  /\ request[q].at = "opening"
  /\ \/ UNCHANGED <<pulls, deliveries, unanswered, losses>>
     \/ Lose /\ OpenPull(q) /\ unanswered' = unanswered \cup {Len(pulls) + 1}
  /\ shown' = shown \ {q}
  /\ At(q, "refused")
  /\ UNCHANGED <<reviewable, second, origin, reviews, changes>>

\* The row is "open", whatever has become of the pull request since.
Commit(q) ==
  /\ request[q].at = "committing"
  /\ reviews' = Append(reviews, [number |-> request[q].number, status |-> "open", statusUpdatedAt |-> 0, seen |-> {}])
  /\ reviewable' = FALSE
  /\ At(q, "done")
  /\ UNCHANGED <<shown, second, pulls, origin, deliveries, unanswered, changes, losses>>

\* The transaction fails outside the try: the pull request keeps what it shows.
FailCommit(q) ==
  /\ request[q].at = "committing"
  /\ Lose
  /\ At(q, "refused")
  /\ UNCHANGED <<reviewable, shown, second, pulls, origin, deliveries, reviews, unanswered, changes>>

\* The API's process ends: calls stop where they are.
Crash ==
  /\ Lose
  /\ request' = [q \in Requests |-> IF request[q].at \in InFlight THEN [request[q] EXCEPT !.at = "refused"] ELSE request[q]]
  /\ UNCHANGED <<reviewable, shown, second, pulls, origin, deliveries, reviews, unanswered, changes>>
-----------------------------------------------------------------------------
(***************************************************************************)
(* GitHub.                                                                 *)
(***************************************************************************)
Changed(pull) ==
  CASE pull.merged -> {pull}
    [] pull.state = "closed" -> {pull} \cup (IF HasOpen THEN {} ELSE {[pull EXCEPT !.state = "open"]})
    [] OTHER -> {pull, [pull EXCEPT !.draft = ~@], [pull EXCEPT !.state = "closed"]}
                \cup (IF pull.draft THEN {} ELSE {[pull EXCEPT !.state = "closed", !.merged = TRUE]})

\* The pull request is edited, made a draft or ready, closed, reopened or merged.
Change(n) ==
  /\ changes < MaxChanges
  /\ n \in DOMAIN pulls
  /\ \E pull \in Changed(pulls[n]) :
       /\ pulls' = [pulls EXCEPT ![n] = pull]
       /\ deliveries' = deliveries \cup Sent(n, pull)
  /\ changes' = changes + 1
  /\ UNCHANGED <<reviewable, request, shown, second, origin, reviews, unanswered, losses>>

Tick ==
  /\ second < MaxSeconds
  /\ second' = second + 1
  /\ UNCHANGED <<reviewable, request, shown, pulls, origin, deliveries, reviews, unanswered, changes, losses>>

\* The project keeps the name the repository had, and its connection the installation.
\* Bound: one of the two changes.
Rename ==
  /\ origin = Ours /\ pulls # <<>>
  /\ origin' = [origin EXCEPT !.name = "another"]
  /\ UNCHANGED <<reviewable, request, shown, second, pulls, deliveries, reviews, unanswered, changes, losses>>

\* The App is removed from the account, and installed once more under another number.
Uninstall ==
  /\ origin = Ours /\ pulls # <<>>
  /\ origin' = [origin EXCEPT !.installation = "none"]
  /\ UNCHANGED <<reviewable, request, shown, second, pulls, deliveries, reviews, unanswered, changes, losses>>

Reinstall ==
  /\ origin.installation = "none"
  /\ origin' = [origin EXCEPT !.installation = "another"]
  /\ UNCHANGED <<reviewable, request, shown, second, pulls, deliveries, reviews, unanswered, changes, losses>>
-----------------------------------------------------------------------------
(***************************************************************************)
(* A delivery that is signed and well formed.                              *)
(***************************************************************************)
ResolveReviewRequestStatus(pull) ==
  CASE pull.merged -> "merged"
    [] pull.state = "closed" -> "closed"
    [] OTHER -> IF pull.draft THEN "draft" ELSE "open"

\* Mutant of Applies: the last delivery to come wins.
AppliesAnyTime(d, row) == row.number = d.number /\ d.origin = Ours

Applies(d, row) ==
  /\ row.number = d.number
  /\ d.origin = Ours
  /\ row.statusUpdatedAt = 0 \/ row.statusUpdatedAt <= d.at

Updated(row, d) == [row EXCEPT !.status = ResolveReviewRequestStatus(d.pull), !.statusUpdatedAt = d.at]

Handle(d) ==
  /\ reviews' = [i \in DOMAIN reviews |->
       LET row == IF Applies(d, reviews[i]) THEN Updated(reviews[i], d) ELSE reviews[i]
       IN  IF d.number = row.number THEN [row EXCEPT !.seen = @ \cup {d}] ELSE row]
  /\ UNCHANGED <<reviewable, request, shown, second, pulls, origin, deliveries, unanswered, changes, losses>>

Next ==
  \/ ChangeReadiness \/ Crash \/ Tick \/ Rename \/ Uninstall \/ Reinstall
  \/ \E q \in Requests :
       \/ Check(q) \/ StoreScreenshots(q) \/ Push(q)
       \/ CreateReviewRequest(q) \/ FailReviewRequest(q) \/ Commit(q) \/ FailCommit(q)
  \/ \E n \in DOMAIN pulls : Change(n)
  \/ \E d \in deliveries : Handle(d)

PullSpec == Init /\ [][Next]_pullVars
-----------------------------------------------------------------------------
Of(n) == {d \in deliveries : d.number = n}
\* The deliveries of the last second in which the pull request changed.
Last(n) == {d \in Of(n) : \A e \in Of(n) : e.at <= d.at}

\* A row whose pull request's last delivery has been handled since it was written
\* shows what the pull request is, in whatever order the deliveries came and however
\* often, unless two states share that second, the repository has another name or the
\* App was removed, after which no delivery finds the row any more.
StatusIsCurrent ==
  \A i \in DOMAIN reviews :
    LET n == reviews[i].number
    IN  /\ origin = Ours
        /\ Last(n) \cap reviews[i].seen # {}
        /\ \A d, e \in Last(n) : d.pull = e.pull
        => reviews[i].status = ResolveReviewRequestStatus(pulls[n])

\* The screenshots a pull request's description links to stay stored, also when the
\* transaction after it fails: only those of one the API never heard of are gone.
PublishedScreenshotsStay ==
  \A n \in DOMAIN pulls : pulls[n].by \in shown \/ n \in unanswered
-----------------------------------------------------------------------------
(***************************************************************************)
(* What the proofs rest on.                                                *)
(***************************************************************************)
Origins == [name : {"project's", "another"}, installation : {"connection's", "none", "another"}]
Pulls == [state : {"open", "closed"}, draft : BOOLEAN, merged : BOOLEAN, by : Requests]
Deliveries == [number : Nat, origin : Origins, pull : Pulls, at : Nat]
Rows ==
  [number : Nat, status : {"open", "draft", "closed", "merged"}, statusUpdatedAt : Nat, seen : SUBSET Deliveries]

Domains ==
  /\ request \in [Requests -> [at : {"idle", "refused", "done"} \cup InFlight, number : Nat]]
  /\ second \in Nat \ {0}
  /\ pulls \in Seq(Pulls)
  /\ origin \in Origins
  /\ deliveries \in SUBSET Deliveries
  /\ reviews \in Seq(Rows)

\* A call has no pull request before it opens one, and stores the screenshots first.
CallsComeBeforePulls ==
  /\ \A q \in Requests :
       /\ request[q].at \in {"idle", "storing", "pushing", "opening"} => \A n \in DOMAIN pulls : pulls[n].by # q
       /\ request[q].at \in {"pushing", "opening"} => q \in shown
       /\ request[q].at = "committing" => request[q].number \in DOMAIN pulls
  /\ PublishedScreenshotsStay

\* One of the last deliveries of a pull request shows it as it is.
IsLast(d, all, n) == d \in all /\ d.number = n /\ \A e \in all : e.number = n => e.at <= d.at
DeliveriesAreOfPulls ==
  /\ \A d \in deliveries : d.number \in DOMAIN pulls /\ d.at <= second /\ d.at # 0
  /\ origin = Ours => \A d \in deliveries : d.origin = Ours
  /\ origin = Ours => \A n \in DOMAIN pulls : \E d \in deliveries : IsLast(d, deliveries, n) /\ d.pull = pulls[n]

\* A row shows the latest of the deliveries handled since it was written.
ShowsLatest(row) ==
  \/ row.seen = {} /\ row.statusUpdatedAt = 0
  \/ \E d \in row.seen :
       /\ row.statusUpdatedAt = d.at /\ row.status = ResolveReviewRequestStatus(d.pull)
       /\ \A e \in row.seen : e.at <= d.at
RowsShowTheLatest ==
  \A i \in DOMAIN reviews :
    /\ reviews[i].number \in DOMAIN pulls
    /\ \A d \in reviews[i].seen : d \in deliveries /\ d.number = reviews[i].number
    /\ origin = Ours => ShowsLatest(reviews[i])
=============================================================================
