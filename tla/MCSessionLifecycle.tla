-------------------------- MODULE MCSessionLifecycle --------------------------
(***************************************************************************)
(* Model-checking instances of SessionLifecycle.  Each .cfg chooses the    *)
(* requests that race and the faults that may happen; the drafts, repairs  *)
(* and faults are bounded.                                                 *)
(***************************************************************************)
EXTENDS SessionLifecycle, TLC

CONSTANTS p1, p2, p3, c1, c2, r1, r2

None == {}
OnePrompt == {p1}
TwoPrompts == {p1, p2}
ThreePrompts == {p1, p2, p3}
OneCloser == {c1}
OneReview == {r1}
TwoReviews == {r1, r2}

\* State constraint: the members of the session wait for a prompt to end
\* before they send the next one.
OneAtATime ==
  \A p, q \in Prompts :
    req[p] # "idle" /\ req[q] # "idle" /\ p # q => flow[p].at = "done" \/ flow[q].at = "done"

\* State constraint: a review and a prompt without a repair meet events given up and losses
\* of the connection, two prompts with repairs meet a crash.
ReviewOrRace ==
  \/ (\A p \in Prompts \ {p1} : req[p] = "idle") /\ turn[p1].repairs = 0 /\ faults.crashes = 0
  \/ (\A r \in Reviews : req[r] = "idle") /\ faults.timeouts = 0 /\ faults.drops = 0
=============================================================================
