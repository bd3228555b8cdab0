----------------------------- MODULE ReviewComposer -----------------------------
(***************************************************************************)
(* The before/after panel of a session's page and the dialog in which a    *)
(* participant writes the pull request.  Uploads, the reads of the list,   *)
(* the reading of the captures for the dialog and the submissions are      *)
(* under way at the same time, and other participants import too.          *)
(***************************************************************************)
EXTENDS Naturals, Sequences, FiniteSets

CONSTANTS
  None,
  Comparisons,
  MaxPosts     \* bound: submissions

VARIABLES
  stored,      \* the session's comparisons: their order, the last first, and the complete ones
  listed,      \* the comparisons the page shows, as a list was read
  listing,     \* the read of the list: "none", "asked" or "answered"
  activity,     \* "idle", "working", or "awaiting" a validation, as the page shows it
  picked,      \* selectedId: None, "new" or a comparison
  chooser,     \* None, or the file chooser of an input: the stage and what was shown when it opened
  importing,   \* None, or the upload under way
  attaching,   \* None, or the comparison whose captures are read for the dialog
  dialog,      \* None, or the open dialog: the comparison whose captures it was opened with
  posts,       \* submissions under way
  observed,    \* the submission the page takes for its own, 0 when it has none
  posted,      \* submissions made
  overtaken    \* an attachment was ready during a submission

composerVars ==
  <<stored, listed, listing, activity, picked, chooser, importing, attaching, dialog, posts, observed, posted, overtaken>>
panelVars == <<listed, listing, picked, chooser, importing, attaching>>
dialogVars == <<dialog, posts, observed, posted, overtaken>>

Empty == [order |-> <<>>, complete |-> {}]
NoRead == [at |-> "none", with |-> Empty]
Asked == [at |-> "asked", with |-> Empty]

Init ==
  /\ stored = Empty
  /\ listed = Empty
  /\ listing = NoRead
  /\ activity = "idle"
  /\ picked = None
  /\ chooser = None
  /\ importing = None
  /\ attaching = None
  /\ dialog = None
  /\ posts = {}
  /\ observed = 0
  /\ posted = 0
  /\ overtaken = FALSE

In(c, list) == \E i \in 1..Len(list.order) : list.order[i] = c

\* The one that was picked if the list has it, the last one otherwise.
Selected ==
  IF In(picked, listed) THEN picked
  ELSE IF listed.order # <<>> THEN Head(listed.order) ELSE None

IsNew == picked = "new" \/ Selected = None
CanWrite == activity # "working"
\* getReviewRequestBlockedReason.
Blocked == activity # "awaiting"
Busy == importing # None \/ attaching # None
\* The dialog and the file chooser are in front of the panel.
Reachable == dialog = None /\ chooser = None

Change ==
  /\ activity' \in {"idle", "working", "awaiting"} \ {activity}
  /\ UNCHANGED <<stored, panelVars, dialogVars>>
-----------------------------------------------------------------------------
(***************************************************************************)
(* The list: read every ten seconds.                                       *)
(***************************************************************************)
AskList ==
  /\ listing = NoRead
  /\ listing' = Asked
  /\ UNCHANGED <<stored, listed, activity, picked, chooser, importing, attaching, dialogVars>>

ServeList ==
  /\ listing = Asked
  /\ listing' = [at |-> "answered", with |-> stored]
  /\ UNCHANGED <<stored, listed, activity, picked, chooser, importing, attaching, dialogVars>>

EndList ==
  /\ listing.at = "answered"
  /\ listed' = listing.with
  /\ listing' = NoRead
  /\ UNCHANGED <<stored, activity, picked, chooser, importing, attaching, dialogVars>>

FailList ==
  /\ listing # NoRead
  /\ listing' = NoRead
  /\ UNCHANGED <<stored, listed, activity, picked, chooser, importing, attaching, dialogVars>>

Pick(choice) ==
  /\ Reachable /\ ~Busy
  /\ IF choice = "new"
       THEN CanWrite /\ listed.order # <<>> /\ ~IsNew
       ELSE In(choice, listed) /\ (Len(listed.order) > 1 \/ IsNew)
  /\ picked' = choice
  /\ UNCHANGED <<stored, listed, listing, activity, chooser, importing, attaching, dialogVars>>
-----------------------------------------------------------------------------
(***************************************************************************)
(* Importing a capture.                                                    *)
(***************************************************************************)
OpenChooser ==
  /\ Reachable /\ ~Busy /\ CanWrite
  /\ chooser' = [stage |-> IF IsNew THEN "before" ELSE "after", shown |-> Selected, explicit |-> picked = Selected]
  /\ UNCHANGED <<stored, listed, listing, activity, picked, importing, attaching, dialogVars>>

\* handleBefore and handleAfter see the panel as it is now; the input may have gone.
Choose ==
  /\ chooser # None
  /\ chooser' = None
  /\ importing' = IF ~CanWrite \/ IsNew # (chooser.stage = "before") THEN None
                  ELSE [at |-> "sent", after |-> ~IsNew, of |-> IF IsNew THEN "new" ELSE Selected,
                        meant |-> IF chooser.explicit THEN chooser.shown ELSE None]
  /\ UNCHANGED <<stored, listed, listing, activity, picked, attaching, dialogVars>>

\* importPreviewCapture of the API, for this page or for another participant.
Added(c) == [order |-> <<c>> \o stored.order, complete |-> stored.complete]
Completed(c) == [stored EXCEPT !.complete = @ \cup {c}]

StoreImport ==
  /\ importing # None /\ importing.at = "sent"
  /\ IF importing.of = "new"
       THEN \E c \in Comparisons :
              /\ ~In(c, stored)
              /\ stored' = Added(c)
              /\ importing' = [importing EXCEPT !.at = "stored", !.of = c]
       ELSE /\ stored' = Completed(importing.of)
            /\ importing' = [importing EXCEPT !.at = "stored"]
  /\ UNCHANGED <<listed, listing, activity, picked, chooser, attaching, dialogVars>>

ImportElsewhere ==
  /\ \E c \in Comparisons : stored' = IF In(c, stored) THEN Completed(c) ELSE Added(c)
  /\ stored' # stored
  /\ UNCHANGED <<activity, panelVars, dialogVars>>

\* The comparison first, and the others as they were: a list has none of them twice.
Fronted(c, order) ==
  LET places == {i \in 1..Len(order) : order[i] = c}
      place == CHOOSE i \in places : TRUE
  IN  IF places = {} THEN <<c>> \o order
      ELSE [i \in 1..Len(order) |-> IF i = 1 THEN c ELSE IF i <= place THEN order[i - 1] ELSE order[i]]

\* Mutant of EndImport: the read of the list under way goes on.
EndImportUncancelled ==
  /\ importing # None /\ importing.at = "stored"
  /\ LET c == importing.of IN
       /\ listed' = [order |-> Fronted(c, listed.order),
                     complete |-> IF importing.after THEN listed.complete \cup {c} ELSE listed.complete \ {c}]
       /\ picked' = c
  /\ listing' = IF listing = NoRead THEN Asked ELSE listing
  /\ importing' = None
  /\ UNCHANGED <<stored, activity, chooser, attaching, dialogVars>>

\* onSuccess: the read under way, which may be older than the capture, is cancelled; the
\* comparison is shown first, picked, and the list read again.
EndImport ==
  /\ importing # None /\ importing.at = "stored"
  /\ LET c == importing.of IN
       /\ listed' = [order |-> Fronted(c, listed.order),
                     complete |-> IF importing.after THEN listed.complete \cup {c} ELSE listed.complete \ {c}]
       /\ picked' = c
  /\ listing' = Asked
  /\ importing' = None
  /\ UNCHANGED <<stored, activity, chooser, attaching, dialogVars>>

\* Refused, or stored and the answer lost.
FailImport ==
  /\ importing # None
  /\ importing' = None
  /\ UNCHANGED <<stored, listed, listing, activity, picked, chooser, attaching, dialogVars>>
-----------------------------------------------------------------------------
(***************************************************************************)
(* The dialog.                                                             *)
(***************************************************************************)

\* The dialog takes its draft and captures when it is mounted: one that is open keeps its own.
Opened(captures) == IF dialog = None THEN [captures |-> captures, edited |-> FALSE] ELSE dialog

\* openReviewDialog: resetReviewRequest makes the page forget a submission under way.
OpenReviewDialog(captures) ==
  /\ observed' = 0
  /\ dialog' = Opened(captures)

OpenDialog ==
  /\ Reachable /\ ~Blocked /\ observed = 0
  /\ OpenReviewDialog(None)
  /\ UNCHANGED <<stored, activity, panelVars, posts, posted, overtaken>>

Attach ==
  /\ Reachable /\ ~Busy /\ ~Blocked
  /\ ~IsNew /\ Selected \in listed.complete
  /\ attaching' = Selected
  /\ UNCHANGED <<stored, listed, listing, activity, picked, chooser, importing, dialogVars>>

\* handleUseComparisonInReview, which asks the session once more.
EndAttach ==
  /\ attaching # None /\ ~Blocked
  /\ attaching' = None
  /\ OpenReviewDialog(attaching)
  /\ overtaken' = (overtaken \/ observed # 0)
  /\ UNCHANGED <<stored, listed, listing, activity, picked, chooser, importing, posts, posted>>

FailAttach ==
  /\ attaching # None
  /\ attaching' = None
  /\ UNCHANGED <<stored, listed, listing, activity, picked, chooser, importing, dialogVars>>

Edit ==
  /\ dialog # None /\ observed = 0
  /\ dialog' = [dialog EXCEPT !.edited = TRUE]
  /\ UNCHANGED <<stored, activity, panelVars, posts, observed, posted, overtaken>>

CloseDialog ==
  /\ dialog # None /\ observed = 0
  /\ dialog' = None
  /\ UNCHANGED <<stored, activity, panelVars, posts, observed, posted, overtaken>>

\* handleSubmit.
MaySubmit == dialog # None /\ ~Blocked /\ observed = 0

Submit ==
  /\ MaySubmit /\ posted < MaxPosts
  /\ posted' = posted + 1
  /\ posts' = posts \cup {posted + 1}
  /\ observed' = posted + 1
  /\ UNCHANGED <<stored, activity, panelVars, dialog, overtaken>>

\* The submission that ends closes the dialog, whichever that is; one that fails leaves it.
EndSubmit(p) ==
  /\ p \in posts
  /\ posts' = posts \ {p}
  /\ observed' = IF observed = p THEN 0 ELSE observed
  /\ dialog' \in {None, dialog}
  /\ UNCHANGED <<stored, activity, panelVars, posted, overtaken>>

Next ==
  \/ Change \/ AskList \/ ServeList \/ EndList \/ FailList
  \/ \E choice \in Comparisons \cup {"new"} : Pick(choice)
  \/ OpenChooser \/ Choose \/ StoreImport \/ ImportElsewhere \/ EndImport \/ FailImport
  \/ OpenDialog \/ Attach \/ EndAttach \/ FailAttach \/ Edit \/ CloseDialog \/ Submit
  \/ \E p \in posts : EndSubmit(p)

ComposerSpec == Init /\ [][Next]_composerVars
-----------------------------------------------------------------------------
\* The capture of a comparison that was picked goes to that comparison, whatever lists
\* arrived while its file was chosen: a list older than the comparison never hides it.
CapturesGoWhereMeant ==
  importing # None /\ importing.meant # None => importing.of = importing.meant

\* A submission is not made twice at a time, unless captures that became ready in between
\* made the page forget the first.
SubmissionsAreAlone == Cardinality(posts) > 1 => overtaken

\* What a participant wrote stays in the dialog until it closes: captures that become
\* ready under it replace neither its text nor its files.
EditStep ==
  dialog # None /\ dialog' # None => dialog'.captures = dialog.captures /\ (dialog.edited => dialog'.edited)
-----------------------------------------------------------------------------
(***************************************************************************)
(* What the proofs rest on.                                                *)
(***************************************************************************)
Lists == [order : Seq(Comparisons), complete : SUBSET Comparisons]
Imports ==
  [at : {"sent", "stored"}, after : BOOLEAN, of : Comparisons \cup {"new"}, meant : Comparisons \cup {None}]

Domains ==
  /\ stored \in Lists /\ listed \in Lists
  /\ listing \in [at : {"none", "asked", "answered"}, with : Lists]
  /\ picked \in Comparisons \cup {"new", None}
  /\ chooser # None =>
       /\ chooser.shown \in Comparisons \cup {None}
       /\ chooser.explicit => chooser.shown = picked
  /\ importing \in Imports \cup {None}

\* The session has what an answered list has, and that what the page shows: a list is never
\* older than the one before it.
ListsGrow ==
  /\ \A c \in Comparisons : In(c, listed) => In(c, stored)
  /\ listing.at = "answered" =>
       \A c \in Comparisons : (In(c, listed) => In(c, listing.with)) /\ (In(c, listing.with) => In(c, stored))

\* What is picked or imported is a comparison that is there, and one thing goes on at a time.
ChoicesAreThere ==
  /\ picked \in Comparisons => In(picked, listed)
  /\ chooser # None => importing = None
  /\ importing # None => IF importing.of = "new" THEN importing.at = "sent" ELSE In(importing.of, stored)

\* A submission that the page has forgotten was forgotten for captures.
SubmissionsAreObserved ==
  /\ observed \in Nat /\ posted \in Nat
  /\ ~overtaken => posts = IF observed = 0 THEN {} ELSE {observed}
=============================================================================
