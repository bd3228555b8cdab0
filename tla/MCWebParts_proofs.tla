--------------------------- MODULE MCWebParts_proofs ---------------------------
(***************************************************************************)
(* The parts of MCParts that are pages of the web application, proved for  *)
(* any queries, comparisons, jobs, choices and messages, as the parts of   *)
(* the API are in MCParts_proofs.                                          *)
(***************************************************************************)
EXTENDS MCParts_proofs
-----------------------------------------------------------------------------
(***************************************************************************)
(* The page of a session.                                                  *)
(***************************************************************************)
PageInv == Page!Domains /\ Page!ReadsAreCurrent /\ Page!PromptsAreRead

LEMMA PageInit == Page!Init => PageInv
<1> SUFFICES ASSUME Page!Init
             PROVE  PageInv
  OBVIOUS
<1> USE DEF Page!Init, Page!NoRead
<1>1. Page!Domains
  BY DEF Page!Domains, Page!Reads
<1>2. Page!ReadsAreCurrent
  BY DEF Page!ReadsAreCurrent
<1>3. Page!PromptsAreRead
  BY DEF Page!PromptsAreRead
<1> QED
  BY <1>1, <1>2, <1>3 DEF PageInv

LEMMA PageStep ==
  ASSUME Messages \in Queries, None \notin SUBSET Page!Changes
  PROVE  PageInv /\ [Page!Next]_(Page!vars) => PageInv'
<1> SUFFICES ASSUME PageInv, [Page!Next]_(Page!vars)
             PROVE  PageInv'
  OBVIOUS
<1> USE DEF PageInv, Page!Refreshed
<1>1. CASE \E r \in Reports : Page!Report(r)
  BY <1>1 DEF Page!Report, Page!Domains, Page!Reads, Page!NoRead, Page!Asked, Page!Changes,
         Page!ReadsAreCurrent, Page!PromptsAreRead
<1>2. CASE \E r \in Reports : Page!Announce(r)
  BY <1>2 DEF Page!Announce, Page!Domains, Page!Reads, Page!NoRead, Page!Asked, Page!Changes,
         Page!ReadsAreCurrent, Page!PromptsAreRead
<1>3. CASE \E o \in Others : Page!ChangeUnannounced(o)
  BY <1>3 DEF Page!ChangeUnannounced, Page!Domains, Page!Reads, Page!NoRead, Page!Asked, Page!Changes,
         Page!ReadsAreCurrent, Page!PromptsAreRead
<1>4. CASE Page!Join
  BY <1>4 DEF Page!Join, Page!Domains, Page!Reads, Page!NoRead, Page!Asked, Page!Changes,
         Page!ReadsAreCurrent, Page!PromptsAreRead
<1>5. CASE Page!Mount
  BY <1>5 DEF Page!Mount, Page!Domains, Page!Reads, Page!NoRead, Page!Asked, Page!Changes,
         Page!ReadsAreCurrent, Page!PromptsAreRead
<1>6. CASE Page!Unmount
  BY <1>6 DEF Page!Unmount, Page!Domains, Page!Reads, Page!NoRead, Page!Asked, Page!Changes,
         Page!ReadsAreCurrent, Page!PromptsAreRead
<1>7. CASE Page!Connect
  BY <1>7 DEF Page!Connect, Page!Domains, Page!Reads, Page!NoRead, Page!Asked, Page!Changes,
         Page!ReadsAreCurrent, Page!PromptsAreRead
<1>8. CASE Page!Drop
  BY <1>8 DEF Page!Drop, Page!Domains, Page!Reads, Page!NoRead, Page!Asked, Page!Changes,
         Page!ReadsAreCurrent, Page!PromptsAreRead
<1>9. CASE Page!Notice
  BY <1>9 DEF Page!Notice, Page!Domains, Page!Reads, Page!NoRead, Page!Asked, Page!Changes,
         Page!ReadsAreCurrent, Page!PromptsAreRead
<1>10. CASE \E q \in Queries : Page!Answer(q)
  <2>1. PICK q \in Queries : Page!Answer(q)
    BY <1>10
  <2>2. Page!Domains'
    BY <2>1 DEF Page!Answer, Page!Domains, Page!Reads, Page!NoRead, Page!Asked, Page!Changes
  <2>3. Page!ReadsAreCurrent'
    <3> SUFFICES ASSUME v6' = "joined", v7' = 0, NEW k \in Queries
                 PROVE  \/ v8'[k] = Page!NoRead /\ (k \in v10' \/ v3' \subseteq v9'[k])
                        \/ v8'[k] = Page!Asked
                        \/ v8'[k].at = "answered" /\ v3' \subseteq v8'[k].with
      BY DEF Page!ReadsAreCurrent, Page!NoRead, Page!Asked
    <3>1. \/ v8[k] = Page!NoRead /\ (k \in v10 \/ v3 \subseteq v9[k])
          \/ v8[k] = Page!Asked
          \/ v8[k].at = "answered" /\ v3 \subseteq v8[k].with
      BY <2>1 DEF Page!Answer, Page!ReadsAreCurrent
    <3>2. CASE k # q
      BY <2>1, <3>1, <3>2 DEF Page!Answer, Page!Domains
    <3>3. CASE k = q
      BY <2>1, <3>1, <3>3 DEF Page!Answer, Page!Domains, Page!NoRead, Page!Asked
    <3> QED
      BY <3>2, <3>3
  <2>4. Page!PromptsAreRead'
    BY <2>1 DEF Page!Answer, Page!Domains, Page!Reads, Page!NoRead, Page!Asked, Page!PromptsAreRead
  <2> QED
    BY <2>2, <2>3, <2>4
<1>11. CASE \E q \in Queries : Page!Receive(q)
  <2>1. PICK q \in Queries : Page!Receive(q)
    BY <1>11
  <2>2. Page!Domains'
    BY <2>1 DEF Page!Receive, Page!Domains, Page!Reads, Page!NoRead, Page!Asked, Page!Changes
  <2>3. Page!ReadsAreCurrent'
    <3> SUFFICES ASSUME v6' = "joined", v7' = 0, NEW k \in Queries
                 PROVE  \/ v8'[k] = Page!NoRead /\ (k \in v10' \/ v3' \subseteq v9'[k])
                        \/ v8'[k] = Page!Asked
                        \/ v8'[k].at = "answered" /\ v3' \subseteq v8'[k].with
      BY DEF Page!ReadsAreCurrent, Page!NoRead, Page!Asked
    <3>1. \/ v8[k] = Page!NoRead /\ (k \in v10 \/ v3 \subseteq v9[k])
          \/ v8[k] = Page!Asked
          \/ v8[k].at = "answered" /\ v3 \subseteq v8[k].with
      BY <2>1 DEF Page!Receive, Page!ReadsAreCurrent
    <3>2. CASE k # q
      BY <2>1, <3>1, <3>2 DEF Page!Receive, Page!Domains
    <3>3. CASE k = q
      BY <2>1, <3>1, <3>3 DEF Page!Receive, Page!Domains, Page!NoRead, Page!Asked
    <3> QED
      BY <3>2, <3>3
  <2>4. Page!PromptsAreRead'
    BY <2>1 DEF Page!Receive, Page!Domains, Page!Reads, Page!NoRead, Page!Asked, Page!PromptsAreRead
  <2> QED
    BY <2>2, <2>3, <2>4
<1>12. CASE \E q \in Queries : Page!FailRead(q)
  <2>1. Page!Domains'
    BY <1>12 DEF Page!FailRead, Page!Domains, Page!Reads, Page!NoRead, Page!Asked, Page!Changes
  <2>2. Page!ReadsAreCurrent'
    BY <1>12 DEF Page!FailRead, Page!Domains, Page!Reads, Page!NoRead, Page!Asked, Page!ReadsAreCurrent
  <2>3. Page!PromptsAreRead'
    BY <1>12 DEF Page!FailRead, Page!Domains, Page!Reads, Page!NoRead, Page!Asked, Page!PromptsAreRead
  <2> QED
    BY <2>1, <2>2, <2>3
<1>13. CASE \E p \in Prompts : Page!StorePrompt(p)
  BY <1>13 DEF Page!StorePrompt, Page!Domains, Page!Reads, Page!NoRead, Page!Asked, Page!Changes,
         Page!ReadsAreCurrent, Page!PromptsAreRead
<1>14. CASE \E p \in Prompts : Page!SendPrompt(p)
  BY <1>14 DEF Page!SendPrompt, Page!Domains, Page!Reads, Page!NoRead, Page!Asked, Page!Changes,
         Page!ReadsAreCurrent, Page!PromptsAreRead
<1>15. CASE \E p \in Prompts : Page!Acknowledge(p)
  BY <1>15 DEF Page!Acknowledge, Page!Domains, Page!Reads, Page!NoRead, Page!Asked, Page!Changes,
         Page!ReadsAreCurrent, Page!PromptsAreRead
<1>16. CASE \E p \in Prompts : Page!FailPrompt(p)
  BY <1>16 DEF Page!FailPrompt, Page!Domains, Page!Reads, Page!NoRead, Page!Asked, Page!Changes,
         Page!ReadsAreCurrent, Page!PromptsAreRead
<1>17. CASE UNCHANGED Page!vars
  BY <1>17 DEF Page!vars, Page!Domains, Page!Reads, Page!NoRead, Page!Asked, Page!Changes,
         Page!ReadsAreCurrent, Page!PromptsAreRead
<1> QED
  BY <1>1, <1>2, <1>3, <1>4, <1>5, <1>6, <1>7, <1>8, <1>9, <1>10, <1>11, <1>12, <1>13, <1>14, <1>15, <1>16,
     <1>17 DEF Page!Next

\* A quiet page shows every event that was announced, and every prompt that was acknowledged,
\* for any queries, events and prompts.
THEOREM PageIsCurrent ==
  ASSUME Messages \in Queries, None \notin SUBSET Page!Changes
  PROVE  PartsSpec => []PageMissesNothing
<1>1. PartsInit /\ part = "page" => Page!Init
  BY DEF PartsInit
<1>2. [PartsNext]_all /\ part = "page" => [Page!Next]_(Page!vars)
  BY DEF PartsNext, all, Page!vars
<1>3. [PartsNext]_all => (part = "page" <=> (part = "page")')
  BY PartStays
<1>4. PageInv => Page!QuietPagesAreCurrent /\ Page!AcknowledgedStays
  BY DEF PageInv, Page!ReadsAreCurrent, Page!PromptsAreRead, Page!QuietPagesAreCurrent,
         Page!AcknowledgedStays, Page!NoRead, Page!Asked, Page!Shown
<1>5. (part = "page" => PageInv) => PageMissesNothing
  BY <1>4 DEF PageMissesNothing
<1> QED
  BY <1>1, <1>2, <1>3, <1>5, PageInit, PageStep, PTL DEF PartsSpec
-----------------------------------------------------------------------------
(***************************************************************************)
(* The captures and the dialog of a review request.                        *)
(***************************************************************************)
ComposerInv ==
  /\ Composer!Domains /\ Composer!ListsGrow /\ Composer!ChoicesAreThere
  /\ Composer!SubmissionsAreObserved /\ Composer!CapturesGoWhereMeant

\* A comparison that goes to the front is there, and nothing else has come.
LEMMA FrontedIs ==
  ASSUME NEW order \in Seq(Comparisons), NEW c \in Comparisons
  PROVE  /\ Composer!Fronted(c, order) \in Seq(Comparisons)
         /\ \E i \in 1..Len(Composer!Fronted(c, order)) : Composer!Fronted(c, order)[i] = c
         /\ \A i \in 1..Len(Composer!Fronted(c, order)) :
              Composer!Fronted(c, order)[i] = c \/ \E j \in 1..Len(order) : order[j] = Composer!Fronted(c, order)[i]
<1> DEFINE places == {i \in 1..Len(order) : order[i] = c}
           place == CHOOSE i \in places : TRUE
           new == Composer!Fronted(c, order)
<1>1. Len(order) \in Nat /\ \A i \in 1..Len(order) : order[i] \in Comparisons
  OBVIOUS
<1>2. CASE places = {}
  <2>1. new = <<c>> \o order
    BY <1>2 DEF Composer!Fronted
  <2>2. /\ new \in Seq(Comparisons) /\ Len(new) = Len(order) + 1 /\ new[1] = c
        /\ \A i \in 2..(Len(order) + 1) : new[i] = order[i - 1]
    BY <1>1, <2>1
  <2> HIDE DEF new
  <2>3. \A i \in 1..Len(new) : i = 1 \/ (i \in 2..(Len(order) + 1) /\ i - 1 \in 1..Len(order))
    BY <1>1, <2>2
  <2>4. 1 \in 1..Len(new)
    BY <1>1, <2>2
  <2> QED
    BY <2>2, <2>3, <2>4 DEF new
<1>3. CASE places # {}
  <2>1. place \in 1..Len(order)
    BY <1>3
  <2> HIDE DEF place
  <2>2. new = [i \in 1..Len(order) |-> IF i = 1 THEN c ELSE IF i <= place THEN order[i - 1] ELSE order[i]]
    BY <1>3 DEF Composer!Fronted, place
  <2> HIDE DEF new
  <2>3. \A i \in 1..Len(order) : new[i] = c \/ \E j \in 1..Len(order) : order[j] = new[i]
    <3> TAKE i \in 1..Len(order)
    <3>1. CASE i = 1
      BY <2>2, <3>1
    <3>2. CASE i # 1 /\ i <= place
      <4>1. i - 1 \in 1..Len(order) /\ new[i] = order[i - 1]
        BY <1>1, <2>2, <3>2
      <4> QED
        BY <4>1
    <3>3. CASE i # 1 /\ ~(i <= place)
      BY <2>2, <3>3
    <3> QED
      BY <3>1, <3>2, <3>3
  <2>4. \A i \in 1..Len(order) : new[i] \in Comparisons
    BY <1>1, <2>3
  <2>5. new \in Seq(Comparisons) /\ Len(new) = Len(order)
    BY <1>1, <2>2, <2>4
  <2>6. 1 \in 1..Len(order) /\ new[1] = c
    BY <1>1, <2>1, <2>2
  <2> QED
    BY <2>3, <2>5, <2>6 DEF new
<1> QED
  BY <1>2, <1>3

\* What the list has, and its order.
LEMMA SelectedIs ==
  ASSUME v2 \in Composer!Lists
  PROVE  /\ Composer!Selected \in Comparisons \cup {None}
         /\ Composer!Selected # None => Composer!In(Composer!Selected, v2)
<1>1. v2.order \in Seq(Comparisons)
  BY DEF Composer!Lists
<1>2. CASE Composer!In(v5, v2)
  <2>1. PICK i \in 1..Len(v2.order) : v2.order[i] = v5
    BY <1>2 DEF Composer!In
  <2> QED
    BY <1>1, <1>2, <2>1 DEF Composer!Selected
<1>3. CASE ~Composer!In(v5, v2) /\ v2.order # <<>>
  <2>1. 1 \in 1..Len(v2.order) /\ Head(v2.order) = v2.order[1]
    BY <1>1, <1>3
  <2>2. Composer!Selected = v2.order[1]
    BY <1>3, <2>1 DEF Composer!Selected
  <2> QED
    BY <1>1, <2>1, <2>2 DEF Composer!In
<1>4. CASE ~Composer!In(v5, v2) /\ v2.order = <<>>
  BY <1>4 DEF Composer!Selected
<1> QED
  BY <1>2, <1>3, <1>4

\* A comparison that is stored or completed takes none away.
LEMMA StoredGrows ==
  ASSUME v1 \in Composer!Lists, NEW c \in Comparisons
  PROVE  /\ Composer!Added(c) \in Composer!Lists /\ Composer!Completed(c) \in Composer!Lists
         /\ Composer!In(c, Composer!Added(c))
         /\ \A d : Composer!In(d, v1) => Composer!In(d, Composer!Added(c)) /\ Composer!In(d, Composer!Completed(c))
<1> DEFINE order == <<c>> \o v1.order
<1>1. v1.order \in Seq(Comparisons) /\ Len(v1.order) \in Nat
  BY DEF Composer!Lists
<1>2. /\ order \in Seq(Comparisons) /\ Len(order) = Len(v1.order) + 1 /\ order[1] = c
      /\ \A i \in 1..Len(v1.order) : order[i + 1] = v1.order[i]
  BY <1>1
<1>3. Composer!Added(c) = [order |-> order, complete |-> v1.complete]
  BY DEF Composer!Added
<1> HIDE DEF order
<1>4. Composer!Added(c) \in Composer!Lists /\ Composer!Added(c).order = order
  BY <1>2, <1>3 DEF Composer!Lists
<1>5. Composer!Completed(c) \in Composer!Lists /\ Composer!Completed(c).order = v1.order
  BY DEF Composer!Completed, Composer!Lists
<1>6. Composer!In(c, Composer!Added(c))
  <2>1. 1 \in 1..Len(order)
    BY <1>1, <1>2
  <2> QED
    BY <1>2, <1>4, <2>1 DEF Composer!In
<1>7. ASSUME NEW d, Composer!In(d, v1)
      PROVE  Composer!In(d, Composer!Added(c)) /\ Composer!In(d, Composer!Completed(c))
  <2>1. PICK i \in 1..Len(v1.order) : v1.order[i] = d
    BY <1>7 DEF Composer!In
  <2>2. i + 1 \in 1..Len(order) /\ order[i + 1] = d
    BY <1>1, <1>2, <2>1
  <2> QED
    BY <1>4, <1>5, <2>1, <2>2 DEF Composer!In
<1> QED
  BY <1>4, <1>5, <1>6, <1>7

\* The composer counts as everybody does.
LEMMA ComposerCounts == \A S : Composer!Cardinality(S) = Cardinality(S)
BY DEF Composer!Cardinality, Cardinality

\* Nobody is alone, and so is one.
LEMMA NoneIsAlone == Composer!Cardinality({}) = 0 /\ \A p : Composer!Cardinality({p}) = 1
BY FS_EmptySet, FS_Singleton, ComposerCounts

LEMMA SubmissionsAlone == ComposerInv => Composer!SubmissionsAreAlone
<1>1. ComposerInv /\ ~v13 => v10 = {} \/ v10 = {v11}
  BY DEF ComposerInv, Composer!SubmissionsAreObserved
<1>2. v10 = {} => ~(Composer!Cardinality(v10) > 1)
  BY NoneIsAlone
<1>3. Composer!Cardinality({v11}) = 1
  BY NoneIsAlone
<1>4. v10 = {v11} => ~(Composer!Cardinality(v10) > 1)
  BY <1>3
<1> QED
  BY <1>1, <1>2, <1>4 DEF Composer!SubmissionsAreAlone

LEMMA ComposerInit ==
  ASSUME None \notin Comparisons \cup {"new"}, "new" \notin Comparisons
  PROVE  Composer!Init => ComposerInv
<1> SUFFICES ASSUME Composer!Init
             PROVE  ComposerInv
  OBVIOUS
<1> USE DEF Composer!Init, Composer!Empty, Composer!NoRead
<1>1. Composer!Domains
  BY DEF Composer!Domains, Composer!Lists
<1>2. Composer!ListsGrow
  BY DEF Composer!ListsGrow, Composer!In
<1>3. Composer!ChoicesAreThere
  BY DEF Composer!ChoicesAreThere
<1>4. Composer!SubmissionsAreObserved
  BY DEF Composer!SubmissionsAreObserved
<1>5. Composer!CapturesGoWhereMeant
  BY DEF Composer!CapturesGoWhereMeant
<1> QED
  BY <1>1, <1>2, <1>3, <1>4, <1>5 DEF ComposerInv

LEMMA ComposerStep ==
  ASSUME None \notin Comparisons \cup {"new"}, "new" \notin Comparisons
  PROVE  ComposerInv /\ [Composer!Next]_(Composer!composerVars) => ComposerInv'
<1> SUFFICES ASSUME ComposerInv, [Composer!Next]_(Composer!composerVars)
             PROVE  ComposerInv'
  OBVIOUS
<1> USE DEF ComposerInv, Composer!panelVars, Composer!dialogVars, Composer!Busy, Composer!Reachable,
       Composer!CanWrite, Composer!Blocked
<1>1. CASE Composer!Change
  <2>1. Composer!Domains'
    BY <1>1 DEF Composer!Change, Composer!Domains, Composer!Lists, Composer!Imports, Composer!NoRead,
           Composer!Asked, Composer!Empty, Composer!Selected, Composer!IsNew, Composer!Added,
           Composer!Completed, Composer!In
  <2>2. Composer!ListsGrow'
    BY <1>1 DEF Composer!Change, Composer!ListsGrow, Composer!NoRead, Composer!Asked, Composer!In
  <2>3. Composer!ChoicesAreThere'
    BY <1>1 DEF Composer!Change, Composer!Domains, Composer!ListsGrow, Composer!ChoicesAreThere, Composer!In
  <2>4. Composer!SubmissionsAreObserved'
    BY <1>1 DEF Composer!Change, Composer!SubmissionsAreObserved, Composer!OpenReviewDialog,
           Composer!MaySubmit
  <2>5. Composer!CapturesGoWhereMeant'
    BY <1>1 DEF Composer!Change, Composer!Domains, Composer!ChoicesAreThere, Composer!CapturesGoWhereMeant,
           Composer!Selected, Composer!IsNew
  <2> QED
    BY <2>1, <2>2, <2>3, <2>4, <2>5
<1>2. CASE Composer!AskList
  <2>1. Composer!Domains'
    BY <1>2 DEF Composer!AskList, Composer!Domains, Composer!Lists, Composer!Imports, Composer!NoRead,
           Composer!Asked, Composer!Empty, Composer!Selected, Composer!IsNew, Composer!Added,
           Composer!Completed, Composer!In
  <2>2. Composer!ListsGrow'
    BY <1>2 DEF Composer!AskList, Composer!ListsGrow, Composer!NoRead, Composer!Asked, Composer!In
  <2>3. Composer!ChoicesAreThere'
    BY <1>2 DEF Composer!AskList, Composer!Domains, Composer!ListsGrow, Composer!ChoicesAreThere,
           Composer!In
  <2>4. Composer!SubmissionsAreObserved'
    BY <1>2 DEF Composer!AskList, Composer!SubmissionsAreObserved, Composer!OpenReviewDialog,
           Composer!MaySubmit
  <2>5. Composer!CapturesGoWhereMeant'
    BY <1>2 DEF Composer!AskList, Composer!Domains, Composer!ChoicesAreThere, Composer!CapturesGoWhereMeant,
           Composer!Selected, Composer!IsNew
  <2> QED
    BY <2>1, <2>2, <2>3, <2>4, <2>5
<1>3. CASE Composer!ServeList
  <2>1. Composer!Domains'
    BY <1>3 DEF Composer!ServeList, Composer!Domains, Composer!Lists, Composer!Imports, Composer!NoRead,
           Composer!Asked, Composer!Empty, Composer!Selected, Composer!IsNew, Composer!Added,
           Composer!Completed, Composer!In
  <2>2. Composer!ListsGrow'
    BY <1>3 DEF Composer!ServeList, Composer!ListsGrow, Composer!NoRead, Composer!Asked, Composer!In
  <2>3. Composer!ChoicesAreThere'
    BY <1>3 DEF Composer!ServeList, Composer!Domains, Composer!ListsGrow, Composer!ChoicesAreThere,
           Composer!In
  <2>4. Composer!SubmissionsAreObserved'
    BY <1>3 DEF Composer!ServeList, Composer!SubmissionsAreObserved, Composer!OpenReviewDialog,
           Composer!MaySubmit
  <2>5. Composer!CapturesGoWhereMeant'
    BY <1>3 DEF Composer!ServeList, Composer!Domains, Composer!ChoicesAreThere,
           Composer!CapturesGoWhereMeant, Composer!Selected, Composer!IsNew
  <2> QED
    BY <2>1, <2>2, <2>3, <2>4, <2>5
<1>4. CASE Composer!EndList
  <2>1. Composer!Domains'
    BY <1>4 DEF Composer!EndList, Composer!Domains, Composer!Lists, Composer!Imports, Composer!NoRead,
           Composer!Asked, Composer!Empty, Composer!Selected, Composer!IsNew, Composer!Added,
           Composer!Completed, Composer!In
  <2>2. Composer!ListsGrow'
    BY <1>4 DEF Composer!EndList, Composer!ListsGrow, Composer!NoRead, Composer!Asked, Composer!In
  <2>3. Composer!ChoicesAreThere'
    BY <1>4 DEF Composer!EndList, Composer!Domains, Composer!ListsGrow, Composer!ChoicesAreThere,
           Composer!In
  <2>4. Composer!SubmissionsAreObserved'
    BY <1>4 DEF Composer!EndList, Composer!SubmissionsAreObserved, Composer!OpenReviewDialog,
           Composer!MaySubmit
  <2>5. Composer!CapturesGoWhereMeant'
    BY <1>4 DEF Composer!EndList, Composer!Domains, Composer!ChoicesAreThere, Composer!CapturesGoWhereMeant,
           Composer!Selected, Composer!IsNew
  <2> QED
    BY <2>1, <2>2, <2>3, <2>4, <2>5
<1>5. CASE Composer!FailList
  <2>1. Composer!Domains'
    BY <1>5 DEF Composer!FailList, Composer!Domains, Composer!Lists, Composer!Imports, Composer!NoRead,
           Composer!Asked, Composer!Empty, Composer!Selected, Composer!IsNew, Composer!Added,
           Composer!Completed, Composer!In
  <2>2. Composer!ListsGrow'
    BY <1>5 DEF Composer!FailList, Composer!ListsGrow, Composer!NoRead, Composer!Asked, Composer!In
  <2>3. Composer!ChoicesAreThere'
    BY <1>5 DEF Composer!FailList, Composer!Domains, Composer!ListsGrow, Composer!ChoicesAreThere,
           Composer!In
  <2>4. Composer!SubmissionsAreObserved'
    BY <1>5 DEF Composer!FailList, Composer!SubmissionsAreObserved, Composer!OpenReviewDialog,
           Composer!MaySubmit
  <2>5. Composer!CapturesGoWhereMeant'
    BY <1>5 DEF Composer!FailList, Composer!Domains, Composer!ChoicesAreThere,
           Composer!CapturesGoWhereMeant, Composer!Selected, Composer!IsNew
  <2> QED
    BY <2>1, <2>2, <2>3, <2>4, <2>5
<1>6. CASE Composer!OpenChooser
  <2>1. Composer!Domains'
    <3>1. v6' = [stage |-> IF Composer!IsNew THEN "before" ELSE "after", shown |-> Composer!Selected,
                 explicit |-> v5 = Composer!Selected]
      BY <1>6 DEF Composer!OpenChooser
    <3>2. v1' = v1 /\ v2' = v2 /\ v3' = v3 /\ v5' = v5 /\ v7' = v7
      BY <1>6 DEF Composer!OpenChooser
    <3>3. Composer!Selected \in Comparisons \cup {None}
      BY SelectedIs DEF Composer!Domains
    <3>4. v6'.shown = Composer!Selected /\ (v6'.explicit => v5 = Composer!Selected)
      BY <3>1
    <3> QED
      BY <3>2, <3>3, <3>4 DEF Composer!Domains
  <2>2. Composer!ListsGrow'
    BY <1>6 DEF Composer!OpenChooser, Composer!ListsGrow, Composer!NoRead, Composer!Asked, Composer!In
  <2>3. Composer!ChoicesAreThere'
    BY <1>6 DEF Composer!OpenChooser, Composer!Domains, Composer!ListsGrow, Composer!ChoicesAreThere,
           Composer!In
  <2>4. Composer!SubmissionsAreObserved'
    BY <1>6 DEF Composer!OpenChooser, Composer!SubmissionsAreObserved, Composer!OpenReviewDialog,
           Composer!MaySubmit
  <2>5. Composer!CapturesGoWhereMeant'
    BY <1>6 DEF Composer!OpenChooser, Composer!Domains, Composer!ChoicesAreThere,
           Composer!CapturesGoWhereMeant, Composer!Selected, Composer!IsNew
  <2> QED
    BY <2>1, <2>2, <2>3, <2>4, <2>5
<1>7. CASE Composer!Choose
  <2>1. /\ v6 # None /\ v6' = None
        /\ v7' = IF ~Composer!CanWrite \/ Composer!IsNew # (v6.stage = "before") THEN None
                 ELSE [at |-> "sent", after |-> ~Composer!IsNew, of |-> IF Composer!IsNew THEN "new" ELSE Composer!Selected,
                       meant |-> IF v6.explicit THEN v6.shown ELSE None]
        /\ v1' = v1 /\ v2' = v2 /\ v3' = v3 /\ v5' = v5 /\ v10' = v10 /\ v11' = v11 /\ v12' = v12 /\ v13' = v13
    BY <1>7 DEF Composer!Choose
  <2> DEFINE of == IF Composer!IsNew THEN "new" ELSE Composer!Selected
             meant == IF v6.explicit THEN v6.shown ELSE None
  <2>2. Composer!Selected \in Comparisons \cup {None} /\ (Composer!Selected # None => Composer!In(Composer!Selected, v2))
    BY SelectedIs DEF Composer!Domains
  <2>3. of \in Comparisons \cup {"new"} /\ (of # "new" => Composer!In(of, v1))
    BY <2>2 DEF Composer!IsNew, Composer!ListsGrow
  <2>4. meant \in Comparisons \cup {None} /\ (meant # None => meant = v5)
    BY <2>1 DEF Composer!Domains
  <2>5. meant # None => of = meant
    <3>1. v5 \in Comparisons => Composer!Selected = v5
      BY DEF Composer!ChoicesAreThere, Composer!Selected
    <3> QED
      BY <2>4, <3>1 DEF Composer!IsNew
  <2>6. \/ v7' = None
        \/ v7' \in Composer!Imports /\ v7'.at = "sent" /\ v7'.of = of /\ v7'.meant = meant
    <3> DEFINE after == ~Composer!IsNew
    <3>1. after \in BOOLEAN
      OBVIOUS
    <3> HIDE DEF of, meant, after
    <3>2. v7' = None \/ v7' = [at |-> "sent", after |-> after, of |-> of, meant |-> meant]
      BY <2>1 DEF of, meant, after
    <3> QED
      BY <2>3, <2>4, <3>1, <3>2 DEF Composer!Imports
  <2> HIDE DEF of, meant
  <2>7. Composer!Domains'
    BY <2>1, <2>6 DEF Composer!Domains
  <2>8. Composer!ListsGrow'
    BY <2>1 DEF Composer!ListsGrow
  <2>9. Composer!ChoicesAreThere'
    BY <2>1, <2>3, <2>6 DEF Composer!ChoicesAreThere
  <2>10. Composer!SubmissionsAreObserved'
    BY <2>1 DEF Composer!SubmissionsAreObserved
  <2>11. Composer!CapturesGoWhereMeant'
    BY <2>5, <2>6 DEF Composer!CapturesGoWhereMeant
  <2> QED
    BY <2>7, <2>8, <2>9, <2>10, <2>11
<1>8. CASE Composer!StoreImport
  <2>1. v1 \in Composer!Lists /\ v7 \in Composer!Imports \cup {None}
    BY DEF Composer!Domains
  <2>2. v1' \in Composer!Lists /\ \A d : Composer!In(d, v1) => Composer!In(d, v1')
    <3>1. v7 # None /\ v7.of \in Comparisons \cup {"new"}
      BY <1>8, <2>1 DEF Composer!StoreImport, Composer!Imports
    <3>2. CASE v7.of = "new"
      <4>1. PICK c \in Comparisons : v1' = Composer!Added(c)
        BY <1>8, <3>2 DEF Composer!StoreImport
      <4> QED
        BY <2>1, <4>1, StoredGrows
    <3>3. CASE v7.of # "new"
      <4>1. v7.of \in Comparisons /\ v1' = Composer!Completed(v7.of)
        BY <1>8, <3>1, <3>3 DEF Composer!StoreImport
      <4> QED
        BY <2>1, <4>1, StoredGrows
    <3> QED
      BY <3>2, <3>3
  <2>3. /\ v7' \in Composer!Imports /\ v7'.of # "new" /\ Composer!In(v7'.of, v1')
        /\ v7'.meant # None => v7'.of = v7'.meant
        /\ v6 = None
    <3>1. v7 # None /\ v7 \in Composer!Imports /\ v7.at = "sent" /\ v6 = None
      BY <1>8, <2>1 DEF Composer!StoreImport, Composer!ChoicesAreThere
    <3>2. CASE v7.of = "new"
      <4>1. PICK c \in Comparisons : v1' = Composer!Added(c) /\ v7' = [v7 EXCEPT !.at = "stored", !.of = c]
        BY <1>8, <3>2 DEF Composer!StoreImport
      <4>2. v7' \in Composer!Imports /\ v7'.of = c /\ v7'.meant = v7.meant
        BY <3>1, <4>1 DEF Composer!Imports
      <4>3. v7.meant = None
        BY <3>1, <3>2 DEF Composer!CapturesGoWhereMeant, Composer!Imports
      <4> QED
        BY <2>1, <3>1, <4>1, <4>2, <4>3, StoredGrows
    <3>3. CASE v7.of # "new"
      <4>1. v1' = Composer!Completed(v7.of) /\ v7' = [v7 EXCEPT !.at = "stored"]
        BY <1>8, <3>3 DEF Composer!StoreImport
      <4>2. v7' \in Composer!Imports /\ v7'.of = v7.of /\ v7'.meant = v7.meant
        BY <3>1, <4>1 DEF Composer!Imports
      <4>3. Composer!In(v7.of, v1)
        BY <3>1, <3>3 DEF Composer!ChoicesAreThere
      <4>4. Composer!In(v7.of, v1')
        BY <2>2, <4>3
      <4> QED
        BY <3>1, <3>3, <4>2, <4>4 DEF Composer!CapturesGoWhereMeant
    <3> QED
      BY <3>2, <3>3
  <2>4. v2' = v2 /\ v3' = v3 /\ v5' = v5 /\ v6' = v6 /\ v10' = v10 /\ v11' = v11 /\ v12' = v12 /\ v13' = v13
    BY <1>8 DEF Composer!StoreImport
  <2>5. Composer!Domains'
    BY <2>2, <2>3, <2>4 DEF Composer!Domains
  <2>6. Composer!ListsGrow'
    BY <2>2, <2>4 DEF Composer!ListsGrow
  <2>7. Composer!ChoicesAreThere'
    BY <2>2, <2>3, <2>4 DEF Composer!ChoicesAreThere
  <2>8. Composer!SubmissionsAreObserved'
    BY <2>4 DEF Composer!SubmissionsAreObserved
  <2>9. Composer!CapturesGoWhereMeant'
    BY <2>3, <2>4 DEF Composer!CapturesGoWhereMeant
  <2> QED
    BY <2>5, <2>6, <2>7, <2>8, <2>9
<1>9. CASE Composer!ImportElsewhere
  <2>1. v1 \in Composer!Lists /\ v7 \in Composer!Imports \cup {None}
    BY DEF Composer!Domains
  <2>2. v1' \in Composer!Lists /\ \A d : Composer!In(d, v1) => Composer!In(d, v1')
    BY <1>9, <2>1, StoredGrows DEF Composer!ImportElsewhere
  <2>3. v7' = v7
    BY <1>9 DEF Composer!ImportElsewhere
  <2>4. v2' = v2 /\ v3' = v3 /\ v5' = v5 /\ v6' = v6 /\ v10' = v10 /\ v11' = v11 /\ v12' = v12 /\ v13' = v13
    BY <1>9 DEF Composer!ImportElsewhere
  <2>5. Composer!Domains'
    BY <2>2, <2>3, <2>4 DEF Composer!Domains
  <2>6. Composer!ListsGrow'
    BY <2>2, <2>4 DEF Composer!ListsGrow
  <2>7. Composer!ChoicesAreThere'
    BY <2>2, <2>3, <2>4 DEF Composer!ChoicesAreThere
  <2>8. Composer!SubmissionsAreObserved'
    BY <2>4 DEF Composer!SubmissionsAreObserved
  <2>9. Composer!CapturesGoWhereMeant'
    BY <2>3, <2>4 DEF Composer!CapturesGoWhereMeant
  <2> QED
    BY <2>5, <2>6, <2>7, <2>8, <2>9
<1>10. CASE Composer!EndImport
  <2> DEFINE c == v7.of
             order == Composer!Fronted(c, v2.order)
  <2>1. /\ v7 # None /\ v7.at = "stored" /\ v2'.order = order /\ v5' = c /\ v3' = Composer!Asked /\ v7' = None
        /\ v2' = [order |-> order, complete |-> IF v7.after THEN v2.complete \cup {c} ELSE v2.complete \ {c}]
        /\ v1' = v1 /\ v6' = v6 /\ v10' = v10 /\ v11' = v11 /\ v12' = v12 /\ v13' = v13
    BY <1>10 DEF Composer!EndImport
  <2>2. c # "new" /\ Composer!In(c, v1) /\ v6 = None /\ c \in Comparisons
    BY <2>1 DEF Composer!ChoicesAreThere, Composer!Domains, Composer!Imports
  <2>3. v2.order \in Seq(Comparisons) /\ v2.complete \subseteq Comparisons
    BY DEF Composer!Domains, Composer!Lists
  <2> HIDE DEF c
  <2>4. /\ order \in Seq(Comparisons) /\ \E i \in 1..Len(order) : order[i] = c
        /\ \A i \in 1..Len(order) : order[i] = c \/ \E j \in 1..Len(v2.order) : v2.order[j] = order[i]
    BY <2>2, <2>3, FrontedIs
  <2> HIDE DEF order
  <2>5. v2' \in Composer!Lists
    BY <2>1, <2>2, <2>3, <2>4 DEF Composer!Lists
  <2>6. Composer!In(c, v2') /\ \A d : Composer!In(d, v2') => d = c \/ Composer!In(d, v2)
    BY <2>1, <2>4 DEF Composer!In
  <2>7. v1 \in Composer!Lists /\ v3' \in [at : {"none", "asked", "answered"}, with : Composer!Lists] /\ v3'.at = "asked"
    <3>1. Composer!Empty \in Composer!Lists
      BY DEF Composer!Empty, Composer!Lists
    <3> QED
      BY <2>1, <3>1 DEF Composer!Asked, Composer!Domains
  <2>8. Composer!Domains'
    BY <2>1, <2>2, <2>5, <2>7 DEF Composer!Domains
  <2>9. Composer!ListsGrow'
    BY <2>1, <2>2, <2>6, <2>7 DEF Composer!ListsGrow
  <2>10. Composer!ChoicesAreThere'
    BY <2>1, <2>6 DEF Composer!ChoicesAreThere
  <2>11. Composer!SubmissionsAreObserved' /\ Composer!CapturesGoWhereMeant'
    BY <2>1 DEF Composer!SubmissionsAreObserved, Composer!CapturesGoWhereMeant
  <2> QED
    BY <2>8, <2>9, <2>10, <2>11
<1>11. CASE Composer!FailImport
  <2>1. Composer!Domains'
    BY <1>11 DEF Composer!FailImport, Composer!Domains, Composer!Lists, Composer!Imports, Composer!NoRead,
           Composer!Asked, Composer!Empty, Composer!Selected, Composer!IsNew, Composer!Added,
           Composer!Completed, Composer!In
  <2>2. Composer!ListsGrow'
    BY <1>11 DEF Composer!FailImport, Composer!ListsGrow, Composer!NoRead, Composer!Asked, Composer!In
  <2>3. Composer!ChoicesAreThere'
    BY <1>11 DEF Composer!FailImport, Composer!Domains, Composer!ListsGrow, Composer!ChoicesAreThere,
           Composer!In
  <2>4. Composer!SubmissionsAreObserved'
    BY <1>11 DEF Composer!FailImport, Composer!SubmissionsAreObserved, Composer!OpenReviewDialog,
           Composer!MaySubmit
  <2>5. Composer!CapturesGoWhereMeant'
    BY <1>11 DEF Composer!FailImport, Composer!Domains, Composer!ChoicesAreThere,
           Composer!CapturesGoWhereMeant, Composer!Selected, Composer!IsNew
  <2> QED
    BY <2>1, <2>2, <2>3, <2>4, <2>5
<1>12. CASE Composer!OpenDialog
  <2>1. Composer!Domains'
    BY <1>12 DEF Composer!OpenDialog, Composer!Domains, Composer!Lists, Composer!Imports, Composer!NoRead,
           Composer!Asked, Composer!Empty, Composer!Selected, Composer!IsNew, Composer!Added,
           Composer!Completed, Composer!In
  <2>2. Composer!ListsGrow'
    BY <1>12 DEF Composer!OpenDialog, Composer!ListsGrow, Composer!NoRead, Composer!Asked, Composer!In
  <2>3. Composer!ChoicesAreThere'
    BY <1>12 DEF Composer!OpenDialog, Composer!Domains, Composer!ListsGrow, Composer!ChoicesAreThere,
           Composer!In
  <2>4. Composer!SubmissionsAreObserved'
    BY <1>12 DEF Composer!OpenDialog, Composer!SubmissionsAreObserved, Composer!OpenReviewDialog,
           Composer!MaySubmit
  <2>5. Composer!CapturesGoWhereMeant'
    BY <1>12 DEF Composer!OpenDialog, Composer!Domains, Composer!ChoicesAreThere,
           Composer!CapturesGoWhereMeant, Composer!Selected, Composer!IsNew
  <2> QED
    BY <2>1, <2>2, <2>3, <2>4, <2>5
<1>13. CASE Composer!Attach
  <2>1. Composer!Domains'
    BY <1>13 DEF Composer!Attach, Composer!Domains, Composer!Lists, Composer!Imports, Composer!NoRead,
           Composer!Asked, Composer!Empty, Composer!Selected, Composer!IsNew, Composer!Added,
           Composer!Completed, Composer!In
  <2>2. Composer!ListsGrow'
    BY <1>13 DEF Composer!Attach, Composer!ListsGrow, Composer!NoRead, Composer!Asked, Composer!In
  <2>3. Composer!ChoicesAreThere'
    BY <1>13 DEF Composer!Attach, Composer!Domains, Composer!ListsGrow, Composer!ChoicesAreThere,
           Composer!In
  <2>4. Composer!SubmissionsAreObserved'
    BY <1>13 DEF Composer!Attach, Composer!SubmissionsAreObserved, Composer!OpenReviewDialog,
           Composer!MaySubmit
  <2>5. Composer!CapturesGoWhereMeant'
    BY <1>13 DEF Composer!Attach, Composer!Domains, Composer!ChoicesAreThere, Composer!CapturesGoWhereMeant,
           Composer!Selected, Composer!IsNew
  <2> QED
    BY <2>1, <2>2, <2>3, <2>4, <2>5
<1>14. CASE Composer!EndAttach
  <2>1. Composer!Domains'
    BY <1>14 DEF Composer!EndAttach, Composer!Domains, Composer!Lists, Composer!Imports, Composer!NoRead,
           Composer!Asked, Composer!Empty, Composer!Selected, Composer!IsNew, Composer!Added,
           Composer!Completed, Composer!In
  <2>2. Composer!ListsGrow'
    BY <1>14 DEF Composer!EndAttach, Composer!ListsGrow, Composer!NoRead, Composer!Asked, Composer!In
  <2>3. Composer!ChoicesAreThere'
    BY <1>14 DEF Composer!EndAttach, Composer!Domains, Composer!ListsGrow, Composer!ChoicesAreThere,
           Composer!In
  <2>4. Composer!SubmissionsAreObserved'
    BY <1>14 DEF Composer!EndAttach, Composer!SubmissionsAreObserved, Composer!OpenReviewDialog,
           Composer!MaySubmit
  <2>5. Composer!CapturesGoWhereMeant'
    BY <1>14 DEF Composer!EndAttach, Composer!Domains, Composer!ChoicesAreThere,
           Composer!CapturesGoWhereMeant, Composer!Selected, Composer!IsNew
  <2> QED
    BY <2>1, <2>2, <2>3, <2>4, <2>5
<1>15. CASE Composer!FailAttach
  <2>1. Composer!Domains'
    BY <1>15 DEF Composer!FailAttach, Composer!Domains, Composer!Lists, Composer!Imports, Composer!NoRead,
           Composer!Asked, Composer!Empty, Composer!Selected, Composer!IsNew, Composer!Added,
           Composer!Completed, Composer!In
  <2>2. Composer!ListsGrow'
    BY <1>15 DEF Composer!FailAttach, Composer!ListsGrow, Composer!NoRead, Composer!Asked, Composer!In
  <2>3. Composer!ChoicesAreThere'
    BY <1>15 DEF Composer!FailAttach, Composer!Domains, Composer!ListsGrow, Composer!ChoicesAreThere,
           Composer!In
  <2>4. Composer!SubmissionsAreObserved'
    BY <1>15 DEF Composer!FailAttach, Composer!SubmissionsAreObserved, Composer!OpenReviewDialog,
           Composer!MaySubmit
  <2>5. Composer!CapturesGoWhereMeant'
    BY <1>15 DEF Composer!FailAttach, Composer!Domains, Composer!ChoicesAreThere,
           Composer!CapturesGoWhereMeant, Composer!Selected, Composer!IsNew
  <2> QED
    BY <2>1, <2>2, <2>3, <2>4, <2>5
<1>16. CASE Composer!Edit
  <2>1. Composer!Domains'
    BY <1>16 DEF Composer!Edit, Composer!Domains, Composer!Lists, Composer!Imports, Composer!NoRead,
           Composer!Asked, Composer!Empty, Composer!Selected, Composer!IsNew, Composer!Added,
           Composer!Completed, Composer!In
  <2>2. Composer!ListsGrow'
    BY <1>16 DEF Composer!Edit, Composer!ListsGrow, Composer!NoRead, Composer!Asked, Composer!In
  <2>3. Composer!ChoicesAreThere'
    BY <1>16 DEF Composer!Edit, Composer!Domains, Composer!ListsGrow, Composer!ChoicesAreThere, Composer!In
  <2>4. Composer!SubmissionsAreObserved'
    BY <1>16 DEF Composer!Edit, Composer!SubmissionsAreObserved, Composer!OpenReviewDialog,
           Composer!MaySubmit
  <2>5. Composer!CapturesGoWhereMeant'
    BY <1>16 DEF Composer!Edit, Composer!Domains, Composer!ChoicesAreThere, Composer!CapturesGoWhereMeant,
           Composer!Selected, Composer!IsNew
  <2> QED
    BY <2>1, <2>2, <2>3, <2>4, <2>5
<1>17. CASE Composer!CloseDialog
  <2>1. Composer!Domains'
    BY <1>17 DEF Composer!CloseDialog, Composer!Domains, Composer!Lists, Composer!Imports, Composer!NoRead,
           Composer!Asked, Composer!Empty, Composer!Selected, Composer!IsNew, Composer!Added,
           Composer!Completed, Composer!In
  <2>2. Composer!ListsGrow'
    BY <1>17 DEF Composer!CloseDialog, Composer!ListsGrow, Composer!NoRead, Composer!Asked, Composer!In
  <2>3. Composer!ChoicesAreThere'
    BY <1>17 DEF Composer!CloseDialog, Composer!Domains, Composer!ListsGrow, Composer!ChoicesAreThere,
           Composer!In
  <2>4. Composer!SubmissionsAreObserved'
    BY <1>17 DEF Composer!CloseDialog, Composer!SubmissionsAreObserved, Composer!OpenReviewDialog,
           Composer!MaySubmit
  <2>5. Composer!CapturesGoWhereMeant'
    BY <1>17 DEF Composer!CloseDialog, Composer!Domains, Composer!ChoicesAreThere,
           Composer!CapturesGoWhereMeant, Composer!Selected, Composer!IsNew
  <2> QED
    BY <2>1, <2>2, <2>3, <2>4, <2>5
<1>18. CASE Composer!Submit
  <2>1. Composer!Domains'
    BY <1>18 DEF Composer!Submit, Composer!Domains, Composer!Lists, Composer!Imports, Composer!NoRead,
           Composer!Asked, Composer!Empty, Composer!Selected, Composer!IsNew, Composer!Added,
           Composer!Completed, Composer!In
  <2>2. Composer!ListsGrow'
    BY <1>18 DEF Composer!Submit, Composer!ListsGrow, Composer!NoRead, Composer!Asked, Composer!In
  <2>3. Composer!ChoicesAreThere'
    BY <1>18 DEF Composer!Submit, Composer!Domains, Composer!ListsGrow, Composer!ChoicesAreThere,
           Composer!In
  <2>4. Composer!SubmissionsAreObserved'
    BY <1>18 DEF Composer!Submit, Composer!SubmissionsAreObserved, Composer!OpenReviewDialog,
           Composer!MaySubmit
  <2>5. Composer!CapturesGoWhereMeant'
    BY <1>18 DEF Composer!Submit, Composer!Domains, Composer!ChoicesAreThere, Composer!CapturesGoWhereMeant,
           Composer!Selected, Composer!IsNew
  <2> QED
    BY <2>1, <2>2, <2>3, <2>4, <2>5
<1>19. CASE \E choice \in Comparisons \cup {"new"} : Composer!Pick(choice)
  <2>1. Composer!Domains'
    <3>1. v5' \in Comparisons \cup {"new", None} /\ v6 = None
      BY <1>19 DEF Composer!Pick
    <3>2. v1' = v1 /\ v2' = v2 /\ v3' = v3 /\ v6' = v6 /\ v7' = v7
      BY <1>19 DEF Composer!Pick
    <3> QED
      BY <3>1, <3>2 DEF Composer!Domains
  <2>2. Composer!ListsGrow'
    BY <1>19 DEF Composer!Pick, Composer!ListsGrow, Composer!NoRead, Composer!Asked, Composer!In
  <2>3. Composer!ChoicesAreThere'
    BY <1>19 DEF Composer!Pick, Composer!Domains, Composer!ListsGrow, Composer!ChoicesAreThere, Composer!In
  <2>4. Composer!SubmissionsAreObserved'
    BY <1>19 DEF Composer!Pick, Composer!SubmissionsAreObserved, Composer!OpenReviewDialog,
           Composer!MaySubmit
  <2>5. Composer!CapturesGoWhereMeant'
    BY <1>19 DEF Composer!Pick, Composer!Domains, Composer!ChoicesAreThere, Composer!CapturesGoWhereMeant,
           Composer!Selected, Composer!IsNew
  <2> QED
    BY <2>1, <2>2, <2>3, <2>4, <2>5
<1>20. CASE \E p \in v10 : Composer!EndSubmit(p)
  <2>1. Composer!Domains'
    BY <1>20 DEF Composer!EndSubmit, Composer!Domains, Composer!Lists, Composer!Imports, Composer!NoRead,
           Composer!Asked, Composer!Empty, Composer!Selected, Composer!IsNew, Composer!Added,
           Composer!Completed, Composer!In
  <2>2. Composer!ListsGrow'
    BY <1>20 DEF Composer!EndSubmit, Composer!ListsGrow, Composer!NoRead, Composer!Asked, Composer!In
  <2>3. Composer!ChoicesAreThere'
    BY <1>20 DEF Composer!EndSubmit, Composer!Domains, Composer!ListsGrow, Composer!ChoicesAreThere,
           Composer!In
  <2>4. Composer!SubmissionsAreObserved'
    BY <1>20 DEF Composer!EndSubmit, Composer!SubmissionsAreObserved, Composer!OpenReviewDialog,
           Composer!MaySubmit
  <2>5. Composer!CapturesGoWhereMeant'
    BY <1>20 DEF Composer!EndSubmit, Composer!Domains, Composer!ChoicesAreThere,
           Composer!CapturesGoWhereMeant, Composer!Selected, Composer!IsNew
  <2> QED
    BY <2>1, <2>2, <2>3, <2>4, <2>5
<1>21. CASE UNCHANGED Composer!composerVars
  BY <1>21 DEF Composer!composerVars, Composer!Domains, Composer!Lists, Composer!Imports, Composer!NoRead,
         Composer!Asked, Composer!Empty, Composer!Selected, Composer!IsNew, Composer!Added,
         Composer!Completed, Composer!In, Composer!ListsGrow, Composer!ChoicesAreThere,
         Composer!SubmissionsAreObserved, Composer!OpenReviewDialog, Composer!MaySubmit,
         Composer!CapturesGoWhereMeant
<1> QED
  BY <1>1, <1>2, <1>3, <1>4, <1>5, <1>6, <1>7, <1>8, <1>9, <1>10, <1>11, <1>12, <1>13, <1>14, <1>15, <1>16,
     <1>17, <1>18, <1>19, <1>20, <1>21 DEF Composer!Next

\* A capture goes to the comparison that was picked for it, and no submission is made twice at
\* a time, for any comparisons and whatever lists arrive.
THEOREM WorkIsKept ==
  ASSUME None \notin Comparisons \cup {"new"}, "new" \notin Comparisons
  PROVE  PartsSpec => []ComposerKeepsTheUsersWork
<1>1. PartsInit /\ part = "composer" => Composer!Init
  BY DEF PartsInit
<1>2. [PartsNext]_all /\ part = "composer" => [Composer!Next]_(Composer!composerVars)
  BY DEF PartsNext, all, Composer!composerVars
<1>3. [PartsNext]_all => (part = "composer" <=> (part = "composer")')
  BY PartStays
<1>4. ComposerInv => Composer!CapturesGoWhereMeant /\ Composer!SubmissionsAreAlone
  BY SubmissionsAlone DEF ComposerInv, Composer!SubmissionsAreObserved, Composer!SubmissionsAreAlone
<1>5. (part = "composer" => ComposerInv) => ComposerKeepsTheUsersWork
  BY <1>4 DEF ComposerKeepsTheUsersWork
<1> QED
  BY <1>1, <1>2, <1>3, <1>5, ComposerInit, ComposerStep, PTL DEF PartsSpec
-----------------------------------------------------------------------------
(***************************************************************************)
(* The developer's list of projects.                                       *)
(***************************************************************************)
ProjectsInv == Projects!Domains /\ Projects!AnswersAreFresh /\ Projects!SecondIsListed

\* An answer that is put into the list changes the entries of its project only.
LEMMA EntryIsReplaced ==
  ASSUME None \notin Seq(Projects!Entries), NEW list \in Seq(Projects!Entries), NEW p, NEW entry \in Projects!Entries
  PROVE  /\ Projects!With(list, p, entry) \in Seq(Projects!Entries)
         /\ DOMAIN Projects!With(list, p, entry) = DOMAIN list
         /\ \A i \in DOMAIN list :
              Projects!With(list, p, entry)[i] = IF list[i].id = p THEN entry ELSE list[i]
<1>1. list # None /\ list \in [1..Len(list) -> Projects!Entries] /\ Len(list) \in Nat /\ DOMAIN list = 1..Len(list)
  OBVIOUS
<1>2. Projects!With(list, p, entry) = [i \in DOMAIN list |-> IF list[i].id = p THEN entry ELSE list[i]]
  BY <1>1 DEF Projects!With
<1>3. Projects!With(list, p, entry) \in [1..Len(list) -> Projects!Entries]
  BY <1>1, <1>2
<1> QED
  BY <1>1, <1>2, <1>3, SeqDef

LEMMA ResultIsReplaced ==
  ASSUME None \notin Seq(Projects!Entries), NEW list \in Seq(Projects!Entries), NEW p, NEW result \in Nat
  PROVE  /\ Projects!WithReadiness(list, p, result) \in Seq(Projects!Entries)
         /\ DOMAIN Projects!WithReadiness(list, p, result) = DOMAIN list
         /\ \A i \in DOMAIN list :
              LET w == Projects!WithReadiness(list, p, result)
              IN  w[i].id = list[i].id /\ (list[i].id = p => w[i].readiness = result) /\ (list[i].id # p => w[i] = list[i])
<1>1. list # None /\ list \in [1..Len(list) -> Projects!Entries] /\ Len(list) \in Nat /\ DOMAIN list = 1..Len(list)
  OBVIOUS
<1>2. Projects!WithReadiness(list, p, result) =
        [i \in DOMAIN list |-> IF list[i].id = p THEN [list[i] EXCEPT !.readiness = result] ELSE list[i]]
  BY <1>1 DEF Projects!WithReadiness
<1>3. ASSUME NEW e \in Projects!Entries
      PROVE  /\ [e EXCEPT !.readiness = result] \in Projects!Entries
             /\ [e EXCEPT !.readiness = result].id = e.id /\ [e EXCEPT !.readiness = result].readiness = result
  BY DEF Projects!Entries
<1>4. Projects!WithReadiness(list, p, result) \in [1..Len(list) -> Projects!Entries]
  BY <1>1, <1>2, <1>3
<1> QED
  BY <1>1, <1>2, <1>3, <1>4, SeqDef

LEMMA ProjectsInit == Projects!Init => ProjectsInv
BY DEF Projects!Init, ProjectsInv, Projects!Domains, Projects!Projects, Projects!Idle, Projects!Checks,
    Projects!AnswersAreFresh, Projects!ResultsStay, Projects!SecondIsListed, Projects!Listed

LEMMA ProjectsStep ==
  ASSUME None \notin Seq(Projects!Entries)
  PROVE  ProjectsInv /\ [Projects!Next]_(Projects!projectListVars) => ProjectsInv'
<1> SUFFICES ASSUME ProjectsInv, [Projects!Next]_(Projects!projectListVars)
             PROVE  ProjectsInv'
  OBVIOUS
<1> USE DEF ProjectsInv
<1>1. CASE Projects!AskList
  <2>1. Projects!Domains'
    BY <1>1 DEF Projects!AskList, Projects!Domains, Projects!Entries, Projects!Checks, Projects!Idle
  <2>2. Projects!AnswersAreFresh'
    BY <1>1 DEF Projects!AskList, Projects!AnswersAreFresh, Projects!ResultsStay, Projects!Domains,
           Projects!Entries, Projects!Checks, Projects!Idle
  <2>3. Projects!SecondIsListed'
    BY <1>1 DEF Projects!AskList, Projects!SecondIsListed, Projects!Listed, Projects!Domains,
           Projects!Projects, Projects!Idle
  <2> QED
    BY <2>1, <2>2, <2>3
<1>2. CASE Projects!ServeList
  <2> DEFINE second == IF Newer \in v1 THEN <<Projects!Summary(Newer)>> ELSE <<>>
             first == <<Projects!Summary(Older)>>
  <2>1. /\ v5' = first \o second /\ v5 = Unread /\ v1' = v1 /\ v2' = v2 /\ v3' = v3 /\ v4' = v4 /\ v6' = v6 /\ v7' = v7
        /\ v8' = v8 /\ v9' = v9 /\ v10' = v10 /\ v11' = v11
    BY <1>2 DEF Projects!ServeList
  <2>2. ASSUME NEW p \in Projects!Projects
        PROVE  Projects!Summary(p) \in Projects!Entries /\ Projects!Summary(p).id = p
               /\ Projects!Summary(p).readiness >= v10[p]
    BY DEF Projects!Summary, Projects!Entries, Projects!Domains, Projects!AnswersAreFresh
  <2>3. Older \in Projects!Projects /\ Newer \in Projects!Projects
    BY DEF Projects!Projects
  <2>4. /\ first \in Seq(Projects!Entries) /\ Len(first) = 1 /\ first[1] = Projects!Summary(Older)
        /\ second \in Seq(Projects!Entries) /\ Len(second) = IF Newer \in v1 THEN 1 ELSE 0
        /\ Newer \in v1 => second[1] = Projects!Summary(Newer)
    BY <2>2, <2>3
  <2> HIDE DEF first, second
  <2>5. /\ v5' \in Seq(Projects!Entries) /\ Len(v5') = IF Newer \in v1 THEN 2 ELSE 1
        /\ v5'[1] = Projects!Summary(Older) /\ (Newer \in v1 => v5'[2] = Projects!Summary(Newer))
    BY <2>1, <2>4, ConcatProperties
  <2>6. \A i \in DOMAIN v5' : v5'[i].readiness >= v10[v5'[i].id]
    BY <2>2, <2>3, <2>5
  <2>7. Newer \in v1 => \E i \in DOMAIN v5' : v5'[i].id = Newer
    <3>1. Newer \in v1 => 2 \in DOMAIN v5'
      BY <2>5
    <3> QED
      BY <2>2, <2>3, <2>5, <3>1
  <2>8. \A i \in DOMAIN v5' : v5'[i].id = Newer => Newer \in v1
    BY <2>2, <2>3, <2>5 DEF Projects!Domains
  <2>9. Projects!Domains'
    BY <2>1, <2>5 DEF Projects!Domains
  <2>10. Projects!AnswersAreFresh'
    BY <2>1, <2>6 DEF Projects!AnswersAreFresh, Projects!ResultsStay
  <2>11. Projects!SecondIsListed'
    BY <2>1, <2>7, <2>8 DEF Projects!SecondIsListed, Projects!Listed
  <2> QED
    BY <2>9, <2>10, <2>11
<1>3. CASE Projects!EndList
  <2>1. /\ v5 \in Seq(Projects!Entries) /\ v5 \notin {None, Unread} /\ v4' = v5 /\ v5' = None
        /\ v11' = {p \in v11 : v7[p] # None}
        /\ v1' = v1 /\ v2' = v2 /\ v3' = v3 /\ v6' = v6 /\ v7' = v7 /\ v8' = v8 /\ v9' = v9 /\ v10' = v10
    BY <1>3 DEF Projects!EndList, Projects!Domains
  <2>2. Projects!Domains'
    BY <2>1 DEF Projects!Domains
  <2>3. Projects!AnswersAreFresh'
    BY <2>1 DEF Projects!AnswersAreFresh, Projects!ResultsStay
  <2>4. Projects!Listed(Newer)' <=> \E i \in DOMAIN v5 : v5[i].id = Newer
    BY <2>1 DEF Projects!Listed
  <2>5. (\E i \in DOMAIN v5 : v5[i].id = Newer) /\ v8 # "created" => Newer \in v1
    BY <2>1 DEF Projects!SecondIsListed
  <2>6. Projects!SecondIsListed'
    <3> HIDE DEF Projects!Listed
    <3> QED
      BY <2>1, <2>4, <2>5 DEF Projects!SecondIsListed
  <2> QED
    BY <2>2, <2>3, <2>6
<1>4. CASE Projects!Invalidate
  <2>1. Projects!Domains'
    BY <1>4 DEF Projects!Invalidate, Projects!Domains, Projects!Entries, Projects!Checks, Projects!Idle
  <2>2. Projects!AnswersAreFresh'
    BY <1>4 DEF Projects!Invalidate, Projects!AnswersAreFresh, Projects!ResultsStay, Projects!Domains,
           Projects!Entries, Projects!Checks, Projects!Idle
  <2>3. Projects!SecondIsListed'
    BY <1>4 DEF Projects!Invalidate, Projects!SecondIsListed, Projects!Listed, Projects!Domains,
           Projects!Projects, Projects!Idle
  <2> QED
    BY <2>1, <2>2, <2>3
<1>5. CASE Projects!AskCreate
  <2>1. Projects!Domains'
    BY <1>5 DEF Projects!AskCreate, Projects!Domains, Projects!Entries, Projects!Checks, Projects!Idle
  <2>2. Projects!AnswersAreFresh'
    BY <1>5 DEF Projects!AskCreate, Projects!AnswersAreFresh, Projects!ResultsStay, Projects!Domains,
           Projects!Entries, Projects!Checks, Projects!Idle
  <2>3. Projects!SecondIsListed'
    BY <1>5 DEF Projects!AskCreate, Projects!SecondIsListed, Projects!Listed, Projects!Domains,
           Projects!Projects, Projects!Idle
  <2> QED
    BY <2>1, <2>2, <2>3
<1>6. CASE Projects!ServeCreate
  <2>1. Projects!Domains'
    BY <1>6 DEF Projects!ServeCreate, Projects!Domains, Projects!Projects
  <2>2. Projects!AnswersAreFresh'
    BY <1>6 DEF Projects!ServeCreate, Projects!AnswersAreFresh, Projects!ResultsStay, Projects!Domains,
           Projects!Entries, Projects!Checks, Projects!Idle
  <2>3. Projects!SecondIsListed'
    BY <1>6 DEF Projects!ServeCreate, Projects!SecondIsListed, Projects!Listed, Projects!Domains,
           Projects!Projects, Projects!Idle
  <2> QED
    BY <2>1, <2>2, <2>3
<1>7. CASE Projects!EndCreate
  <2>1. /\ v8 = "served" /\ v4' = (IF v4 = None THEN <<Projects!New>> ELSE Append(v4, Projects!New))
        /\ v8' = "created" /\ v9' = TRUE /\ v11' = (IF Projects!Listed(Newer) THEN v11 \cup {Newer} ELSE v11)
        /\ v1' = v1 /\ v2' = v2 /\ v3' = v3 /\ v5' = v5 /\ v6' = v6 /\ v7' = v7 /\ v10' = v10
    BY <1>7 DEF Projects!EndCreate
  <2>2. Projects!New \in Projects!Entries /\ Projects!New.id = Newer /\ Projects!New.readiness = 0
    BY DEF Projects!New, Projects!Entries, Projects!Projects
  <2>3. Projects!Listed(Newer) \/ v10[Newer] = 0
    BY <2>1 DEF Projects!SecondIsListed
  <2>4. 0 >= v10'[Newer] \/ Newer \in v11'
    BY <2>1, <2>3
  <2>5. v4' \in Seq(Projects!Entries) /\ \A i \in DOMAIN v4' :
          v4'[i] = Projects!New \/ (v4 # None /\ i \in DOMAIN v4 /\ v4'[i] = v4[i])
    <3>1. CASE v4 = None
      BY <2>1, <2>2, <3>1
    <3>2. CASE v4 # None
      BY <2>1, <2>2, <3>2 DEF Projects!Domains
    <3> QED
      BY <3>1, <3>2
  <2>6. Projects!Domains'
    BY <2>1, <2>5 DEF Projects!Domains
  <2>7. Projects!AnswersAreFresh'
    BY <2>1, <2>2, <2>4, <2>5 DEF Projects!AnswersAreFresh, Projects!ResultsStay
  <2>8. Projects!SecondIsListed'
    BY <2>1 DEF Projects!SecondIsListed
  <2> QED
    BY <2>6, <2>7, <2>8
<1>8. CASE Projects!CloseCreation
  <2>1. Projects!Domains'
    BY <1>8 DEF Projects!CloseCreation, Projects!Domains, Projects!Entries, Projects!Checks, Projects!Idle
  <2>2. Projects!AnswersAreFresh'
    BY <1>8 DEF Projects!CloseCreation, Projects!AnswersAreFresh, Projects!ResultsStay, Projects!Domains,
           Projects!Entries, Projects!Checks, Projects!Idle
  <2>3. Projects!SecondIsListed'
    BY <1>8 DEF Projects!CloseCreation, Projects!SecondIsListed, Projects!Listed, Projects!Domains,
           Projects!Projects, Projects!Idle
  <2> QED
    BY <2>1, <2>2, <2>3
<1>9. CASE \E p \in Projects!Projects : Projects!Report(p)
  <2>1. Projects!Domains'
    BY <1>9 DEF Projects!Report, Projects!Domains, Projects!Entries, Projects!Checks, Projects!Idle
  <2>2. Projects!AnswersAreFresh'
    BY <1>9 DEF Projects!Report, Projects!AnswersAreFresh, Projects!ResultsStay, Projects!Domains,
           Projects!Entries, Projects!Checks, Projects!Idle
  <2>3. Projects!SecondIsListed'
    BY <1>9 DEF Projects!Report, Projects!SecondIsListed, Projects!Listed, Projects!Domains,
           Projects!Projects, Projects!Idle
  <2> QED
    BY <2>1, <2>2, <2>3
<1>10. CASE \E p \in Projects!Projects : Projects!RequestReadiness(p)
  <2>1. Projects!Domains'
    <3>1. PICK p \in Projects!Projects : Projects!RequestReadiness(p)
      BY <1>10
    <3> DEFINE c == [v6[p] EXCEPT !.at = "previous"]
    <3>2. v6' = [v6 EXCEPT ![p] = c]
      BY <3>1 DEF Projects!RequestReadiness
    <3>3. c \in Projects!Checks
      BY DEF Projects!Domains, Projects!Checks
    <3> HIDE DEF c
    <3> QED
      BY <3>1, <3>2, <3>3 DEF Projects!RequestReadiness, Projects!Domains
  <2>2. Projects!AnswersAreFresh'
    BY <1>10 DEF Projects!RequestReadiness, Projects!AnswersAreFresh, Projects!ResultsStay,
           Projects!Domains, Projects!Entries, Projects!Checks, Projects!Idle
  <2>3. Projects!SecondIsListed'
    BY <1>10 DEF Projects!RequestReadiness, Projects!SecondIsListed, Projects!Listed, Projects!Domains,
           Projects!Projects, Projects!Idle
  <2> QED
    BY <2>1, <2>2, <2>3
<1>11. CASE \E p \in Projects!Projects : Projects!ReadPrevious(p)
  <2>1. Projects!Domains'
    BY <1>11 DEF Projects!ReadPrevious, Projects!Domains, Projects!Entries, Projects!Checks, Projects!Idle
  <2>2. Projects!AnswersAreFresh'
    BY <1>11 DEF Projects!ReadPrevious, Projects!AnswersAreFresh, Projects!ResultsStay, Projects!Domains,
           Projects!Entries, Projects!Checks, Projects!Idle
  <2>3. Projects!SecondIsListed'
    BY <1>11 DEF Projects!ReadPrevious, Projects!SecondIsListed, Projects!Listed, Projects!Domains,
           Projects!Projects, Projects!Idle
  <2> QED
    BY <2>1, <2>2, <2>3
<1>12. CASE \E p \in Projects!Projects : Projects!RequestCheck(p)
  <2>1. Projects!Domains'
    <3>1. PICK p \in Projects!Projects : Projects!RequestCheck(p)
      BY <1>12
    <3> DEFINE c == [v6[p] EXCEPT !.at = "polling"]
    <3>2. v6' = [v6 EXCEPT ![p] = c]
      BY <3>1 DEF Projects!RequestCheck
    <3>3. c \in Projects!Checks
      BY DEF Projects!Domains, Projects!Checks
    <3> HIDE DEF c
    <3> QED
      BY <3>1, <3>2, <3>3 DEF Projects!RequestCheck, Projects!Domains
  <2>2. Projects!AnswersAreFresh'
    BY <1>12 DEF Projects!RequestCheck, Projects!AnswersAreFresh, Projects!ResultsStay, Projects!Domains,
           Projects!Entries, Projects!Checks, Projects!Idle
  <2>3. Projects!SecondIsListed'
    BY <1>12 DEF Projects!RequestCheck, Projects!SecondIsListed, Projects!Listed, Projects!Domains,
           Projects!Projects, Projects!Idle
  <2> QED
    BY <2>1, <2>2, <2>3
<1>13. CASE \E p \in Projects!Projects : Projects!Poll(p)
  <2>1. Projects!Domains'
    BY <1>13 DEF Projects!Poll, Projects!Domains, Projects!Entries, Projects!Checks, Projects!Idle
  <2>2. Projects!AnswersAreFresh'
    BY <1>13 DEF Projects!Poll, Projects!AnswersAreFresh, Projects!ResultsStay, Projects!Domains,
           Projects!Entries, Projects!Checks, Projects!Idle
  <2>3. Projects!SecondIsListed'
    BY <1>13 DEF Projects!Poll, Projects!SecondIsListed, Projects!Listed, Projects!Domains,
           Projects!Projects, Projects!Idle
  <2> QED
    BY <2>1, <2>2, <2>3
<1>14. CASE \E p \in Projects!Projects : Projects!Succeed(p)
  <2>1. PICK p \in Projects!Projects : Projects!Succeed(p)
    BY <1>14
  <2> DEFINE result == v6[p].result
  <2>2. /\ v6[p].at = "answered" /\ v5' = None /\ v4' = Projects!WithReadiness(v4, p, result)
        /\ v10' = [v10 EXCEPT ![p] = result] /\ v11' = (IF v7[p] = None THEN v11 ELSE v11 \cup {p})
        /\ v6' = [v6 EXCEPT ![p] = Projects!Idle]
        /\ v1' = v1 /\ v2' = v2 /\ v3' = v3 /\ v7' = v7 /\ v8' = v8 /\ v9' = v9
    BY <2>1 DEF Projects!Succeed
  <2>3. /\ result \in Nat /\ result <= v2[p] /\ v10 \in [Projects!Projects -> Nat] /\ v6 \in [Projects!Projects -> Projects!Checks]
        /\ Projects!Idle \in Projects!Checks /\ Projects!Idle.at = "idle"
    BY <2>2 DEF Projects!Domains, Projects!Checks, Projects!AnswersAreFresh, Projects!Idle
  <2> HIDE DEF result
  <2>4. CASE v4 = None
    <3>1. v4' = None
      BY <2>2, <2>4 DEF Projects!WithReadiness
    <3>2. Projects!Domains'
      BY <2>2, <2>3, <3>1 DEF Projects!Domains
    <3>3. Projects!AnswersAreFresh'
      BY <2>2, <2>3, <3>1 DEF Projects!AnswersAreFresh, Projects!ResultsStay, Projects!Domains
    <3>4. v6[p].at # "idle" /\ (v8 # "created" => p # Newer)
      BY <2>2, <2>4 DEF Projects!SecondIsListed, Projects!Listed
    <3>5. Projects!SecondIsListed'
      BY <2>2, <2>3, <2>4, <3>1, <3>4 DEF Projects!SecondIsListed, Projects!Listed
    <3> QED
      BY <3>2, <3>3, <3>5
  <2>5. CASE v4 # None
    <3>1. v4 \in Seq(Projects!Entries)
      BY <2>5 DEF Projects!Domains
    <3>2. /\ v4' \in Seq(Projects!Entries) /\ v4' # None /\ DOMAIN v4' = DOMAIN v4
          /\ \A i \in DOMAIN v4 : /\ v4'[i].id = v4[i].id /\ (v4[i].id = p => v4'[i].readiness = result)
                                  /\ v4[i].id # p => v4'[i] = v4[i]
      BY <2>2, <2>3, <3>1, ResultIsReplaced
    <3>3. Projects!Domains'
      BY <2>2, <2>3, <3>2 DEF Projects!Domains
    <3>4. Projects!ResultsStay'
      <4> SUFFICES ASSUME NEW i \in DOMAIN v4
                   PROVE  v4'[i].readiness >= v10'[v4'[i].id] \/ v4'[i].id \in v11'
        BY <3>2 DEF Projects!ResultsStay
      <4>1. v4[i].id \in Projects!Projects /\ v4[i].readiness \in Nat /\ v4'[i].id = v4[i].id
        <5>1. v4[i] \in Projects!Entries
          BY <3>1
        <5> QED
          BY <3>2, <5>1 DEF Projects!Entries
      <4>2. CASE v4[i].id = p
        BY <2>2, <2>3, <3>2, <4>1, <4>2
      <4>3. CASE v4[i].id # p
        BY <2>2, <2>3, <2>5, <3>2, <4>1, <4>3 DEF Projects!AnswersAreFresh, Projects!ResultsStay
      <4> QED
        BY <4>2, <4>3
    <3>5. Projects!AnswersAreFresh'
      BY <2>2, <2>3, <3>4 DEF Projects!AnswersAreFresh
    <3>6. Projects!Listed(Newer)' <=> Projects!Listed(Newer)
      BY <2>5, <3>2 DEF Projects!Listed
    <3>7. Projects!SecondIsListed'
      <4>1. p = Newer /\ v8 # "created" => Projects!Listed(Newer)
        BY <2>2 DEF Projects!SecondIsListed
      <4>2. v6'[Newer].at # "idle" \/ v10'[Newer] # 0 => p = Newer \/ v6[Newer].at # "idle" \/ v10[Newer] # 0
        BY <2>2, <2>3 DEF Projects!Projects
      <4> QED
        BY <2>2, <3>6, <4>1, <4>2 DEF Projects!SecondIsListed
    <3> QED
      BY <3>3, <3>5, <3>7
  <2> QED
    BY <2>4, <2>5
<1>15. CASE \E p \in Projects!Projects : Projects!Fail(p)
  <2>1. Projects!Domains'
    BY <1>15 DEF Projects!Fail, Projects!Domains, Projects!Entries, Projects!Checks, Projects!Idle
  <2>2. Projects!AnswersAreFresh'
    BY <1>15 DEF Projects!Fail, Projects!AnswersAreFresh, Projects!ResultsStay, Projects!Domains,
           Projects!Entries, Projects!Checks, Projects!Idle
  <2>3. Projects!SecondIsListed'
    BY <1>15 DEF Projects!Fail, Projects!SecondIsListed, Projects!Listed, Projects!Domains,
           Projects!Projects, Projects!Idle
  <2> QED
    BY <2>1, <2>2, <2>3
<1>16. CASE \E p \in Projects!Projects : Projects!AskUpdate(p)
  <2>1. Projects!Domains'
    BY <1>16 DEF Projects!AskUpdate, Projects!Domains, Projects!Entries, Projects!Checks, Projects!Idle
  <2>2. Projects!AnswersAreFresh'
    BY <1>16 DEF Projects!AskUpdate, Projects!AnswersAreFresh, Projects!ResultsStay, Projects!Domains,
           Projects!Entries, Projects!Checks, Projects!Idle
  <2>3. Projects!SecondIsListed'
    BY <1>16 DEF Projects!AskUpdate, Projects!SecondIsListed, Projects!Listed, Projects!Domains,
           Projects!Projects, Projects!Idle
  <2> QED
    BY <2>1, <2>2, <2>3
<1>17. CASE \E p \in Projects!Projects : Projects!ServeUpdate(p)
  <2>1. Projects!Domains'
    <3>1. PICK p \in Projects!Projects : Projects!ServeUpdate(p)
      BY <1>17
    <3>2. PICK e : e = [id |-> p, readiness |-> v2[p], metadata |-> v3'[p]]
      OBVIOUS
    <3>3. v3' = [v3 EXCEPT ![p] = v3[p] + 1] /\ v7' = [v7 EXCEPT ![p] = e]
      BY <3>1, <3>2 DEF Projects!ServeUpdate
    <3>4. v3 \in [Projects!Projects -> Nat] /\ v2 \in [Projects!Projects -> Nat] /\ v3[p] + 1 \in Nat
      BY DEF Projects!Domains
    <3>5. v3' \in [Projects!Projects -> Nat] /\ v3'[p] \in Nat /\ v2[p] \in Nat
      BY <3>3, <3>4
    <3>6. e \in Projects!Entries
      BY <3>2, <3>5 DEF Projects!Entries
    <3>7. v7 \in [Projects!Projects -> {None, Unread} \cup Projects!Entries]
      BY DEF Projects!Domains
    <3>8. v7' \in [Projects!Projects -> {None, Unread} \cup Projects!Entries]
      BY <3>3, <3>6, <3>7
    <3> QED
      BY <3>1, <3>5, <3>8 DEF Projects!ServeUpdate, Projects!Domains
  <2>2. Projects!AnswersAreFresh'
    BY <1>17 DEF Projects!ServeUpdate, Projects!AnswersAreFresh, Projects!ResultsStay, Projects!Domains,
           Projects!Entries, Projects!Checks, Projects!Idle
  <2>3. Projects!SecondIsListed'
    BY <1>17 DEF Projects!ServeUpdate, Projects!SecondIsListed, Projects!Listed, Projects!Domains,
           Projects!Projects, Projects!Idle
  <2> QED
    BY <2>1, <2>2, <2>3
<1>18. CASE \E p \in Projects!Projects : Projects!EndUpdate(p)
  <2>1. PICK p \in Projects!Projects : Projects!EndUpdate(p)
    BY <1>18
  <2> DEFINE e == v7[p]
  <2>2. /\ e \notin {None, Unread} /\ v4' = Projects!With(v4, p, e) /\ v7' = [v7 EXCEPT ![p] = None]
        /\ v1' = v1 /\ v2' = v2 /\ v3' = v3 /\ v5' = v5 /\ v6' = v6 /\ v8' = v8 /\ v9' = v9 /\ v10' = v10 /\ v11' = v11
    BY <2>1 DEF Projects!EndUpdate
  <2>3. e \in Projects!Entries /\ e.id = p /\ (e.readiness >= v10[p] \/ p \in v11)
    BY <2>2 DEF Projects!Domains, Projects!AnswersAreFresh
  <2> HIDE DEF e
  <2>4. v7' \in [Projects!Projects -> {None, Unread} \cup Projects!Entries]
        /\ \A q \in Projects!Projects : v7'[q] \notin {None, Unread} => v7'[q] = v7[q]
    BY <2>2 DEF Projects!Domains
  <2>5. CASE v4 = None
    <3>1. v4' = v4
      BY <2>2, <2>5 DEF Projects!With
    <3> QED
      BY <2>2, <2>4, <3>1 DEF Projects!Domains, Projects!AnswersAreFresh, Projects!ResultsStay,
          Projects!SecondIsListed, Projects!Listed
  <2>6. CASE v4 # None
    <3>1. v4 \in Seq(Projects!Entries)
      BY <2>6 DEF Projects!Domains
    <3>2. /\ v4' \in Seq(Projects!Entries) /\ v4' # None /\ DOMAIN v4' = DOMAIN v4
          /\ \A i \in DOMAIN v4 : v4'[i] = IF v4[i].id = p THEN e ELSE v4[i]
      BY <2>2, <2>3, <3>1, EntryIsReplaced
    <3>3. Projects!Domains'
      BY <2>2, <2>4, <3>2 DEF Projects!Domains
    <3>4. Projects!ResultsStay'
      BY <2>2, <2>3, <2>6, <3>2 DEF Projects!AnswersAreFresh, Projects!ResultsStay
    <3>5. Projects!AnswersAreFresh'
      BY <2>2, <2>4, <3>4 DEF Projects!AnswersAreFresh
    <3>6. Projects!Listed(Newer)' <=> Projects!Listed(Newer)
      BY <2>3, <2>6, <3>2 DEF Projects!Listed
    <3>7. Projects!SecondIsListed'
      BY <2>2, <3>6 DEF Projects!SecondIsListed
    <3> QED
      BY <3>3, <3>5, <3>7
  <2> QED
    BY <2>5, <2>6
<1>19. CASE UNCHANGED Projects!projectListVars
  <2>1. Projects!Domains'
    BY <1>19 DEF Projects!projectListVars, Projects!Domains, Projects!Entries, Projects!Checks,
           Projects!Idle
  <2>2. Projects!AnswersAreFresh'
    BY <1>19 DEF Projects!projectListVars, Projects!AnswersAreFresh, Projects!ResultsStay, Projects!Domains,
           Projects!Entries, Projects!Checks, Projects!Idle
  <2>3. Projects!SecondIsListed'
    BY <1>19 DEF Projects!projectListVars, Projects!SecondIsListed, Projects!Listed, Projects!Domains,
           Projects!Projects, Projects!Idle
  <2> QED
    BY <2>1, <2>2, <2>3
<1> QED
  BY <1>1, <1>2, <1>3, <1>4, <1>5, <1>6, <1>7, <1>8, <1>9, <1>10, <1>11, <1>12, <1>13, <1>14, <1>15, <1>16,
     <1>17, <1>18, <1>19 DEF Projects!Next

\* A result the developer waited for is not replaced by an older one but by an answer that was
\* on its way with it, and what was created is not offered again, for any bounds, where None is
\* no list.
THEOREM NewestResultStays ==
  ASSUME None \notin Seq(Projects!Entries)
  PROVE  PartsSpec => []NewestResultIsShown
<1>1. PartsInit /\ part = "projects" => Projects!Init
  BY DEF PartsInit
<1>2. [PartsNext]_all /\ part = "projects" => [Projects!Next]_(Projects!projectListVars)
  BY DEF PartsNext, all, Projects!projectListVars
<1>3. [PartsNext]_all => (part = "projects" <=> (part = "projects")')
  BY PartStays
<1>4. ProjectsInv => Projects!ResultsStay /\ Projects!CreatedIsNotOfferedAgain
  BY DEF ProjectsInv, Projects!AnswersAreFresh, Projects!SecondIsListed, Projects!CreatedIsNotOfferedAgain,
         Projects!PendingHandoff
<1>5. (part = "projects" => ProjectsInv) => NewestResultIsShown
  BY <1>4 DEF NewestResultIsShown
<1> QED
  BY <1>1, <1>2, <1>3, <1>5, ProjectsInit, ProjectsStep, PTL DEF PartsSpec
-----------------------------------------------------------------------------
(***************************************************************************)
(* The form that creates a project.                                        *)
(***************************************************************************)
FormInv == Form!Domains /\ Form!SubmissionIsOneOffer /\ Form!ChoicesAreOnTheList

\* What is inferred is the only one there is.
LEMMA OnlyOne ==
  ASSUME NEW S, IsFiniteSet(S), None \notin S
  PROVE  /\ Form!The(S) # None => S = {Form!The(S)}
         /\ \A x : S = {x} => Form!The(S) = x
<1>1. Form!Cardinality(S) = Cardinality(S)
  BY DEF Form!Cardinality, Cardinality
<1>2. Cardinality(S) = 1 <=> \E x : S = {x}
  BY FS_Singleton
<1> QED
  BY <1>1, <1>2 DEF Form!The

\* The repository, the project and the model that are selected are on their lists.
LEMMA SelectedIsOffered ==
  ASSUME Form!OffersAreLists, v1 \in Setups
  PROVE  /\ Form!SelectedRepository # None =>
              Form!SelectedRepository \in v1.repositories /\ Form!SelectedRepository.fullName = Form!RepoFullName
         /\ Form!SelectedProject # None =>
              /\ Form!SelectedProject \in Form!MatchingProjects
              /\ Form!SelectedProject.key = Form!AgentProjectKey
              /\ \A q \in Form!MatchingProjects : q.key = Form!AgentProjectKey => q = Form!SelectedProject
         /\ \A m \in Form!ModelOptions :
              \A n \in Form!ModelOptions : m.id = n.id => m = n
         /\ IsFiniteSet(Form!ModelOptions) /\ None \notin Form!ModelOptions
         /\ Form!SelectedModel # None =>
              Form!SelectedModel \in Form!ModelOptions /\ Form!SelectedModel.id = Form!DefaultModel
<1>1. Form!SelectedRepository # None =>
        Form!SelectedRepository \in v1.repositories /\ Form!SelectedRepository.fullName = Form!RepoFullName
  <2> DEFINE S == {r \in v1.repositories : r.fullName = Form!RepoFullName}
  <2>1. S \in SUBSET v1.repositories /\ IsFiniteSet(v1.repositories) /\ None \notin S
    BY DEF Form!OffersAreLists, Form!IsFiniteSet, IsFiniteSet
  <2>2. IsFiniteSet(S)
    BY <2>1, FS_Subset
  <2>3. Form!SelectedRepository = Form!The(S)
    BY DEF Form!SelectedRepository
  <2>4. Form!The(S) # None => Form!The(S) \in S
    BY <2>1, <2>2, OnlyOne
  <2> QED
    BY <2>3, <2>4
<1>2. Form!SelectedProject # None =>
        /\ Form!SelectedProject \in Form!MatchingProjects
        /\ Form!SelectedProject.key = Form!AgentProjectKey
        /\ \A q \in Form!MatchingProjects : q.key = Form!AgentProjectKey => q = Form!SelectedProject
  <2> DEFINE S == {p \in Form!MatchingProjects : p.key = Form!AgentProjectKey}
  <2>1. S \in SUBSET v1.projects /\ IsFiniteSet(v1.projects) /\ None \notin S
    BY DEF Form!OffersAreLists, Form!IsFiniteSet, IsFiniteSet, Form!MatchingProjects
  <2>2. IsFiniteSet(S)
    BY <2>1, FS_Subset
  <2>3. Form!SelectedProject = Form!The(S)
    BY DEF Form!SelectedProject
  <2>4. Form!The(S) # None => S = {Form!The(S)}
    BY <2>1, <2>2, OnlyOne
  <2>5. Form!SelectedProject # None => S = {Form!SelectedProject}
    BY <2>3, <2>4
  <2> QED
    BY <2>5
<1>3. Form!SelectedProject # None => Form!SelectedProject \in v1.projects
  BY <1>2 DEF Form!MatchingProjects
<1>4. /\ \A m \in Form!ModelOptions : \A n \in Form!ModelOptions : m.id = n.id => m = n
      /\ None \notin Form!ModelOptions
  BY <1>3 DEF Form!OffersAreLists, Form!ModelOptions
<1>5. IsFiniteSet(Form!ModelOptions)
  <2>1. CASE Form!SelectedProject = None
    BY <2>1, FS_EmptySet DEF Form!ModelOptions
  <2>2. CASE Form!SelectedProject # None
    <3>1. Form!ModelOptions \in SUBSET Form!SelectedProject.agentModels
      BY <2>2 DEF Form!ModelOptions
    <3>2. IsFiniteSet(Form!SelectedProject.agentModels)
      BY <1>3, <2>2 DEF Form!OffersAreLists, Form!IsFiniteSet, IsFiniteSet
    <3> QED
      BY <3>1, <3>2, FS_Subset
  <2> QED
    BY <2>1, <2>2
<1>6. Form!SelectedModel # None =>
        Form!SelectedModel \in Form!ModelOptions /\ Form!SelectedModel.id = Form!DefaultModel
  <2> DEFINE S == {m \in Form!ModelOptions : m.id = Form!DefaultModel}
  <2>1. IsFiniteSet(S) /\ None \notin S
    BY <1>4, <1>5, FS_Subset
  <2>2. Form!SelectedModel = Form!The(S)
    BY DEF Form!SelectedModel
  <2>3. Form!The(S) # None => Form!The(S) \in S
    BY <2>1, OnlyOne
  <2> QED
    BY <2>2, <2>3
<1> QED
  BY <1>1, <1>2, <1>4, <1>5, <1>6

\* A choice that leaves the repository as it is leaves the offers of that repository.
LEMMA SameRepository ==
  ASSUME v1' = v1, v2' = v2, Form!RepoFullName' = Form!RepoFullName
  PROVE  /\ Form!SelectedRepository' = Form!SelectedRepository
         /\ Form!MatchingProjects' = Form!MatchingProjects
         /\ Form!InferredProject' = Form!InferredProject
<1>1. Form!Repositories' = Form!Repositories
  BY DEF Form!Repositories
<1>2. Form!HandoffProject' = Form!HandoffProject
  BY <1>1 DEF Form!HandoffProject, Form!The
<1>3. Form!SelectedRepository' = Form!SelectedRepository
  BY DEF Form!SelectedRepository, Form!The
<1>4. Form!MatchingProjects' = Form!MatchingProjects
  BY <1>3 DEF Form!MatchingProjects
<1>5. Form!InferredProject' = Form!InferredProject
  BY <1>2, <1>3, <1>4 DEF Form!InferredProject, Form!The
<1> QED
  BY <1>3, <1>4, <1>5

\* One that leaves the key as well leaves the project and its models.
LEMMA SameProject ==
  ASSUME v1' = v1, v2' = v2, Form!RepoFullName' = Form!RepoFullName, v3'.key = v3.key
  PROVE  /\ Form!AgentProjectKey' = Form!AgentProjectKey
         /\ Form!SelectedProject' = Form!SelectedProject
         /\ Form!ModelOptions' = Form!ModelOptions
<1>1. Form!MatchingProjects' = Form!MatchingProjects /\ Form!InferredProject' = Form!InferredProject
  BY SameRepository
<1>2. Form!AgentProjectKey' = Form!AgentProjectKey
  BY <1>1 DEF Form!AgentProjectKey, Form!Or
<1>3. Form!SelectedProject' = Form!SelectedProject
  BY <1>1, <1>2 DEF Form!SelectedProject, Form!The
<1> QED
  BY <1>2, <1>3 DEF Form!ModelOptions

\* And one that leaves the model leaves its efforts.
LEMMA SameModel ==
  ASSUME v1' = v1, v2' = v2, Form!RepoFullName' = Form!RepoFullName, v3'.key = v3.key, v3'.model = v3.model
  PROVE  /\ Form!SelectedModel' = Form!SelectedModel
         /\ Form!ReasoningOptions' = Form!ReasoningOptions
         /\ Form!InferredReasoning' = Form!InferredReasoning
<1>1. Form!ModelOptions' = Form!ModelOptions
  BY SameProject
<1>2. Form!DefaultModel' = Form!DefaultModel
  BY <1>1 DEF Form!DefaultModel, Form!Or, Form!The
<1>3. Form!SelectedModel' = Form!SelectedModel
  BY <1>1, <1>2 DEF Form!SelectedModel, Form!The
<1>4. Form!ReasoningOptions' = Form!ReasoningOptions
  BY <1>3 DEF Form!ReasoningOptions
<1> QED
  BY <1>3, <1>4 DEF Form!InferredReasoning, Form!The

LEMMA FormInit == Form!Init => FormInv
BY DEF Form!Init, FormInv, Form!Domains, Form!NoEdits, Form!SubmissionIsOneOffer, Form!ChoicesAreOnTheList

LEMMA FormStep ==
  ASSUME Form!OffersAreLists
  PROVE  FormInv /\ [Form!Next]_(Form!formVars) => FormInv'
<1> SUFFICES ASSUME FormInv, [Form!Next]_(Form!formVars)
             PROVE  FormInv'
  OBVIOUS
<1> USE DEF FormInv
<1>1. CASE \E repo \in Form!Repositories : Form!RepositoryChange(repo)
  <2>0. PICK repo \in Form!Repositories : Form!RepositoryChange(repo)
    BY <1>1
  <2>1. /\ v1' = v1 /\ v2' = v2 /\ v5' = v5 /\ v4' = (v4 /\ v3' # [Form!NoEdits EXCEPT !.repo = v3'.repo])
    BY <2>0 DEF Form!RepositoryChange, Form!Edit
  <2>2. v3' = [repo |-> repo, key |-> None, branch |-> None, model |-> None, effort |-> None]
    BY <2>0 DEF Form!RepositoryChange, Form!Edit, Form!Domains, Form!NoEdits
  <2>3. Form!SubmissionIsOneOffer'
    BY <2>1 DEF Form!SubmissionIsOneOffer
  <2>4. Form!Domains'
    BY <2>1, <2>2 DEF Form!Domains
  <2>5. Form!ChoicesAreOnTheList'
    BY <2>2 DEF Form!ChoicesAreOnTheList
  <2> QED
    BY <2>3, <2>4, <2>5
<1>2. CASE \E p \in Form!MatchingProjects : Form!AgentProjectChange(p.key)
  <2>0. PICK p \in Form!MatchingProjects : Form!AgentProjectChange(p.key)
    BY <1>2
  <2>1. /\ v1' = v1 /\ v2' = v2 /\ v5' = v5 /\ v4' = (v4 /\ v3' # [Form!NoEdits EXCEPT !.repo = v3'.repo])
    BY <2>0 DEF Form!AgentProjectChange, Form!Edit
  <2>2. v3' = [repo |-> Form!RepoFullName, key |-> p.key, branch |-> v3.branch, model |-> None, effort |-> None]
    BY <2>0 DEF Form!AgentProjectChange, Form!Edit, Form!Domains, Form!NoEdits
  <2>3. Form!SubmissionIsOneOffer'
    BY <2>1 DEF Form!SubmissionIsOneOffer
  <2>4. Form!Domains'
    BY <2>1, <2>2 DEF Form!Domains
  <2>5. v4' => v4
    BY <2>1
  <2>6. ~v4' => ~v4 \/ (v3'.branch = None /\ v3'.key = None /\ v3'.model = None /\ v3'.effort = None)
    BY <2>1 DEF Form!NoEdits
  <2>7. Form!RepoFullName' = Form!RepoFullName
    BY <2>1, <2>2 DEF Form!RepoFullName, Form!Or, Form!InferredRepository, Form!HandoffProject, Form!Repositories, Form!The
  <2>8. Form!SelectedRepository' = Form!SelectedRepository /\ Form!MatchingProjects' = Form!MatchingProjects
    BY <2>1, <2>7, SameRepository
  <2>11. v3'.branch # None => v4 \/ Form!DefaultBranch' \in Form!SelectedRepository'.branches
    BY <2>2, <2>8 DEF Form!ChoicesAreOnTheList, Form!DefaultBranch, Form!Or
  <2>12. v3'.key # None => v4 \/ (\E q \in Form!MatchingProjects : q.key = Form!AgentProjectKey)'
    BY <2>0, <2>2, <2>8 DEF Form!AgentProjectKey, Form!Or
  <2>13. v3'.model = None /\ v3'.effort = None
    BY <2>2
  <2>15. Form!ChoicesAreOnTheList'
    BY <2>6, <2>11, <2>12, <2>13 DEF Form!ChoicesAreOnTheList
  <2> QED
    BY <2>3, <2>4, <2>15
<1>3. CASE \E m \in Form!ModelOptions : Form!ModelChange(m.id)
  <2>0. PICK m \in Form!ModelOptions : Form!ModelChange(m.id)
    BY <1>3
  <2>1. /\ v1' = v1 /\ v2' = v2 /\ v5' = v5 /\ v4' = (v4 /\ v3' # [Form!NoEdits EXCEPT !.repo = v3'.repo])
    BY <2>0 DEF Form!ModelChange, Form!Edit
  <2>2. v3' = [repo |-> v3.repo, key |-> v3.key, branch |-> v3.branch, model |-> m.id, effort |-> None]
    BY <2>0 DEF Form!ModelChange, Form!Edit, Form!Domains, Form!NoEdits
  <2>3. Form!SubmissionIsOneOffer'
    BY <2>1 DEF Form!SubmissionIsOneOffer
  <2>4. Form!Domains'
    BY <2>1, <2>2 DEF Form!Domains
  <2>5. v4' => v4
    BY <2>1
  <2>6. ~v4' => ~v4 \/ (v3'.branch = None /\ v3'.key = None /\ v3'.model = None /\ v3'.effort = None)
    BY <2>1 DEF Form!NoEdits
  <2>7. Form!RepoFullName' = Form!RepoFullName
    BY <2>1, <2>2 DEF Form!RepoFullName, Form!Or, Form!InferredRepository, Form!HandoffProject, Form!Repositories, Form!The
  <2>8. Form!SelectedRepository' = Form!SelectedRepository /\ Form!MatchingProjects' = Form!MatchingProjects
    BY <2>1, <2>7, SameRepository
  <2>9. /\ Form!AgentProjectKey' = Form!AgentProjectKey /\ Form!SelectedProject' = Form!SelectedProject
        /\ Form!ModelOptions' = Form!ModelOptions
    BY <2>1, <2>2, <2>7, SameProject
  <2>11. v3'.branch # None => v4 \/ Form!DefaultBranch' \in Form!SelectedRepository'.branches
    BY <2>2, <2>8 DEF Form!ChoicesAreOnTheList, Form!DefaultBranch, Form!Or
  <2>12. v3'.key # None => v4 \/ (\E p \in Form!MatchingProjects : p.key = Form!AgentProjectKey)'
    BY <2>2, <2>8, <2>9 DEF Form!ChoicesAreOnTheList
  <2>13. v3'.model # None => v4 \/ Form!SelectedModel' # None
    <3>1. SUFFICES ASSUME m.id # None
                   PROVE  Form!SelectedModel' # None
      BY <2>2
    <3>2. Form!DefaultModel' = m.id
      BY <2>2, <3>1 DEF Form!DefaultModel, Form!Or
    <3>3. Form!SelectedModel' = Form!The({n \in Form!ModelOptions : n.id = m.id})
      BY <2>9, <3>2 DEF Form!SelectedModel, Form!The
    <3>4. {n \in Form!ModelOptions : n.id = m.id} = {m}
      BY <2>0, SelectedIsOffered DEF Form!Domains
    <3>5. m # None
      BY <2>0, SelectedIsOffered DEF Form!Domains
    <3>6. Form!The({m}) = m
      BY <3>5, FS_Singleton, OnlyOne
    <3> QED
      BY <3>3, <3>4, <3>5, <3>6
  <2>14. v3'.effort = None
    BY <2>2
  <2>15. Form!ChoicesAreOnTheList'
    BY <2>6, <2>11, <2>12, <2>13, <2>14 DEF Form!ChoicesAreOnTheList
  <2> QED
    BY <2>3, <2>4, <2>15
<1>4. CASE \E branch \in Form!SelectedRepository.branches : Form!BranchChange(branch)
  <2>0. PICK branch \in Form!SelectedRepository.branches : Form!BranchChange(branch)
    BY <1>4
  <2>1. /\ v1' = v1 /\ v2' = v2 /\ v5' = v5 /\ v4' = (v4 /\ v3' # [Form!NoEdits EXCEPT !.repo = v3'.repo])
    BY <2>0 DEF Form!BranchChange, Form!Edit
  <2>2. v3' = [repo |-> v3.repo, key |-> v3.key, branch |-> branch, model |-> v3.model, effort |-> v3.effort]
    BY <2>0 DEF Form!BranchChange, Form!Edit, Form!Domains, Form!NoEdits
  <2>3. Form!SubmissionIsOneOffer'
    BY <2>1 DEF Form!SubmissionIsOneOffer
  <2>4. Form!Domains'
    BY <2>1, <2>2 DEF Form!Domains
  <2>5. v4' => v4
    BY <2>1
  <2>6. ~v4' => ~v4 \/ (v3'.branch = None /\ v3'.key = None /\ v3'.model = None /\ v3'.effort = None)
    BY <2>1 DEF Form!NoEdits
  <2>7. Form!RepoFullName' = Form!RepoFullName
    BY <2>1, <2>2 DEF Form!RepoFullName, Form!Or, Form!InferredRepository, Form!HandoffProject, Form!Repositories, Form!The
  <2>8. Form!SelectedRepository' = Form!SelectedRepository /\ Form!MatchingProjects' = Form!MatchingProjects
    BY <2>1, <2>7, SameRepository
  <2>9. /\ Form!AgentProjectKey' = Form!AgentProjectKey /\ Form!SelectedProject' = Form!SelectedProject
        /\ Form!ModelOptions' = Form!ModelOptions
    BY <2>1, <2>2, <2>7, SameProject
  <2>10. /\ Form!SelectedModel' = Form!SelectedModel /\ Form!ReasoningOptions' = Form!ReasoningOptions
         /\ Form!InferredReasoning' = Form!InferredReasoning
    BY <2>1, <2>2, <2>7, SameModel
  <2>11. v3'.branch # None => v4 \/ Form!DefaultBranch' \in Form!SelectedRepository'.branches
    BY <2>0, <2>2, <2>8 DEF Form!DefaultBranch, Form!Or
  <2>12. v3'.key # None => v4 \/ (\E p \in Form!MatchingProjects : p.key = Form!AgentProjectKey)'
    BY <2>2, <2>8, <2>9 DEF Form!ChoicesAreOnTheList
  <2>13. v3'.model # None => v4 \/ Form!SelectedModel' # None
    BY <2>2, <2>10 DEF Form!ChoicesAreOnTheList
  <2>14. v3'.effort # None => v4 \/ Form!DefaultReasoning' \in Form!ReasoningOptions'
    BY <2>2, <2>10 DEF Form!ChoicesAreOnTheList, Form!DefaultReasoning, Form!Or
  <2>15. Form!ChoicesAreOnTheList'
    BY <2>6, <2>11, <2>12, <2>13, <2>14 DEF Form!ChoicesAreOnTheList
  <2> QED
    BY <2>3, <2>4, <2>15
<1>5. CASE \E effort \in Form!ReasoningOptions : Form!ReasoningChange(effort)
  <2>0. PICK effort \in Form!ReasoningOptions : Form!ReasoningChange(effort)
    BY <1>5
  <2>1. /\ v1' = v1 /\ v2' = v2 /\ v5' = v5 /\ v4' = (v4 /\ v3' # [Form!NoEdits EXCEPT !.repo = v3'.repo])
    BY <2>0 DEF Form!ReasoningChange, Form!Edit
  <2>2. v3' = [repo |-> v3.repo, key |-> v3.key, branch |-> v3.branch, model |-> v3.model, effort |-> effort]
    BY <2>0 DEF Form!ReasoningChange, Form!Edit, Form!Domains, Form!NoEdits
  <2>3. Form!SubmissionIsOneOffer'
    BY <2>1 DEF Form!SubmissionIsOneOffer
  <2>4. Form!Domains'
    BY <2>1, <2>2 DEF Form!Domains
  <2>5. v4' => v4
    BY <2>1
  <2>6. ~v4' => ~v4 \/ (v3'.branch = None /\ v3'.key = None /\ v3'.model = None /\ v3'.effort = None)
    BY <2>1 DEF Form!NoEdits
  <2>7. Form!RepoFullName' = Form!RepoFullName
    BY <2>1, <2>2 DEF Form!RepoFullName, Form!Or, Form!InferredRepository, Form!HandoffProject, Form!Repositories, Form!The
  <2>8. Form!SelectedRepository' = Form!SelectedRepository /\ Form!MatchingProjects' = Form!MatchingProjects
    BY <2>1, <2>7, SameRepository
  <2>9. /\ Form!AgentProjectKey' = Form!AgentProjectKey /\ Form!SelectedProject' = Form!SelectedProject
        /\ Form!ModelOptions' = Form!ModelOptions
    BY <2>1, <2>2, <2>7, SameProject
  <2>10. /\ Form!SelectedModel' = Form!SelectedModel /\ Form!ReasoningOptions' = Form!ReasoningOptions
         /\ Form!InferredReasoning' = Form!InferredReasoning
    BY <2>1, <2>2, <2>7, SameModel
  <2>11. v3'.branch # None => v4 \/ Form!DefaultBranch' \in Form!SelectedRepository'.branches
    BY <2>2, <2>8 DEF Form!ChoicesAreOnTheList, Form!DefaultBranch, Form!Or
  <2>12. v3'.key # None => v4 \/ (\E p \in Form!MatchingProjects : p.key = Form!AgentProjectKey)'
    BY <2>2, <2>8, <2>9 DEF Form!ChoicesAreOnTheList
  <2>13. v3'.model # None => v4 \/ Form!SelectedModel' # None
    BY <2>2, <2>10 DEF Form!ChoicesAreOnTheList
  <2>14. v3'.effort # None => v4 \/ Form!DefaultReasoning' \in Form!ReasoningOptions'
    BY <2>0, <2>2, <2>10 DEF Form!DefaultReasoning, Form!Or
  <2>15. Form!ChoicesAreOnTheList'
    BY <2>6, <2>11, <2>12, <2>13, <2>14 DEF Form!ChoicesAreOnTheList
  <2> QED
    BY <2>3, <2>4, <2>15
<1>6. CASE Form!Submit
  <2>1. v5' = [values |-> Form!Values, setup |-> v1] /\ v1' = v1 /\ v2' = v2 /\ ((v3' = v3 /\ (~v4' => ~v4)) \/ v3' = Form!NoEdits)
    BY <1>6 DEF Form!Submit
  <2>2. Form!Domains'
    BY <1>6 DEF Form!Submit, Form!Domains
  <2>3. Form!SubmissionIsOneOffer'
    <3> DEFINE r == Form!SelectedRepository
               p == Form!SelectedProject
               m == Form!SelectedModel
    <3>1. /\ r # None /\ p # None /\ m # None /\ Form!DefaultBranch \in r.branches
          /\ Form!DefaultReasoning \in Form!ReasoningOptions
      BY <1>6 DEF Form!Submit, Form!CanCreate
    <3>2. r \in v1.repositories /\ r.fullName = Form!RepoFullName
      BY <3>1, SelectedIsOffered DEF Form!Domains
    <3>3. /\ p \in v1.projects /\ p.repo = Form!RepoFullName /\ p.key = Form!AgentProjectKey
          /\ \A q \in v1.projects : q.repo = Form!RepoFullName /\ q.key = Form!AgentProjectKey => q = p
      <4>1. /\ p \in Form!MatchingProjects /\ p.key = Form!AgentProjectKey
            /\ \A q \in Form!MatchingProjects : q.key = Form!AgentProjectKey => q = p
        BY <3>1, SelectedIsOffered DEF Form!Domains
      <4> QED
        BY <3>1, <4>1 DEF Form!MatchingProjects
    <3>4. m \in p.agentModels /\ m.id = Form!DefaultModel /\ (p.models = {} \/ m.id \in p.models)
      <4>1. m \in Form!ModelOptions /\ m.id = Form!DefaultModel
        BY <3>1, SelectedIsOffered DEF Form!Domains
      <4> QED
        BY <3>1, <4>1 DEF Form!ModelOptions
    <3>5. Form!DefaultReasoning \in (IF m.efforts = {} THEN {"medium"} ELSE m.efforts)
      BY <3>1 DEF Form!ReasoningOptions
    <3> HIDE DEF r, p, m
    <3>6. /\ Form!Values.repo = Form!RepoFullName /\ Form!Values.key = Form!AgentProjectKey
          /\ Form!Values.branch = Form!DefaultBranch /\ Form!Values.model = Form!DefaultModel
          /\ Form!Values.effort = Form!DefaultReasoning
      BY DEF Form!Values
    <3>7. v5'.values = Form!Values /\ v5'.setup = v1
      BY <2>1
    <3> QED
      BY <3>1, <3>2, <3>3, <3>4, <3>5, <3>6, <3>7 DEF Form!SubmissionIsOneOffer
  <2>5. Form!ChoicesAreOnTheList'
    <3>1. CASE v3' = v3 /\ (~v4' => ~v4)
      <4>1. Form!RepoFullName' = Form!RepoFullName
        BY <2>1, <3>1 DEF Form!RepoFullName, Form!Or, Form!InferredRepository, Form!HandoffProject, Form!Repositories, Form!The
      <4>2. /\ Form!SelectedRepository' = Form!SelectedRepository /\ Form!MatchingProjects' = Form!MatchingProjects
            /\ Form!AgentProjectKey' = Form!AgentProjectKey /\ Form!SelectedProject' = Form!SelectedProject
            /\ Form!SelectedModel' = Form!SelectedModel /\ Form!ReasoningOptions' = Form!ReasoningOptions
            /\ Form!InferredReasoning' = Form!InferredReasoning
        BY <2>1, <3>1, <4>1, SameRepository, SameProject, SameModel
      <4> QED
        BY <3>1, <4>2 DEF Form!ChoicesAreOnTheList, Form!DefaultBranch, Form!DefaultReasoning, Form!Or
    <3>2. CASE v3' = Form!NoEdits
      BY <3>2 DEF Form!ChoicesAreOnTheList, Form!NoEdits
    <3> QED
      BY <2>1, <3>1, <3>2
  <2> QED
    BY <2>2, <2>3, <2>5
<1>7. CASE Form!Refresh
  <2>1. v1' \in Setups /\ v3' = v3 /\ v5' = v5 /\ v4' = (v3 # Form!NoEdits)
    BY <1>7 DEF Form!Refresh
  <2>2. Form!Domains'
    BY <2>1 DEF Form!Domains
  <2>3. Form!SubmissionIsOneOffer'
    BY <2>1 DEF Form!SubmissionIsOneOffer
  <2>4. Form!ChoicesAreOnTheList'
    <3>1. CASE v3 = Form!NoEdits
      BY <2>1, <3>1 DEF Form!ChoicesAreOnTheList, Form!NoEdits
    <3>2. CASE v3 # Form!NoEdits
      BY <2>1, <3>2 DEF Form!ChoicesAreOnTheList
    <3> QED
      BY <3>1, <3>2
  <2> QED
    BY <2>2, <2>3, <2>4
<1>8. CASE Form!Answer
  <2>1. v1' = v1 /\ v2' = v2 /\ v5' = None /\ ((v3' = v3 /\ (~v4' => ~v4)) \/ v3' = Form!NoEdits)
    BY <1>8 DEF Form!Answer, Form!Domains, Form!NoEdits
  <2>2. Form!Domains'
    BY <2>1 DEF Form!Domains, Form!NoEdits
  <2>3. Form!SubmissionIsOneOffer'
    BY <2>1 DEF Form!SubmissionIsOneOffer
  <2>5. Form!ChoicesAreOnTheList'
    <3>1. CASE v3' = v3 /\ (~v4' => ~v4)
      <4>1. Form!RepoFullName' = Form!RepoFullName
        BY <2>1, <3>1 DEF Form!RepoFullName, Form!Or, Form!InferredRepository, Form!HandoffProject, Form!Repositories, Form!The
      <4>2. /\ Form!SelectedRepository' = Form!SelectedRepository /\ Form!MatchingProjects' = Form!MatchingProjects
            /\ Form!AgentProjectKey' = Form!AgentProjectKey /\ Form!SelectedProject' = Form!SelectedProject
            /\ Form!SelectedModel' = Form!SelectedModel /\ Form!ReasoningOptions' = Form!ReasoningOptions
            /\ Form!InferredReasoning' = Form!InferredReasoning
        BY <2>1, <3>1, <4>1, SameRepository, SameProject, SameModel
      <4> QED
        BY <3>1, <4>2 DEF Form!ChoicesAreOnTheList, Form!DefaultBranch, Form!DefaultReasoning, Form!Or
    <3>2. CASE v3' = Form!NoEdits
      BY <3>2 DEF Form!ChoicesAreOnTheList, Form!NoEdits
    <3> QED
      BY <2>1, <3>1, <3>2
  <2> QED
    BY <2>2, <2>3, <2>5
<1>9. CASE UNCHANGED Form!formVars
  <2>1. v1' = v1 /\ v2' = v2 /\ v5' = v5 /\ ((v3' = v3 /\ (~v4' => ~v4)) \/ v3' = Form!NoEdits)
    BY <1>9 DEF Form!formVars
  <2>2. Form!Domains'
    BY <1>9 DEF Form!formVars, Form!Domains
  <2>3. Form!SubmissionIsOneOffer'
    BY <2>1 DEF Form!SubmissionIsOneOffer
  <2>5. Form!ChoicesAreOnTheList'
    <3>1. CASE v3' = v3 /\ (~v4' => ~v4)
      <4>1. Form!RepoFullName' = Form!RepoFullName
        BY <2>1, <3>1 DEF Form!RepoFullName, Form!Or, Form!InferredRepository, Form!HandoffProject, Form!Repositories, Form!The
      <4>2. /\ Form!SelectedRepository' = Form!SelectedRepository /\ Form!MatchingProjects' = Form!MatchingProjects
            /\ Form!AgentProjectKey' = Form!AgentProjectKey /\ Form!SelectedProject' = Form!SelectedProject
            /\ Form!SelectedModel' = Form!SelectedModel /\ Form!ReasoningOptions' = Form!ReasoningOptions
            /\ Form!InferredReasoning' = Form!InferredReasoning
        BY <2>1, <3>1, <4>1, SameRepository, SameProject, SameModel
      <4> QED
        BY <3>1, <4>2 DEF Form!ChoicesAreOnTheList, Form!DefaultBranch, Form!DefaultReasoning, Form!Or
    <3>2. CASE v3' = Form!NoEdits
      BY <3>2 DEF Form!ChoicesAreOnTheList, Form!NoEdits
    <3> QED
      BY <2>1, <3>1, <3>2
  <2> QED
    BY <2>2, <2>3, <2>5
<1> QED
  BY <1>1, <1>2, <1>3, <1>4, <1>5, <1>6, <1>7, <1>8, <1>9 DEF Form!Next, Form!Choose

\* What is submitted is one offer, and a choice can be made again while its setup is there, for
\* any repositories, projects and models.
THEOREM ChoicesAreConsistent ==
  ASSUME Form!OffersAreLists
  PROVE  PartsSpec => []ChoicesStayConsistent
<1>1. PartsInit /\ part = "form" => Form!Init
  BY DEF PartsInit
<1>2. [PartsNext]_all /\ part = "form" => [Form!Next]_(Form!formVars)
  BY DEF PartsNext, all, Form!formVars
<1>3. [PartsNext]_all => (part = "form" <=> (part = "form")')
  BY PartStays
<1>4. FormInv => Form!SubmissionIsOneOffer /\ Form!ChoicesAreOnTheList
  BY DEF FormInv
<1>5. (part = "form" => FormInv) => ChoicesStayConsistent
  BY <1>4 DEF ChoicesStayConsistent
<1> QED
  BY <1>1, <1>2, <1>3, <1>5, FormInit, FormStep, PTL DEF PartsSpec
-----------------------------------------------------------------------------
(***************************************************************************)
(* Picking elements of the preview.                                        *)
(***************************************************************************)
SelectionInv ==
  Selection!Domains /\ Selection!NoncesGrow /\ Selection!BridgeListens /\ Selection!ModesFollow /\ ~v12

\* A message that is sent is the last, and one that is received was the first.
LEMMA QueueAppends ==
  ASSUME NEW S, NEW q \in Seq(S), NEW m \in S
  PROVE  /\ q \o <<m>> = Append(q, m) /\ Append(q, m) \in Seq(S) /\ Len(q) + 1 \in Nat
         /\ DOMAIN Append(q, m) = DOMAIN q \cup {Len(q) + 1} /\ Append(q, m)[Len(q) + 1] = m
         /\ \A i \in DOMAIN q : Append(q, m)[i] = q[i] /\ i \in Nat /\ i < Len(q) + 1
<1>1. /\ Append(q, m) \in Seq(S) /\ Len(q) + 1 \in Nat
      /\ DOMAIN Append(q, m) = DOMAIN q \cup {Len(q) + 1} /\ Append(q, m)[Len(q) + 1] = m
      /\ \A i \in DOMAIN q : Append(q, m)[i] = q[i] /\ i \in Nat /\ i < Len(q) + 1
  OBVIOUS
<1>2. q \o <<m>> = Append(q, m)
  <2>1. <<m>> \in Seq(S) /\ Len(<<m>>) = 1 /\ <<m>>[1] = m
    OBVIOUS
  <2>2. q \o <<m>> \in Seq(S) /\ Len(q \o <<m>>) = Len(q) + 1
    BY <2>1, ConcatProperties
  <2>3. \A i \in 1..Len(q) + 1 : (q \o <<m>>)[i] = Append(q, m)[i]
    BY <2>1, ConcatProperties
  <2>4. Len(Append(q, m)) = Len(q) + 1
    OBVIOUS
  <2> QED
    BY <1>1, <2>2, <2>3, <2>4, SeqEqual
<1> QED
  BY <1>1, <1>2

LEMMA QueueTails ==
  ASSUME NEW S, NEW q \in Seq(S), q # <<>>
  PROVE  /\ Head(q) \in S /\ Head(q) = q[1] /\ 1 \in DOMAIN q /\ Tail(q) \in Seq(S)
         /\ \A i \in DOMAIN Tail(q) : i \in Nat /\ i + 1 \in DOMAIN q /\ Tail(q)[i] = q[i + 1] /\ 1 < i + 1
         /\ \A i \in DOMAIN q : i # 1 => i - 1 \in DOMAIN Tail(q) /\ Tail(q)[i - 1] = q[i] /\ i \in Nat /\ 1 < i
OBVIOUS

\* A command of the latest nonce keeps the order.
LEMMA OrderAppends ==
  ASSUME NEW q \in Seq(Selection!Commands), NEW m \in Selection!Commands, NEW low \in Nat, NEW high \in Nat,
         Selection!Ordered(q, low, high), 0 < m.nonce, low <= m.nonce, high <= m.nonce
  PROVE  Selection!Ordered(Append(q, m), low, m.nonce)
<1> DEFINE n == Len(q) + 1
           a == Append(q, m)
<1>1. /\ DOMAIN a = DOMAIN q \cup {n} /\ n \in Nat /\ a[n] = m
      /\ \A i \in DOMAIN q : a[i] = q[i] /\ i \in Nat /\ i < n
  BY QueueAppends
<1>2. m.nonce \in Nat /\ \A i \in DOMAIN q : q[i].nonce \in Nat
  <2>1. \A i \in DOMAIN q : q[i] \in Selection!Commands
    OBVIOUS
  <2> QED
    BY <2>1 DEF Selection!Commands
<1> HIDE DEF n, a
<1>3. \A i \in DOMAIN q :
        /\ 0 < q[i].nonce /\ low <= q[i].nonce /\ q[i].nonce <= high
        /\ \A j \in DOMAIN q : i < j => q[i].nonce <= q[j].nonce
  BY DEF Selection!Ordered
<1>4. \A i \in DOMAIN a :
        /\ 0 < a[i].nonce /\ low <= a[i].nonce /\ a[i].nonce <= m.nonce
        /\ \A j \in DOMAIN a : i < j => a[i].nonce <= a[j].nonce
  BY <1>1, <1>2, <1>3
<1> QED
  BY <1>4 DEF Selection!Ordered, a

\* The first command has the oldest nonce.
LEMMA OrderTails ==
  ASSUME NEW q \in Seq(Selection!Commands), q # <<>>, NEW low \in Nat, NEW high \in Nat,
         Selection!Ordered(q, low, high)
  PROVE  /\ Selection!Ordered(Tail(q), low, high) /\ Selection!Ordered(Tail(q), Head(q).nonce, high)
         /\ Head(q).nonce \in Nat /\ 0 < Head(q).nonce /\ low <= Head(q).nonce /\ Head(q).nonce <= high
<1> DEFINE t == Tail(q)
<1>1. /\ Head(q) = q[1] /\ 1 \in DOMAIN q
      /\ \A i \in DOMAIN t : i \in Nat /\ i + 1 \in DOMAIN q /\ t[i] = q[i + 1] /\ 1 < i + 1
  BY QueueTails
<1>2. \A i \in DOMAIN q : q[i].nonce \in Nat
  <2>1. \A i \in DOMAIN q : q[i] \in Selection!Commands
    OBVIOUS
  <2> QED
    BY <2>1 DEF Selection!Commands
<1> HIDE DEF t
<1>3. \A i \in DOMAIN q :
        /\ 0 < q[i].nonce /\ low <= q[i].nonce /\ q[i].nonce <= high
        /\ \A j \in DOMAIN q : i < j => q[i].nonce <= q[j].nonce
  BY DEF Selection!Ordered
<1>4. ASSUME NEW i \in DOMAIN t
      PROVE  /\ 0 < t[i].nonce /\ low <= t[i].nonce /\ t[i].nonce <= high /\ Head(q).nonce <= t[i].nonce
             /\ \A j \in DOMAIN t : i < j => t[i].nonce <= t[j].nonce
  <2>1. i \in Nat /\ i + 1 \in DOMAIN q /\ t[i] = q[i + 1] /\ 1 < i + 1
    BY <1>1
  <2>2. ASSUME NEW j \in DOMAIN t, i < j
        PROVE  t[i].nonce <= t[j].nonce
    <3>1. j \in Nat /\ j + 1 \in DOMAIN q /\ t[j] = q[j + 1] /\ i + 1 < j + 1
      BY <1>1, <2>1, <2>2
    <3> QED
      BY <1>3, <2>1, <3>1
  <2> QED
    BY <1>1, <1>3, <2>1, <2>2
<1> QED
  BY <1>1, <1>2, <1>3, <1>4 DEF Selection!Ordered, t

\* The mode that is sent last is the last; what is no mode leaves it.
LEMMA ModeAppends ==
  ASSUME NEW q \in Seq(Selection!Commands), NEW m \in Selection!Commands, NEW n, NEW e
  PROVE  /\ Selection!Mode(m, n) /\ m.enabled = e =>
              Selection!LastMode(Append(q, m), n, e) /\ ~Selection!Told(Append(q, m), n)
         /\ ~Selection!Mode(m, n) /\ Selection!LastMode(q, n, e) => Selection!LastMode(Append(q, m), n, e)
         /\ ~Selection!Mode(m, n) => (Selection!Told(Append(q, m), n) <=> Selection!Told(q, n))
<1> DEFINE k == Len(q) + 1
           a == Append(q, m)
<1>1. /\ DOMAIN a = DOMAIN q \cup {k} /\ k \in Nat /\ a[k] = m
      /\ \A i \in DOMAIN q : a[i] = q[i] /\ i \in Nat /\ i < k
  BY QueueAppends
<1> HIDE DEF k, a
<1>2. Selection!Mode(m, n) /\ m.enabled = e => Selection!LastMode(a, n, e) /\ ~Selection!Told(a, n)
  BY <1>1 DEF Selection!LastMode, Selection!Told
<1>3. ~Selection!Mode(m, n) /\ Selection!LastMode(q, n, e) => Selection!LastMode(a, n, e)
  BY <1>1 DEF Selection!LastMode
<1>4. ~Selection!Mode(m, n) => (Selection!Told(a, n) <=> Selection!Told(q, n))
  BY <1>1 DEF Selection!Told
<1> QED
  BY <1>2, <1>3, <1>4 DEF a

LEMMA ModeTails ==
  ASSUME NEW q \in Seq(Selection!Commands), q # <<>>, NEW n, NEW e, Selection!LastMode(q, n, e)
  PROVE  /\ Selection!LastMode(Tail(q), n, e)
         /\ Selection!Told(Tail(q), n) /\ Selection!Mode(Head(q), n) => Head(q).enabled = e
         /\ Selection!Told(Tail(q), n) /\ ~Selection!Mode(Head(q), n) => Selection!Told(q, n)
<1> DEFINE t == Tail(q)
<1>1. /\ Head(q) = q[1] /\ 1 \in DOMAIN q
      /\ \A i \in DOMAIN t : i \in Nat /\ i + 1 \in DOMAIN q /\ t[i] = q[i + 1] /\ 1 < i + 1
      /\ \A i \in DOMAIN q : i # 1 => i - 1 \in DOMAIN t /\ t[i - 1] = q[i] /\ i \in Nat /\ 1 < i
  BY QueueTails
<1> HIDE DEF t
<1>2. Selection!LastMode(t, n, e)
  <2> SUFFICES ASSUME NEW i \in DOMAIN t, Selection!Mode(t[i], n),
                      \A j \in DOMAIN t : i < j => ~Selection!Mode(t[j], n)
               PROVE  t[i].enabled = e
    BY DEF Selection!LastMode
  <2>1. i \in Nat /\ i + 1 \in DOMAIN q /\ t[i] = q[i + 1]
    BY <1>1
  <2>2. ASSUME NEW j \in DOMAIN q, i + 1 < j
        PROVE  ~Selection!Mode(q[j], n)
    <3>1. j # 1
      BY <2>1, <2>2
    <3>2. j - 1 \in DOMAIN t /\ t[j - 1] = q[j] /\ j \in Nat
      BY <1>1, <3>1
    <3>3. i < j - 1
      BY <2>1, <2>2, <3>2
    <3> QED
      BY <3>2, <3>3
  <2> QED
    BY <2>1, <2>2 DEF Selection!LastMode
<1>3. Selection!Told(t, n) => \A j \in DOMAIN q : j # 1 => ~Selection!Mode(q[j], n)
  BY <1>1 DEF Selection!Told
<1>4. Selection!Told(t, n) /\ Selection!Mode(Head(q), n) => Head(q).enabled = e
  <2> SUFFICES ASSUME Selection!Told(t, n), Selection!Mode(q[1], n)
               PROVE  q[1].enabled = e
    BY <1>1
  <2>1. \A j \in DOMAIN q : 1 < j => ~Selection!Mode(q[j], n)
    BY <1>3
  <2> QED
    BY <1>1, <2>1 DEF Selection!LastMode
<1>5. Selection!Told(t, n) /\ ~Selection!Mode(Head(q), n) => Selection!Told(q, n)
  BY <1>1, <1>3 DEF Selection!Told
<1> QED
  BY <1>2, <1>4, <1>5 DEF t

\* Nothing was told of a nonce that is new.
LEMMA NewNonceIsUntold ==
  ASSUME NEW q \in Seq(Selection!Commands), NEW low \in Nat, NEW high \in Nat, Selection!Ordered(q, low, high)
  PROVE  Selection!Told(q, high + 1) /\ \A e : Selection!LastMode(q, high + 1, e)
<1>1. \A i \in DOMAIN q : q[i].nonce # high + 1
  <2>1. \A i \in DOMAIN q : q[i] \in Selection!Commands
    OBVIOUS
  <2> QED
    BY <2>1 DEF Selection!Ordered, Selection!Commands
<1> QED
  BY <1>1 DEF Selection!Told, Selection!LastMode, Selection!Mode

\* The bridge that stops selecting says so.
LEMMA StopIsPosted ==
  ASSUME SelectionInv
  PROVE  v8 \o Selection!StopMessages =
           IF v5.selecting THEN Append(v8, Selection!SetMode(v5.nonce, FALSE)) ELSE v8
<1>1. v8 \in Seq(Selection!Commands) /\ v5.nonce \in Nat
  BY DEF SelectionInv, Selection!Domains
<1>2. Selection!SetMode(v5.nonce, FALSE) \in Selection!Commands
  BY <1>1 DEF Selection!SetMode, Selection!Commands
<1>3. CASE v5.selecting
  <2>1. Selection!StopMessages = <<Selection!SetMode(v5.nonce, FALSE)>>
    BY <1>3 DEF Selection!StopMessages
  <2>2. PICK m \in Selection!Commands : m = Selection!SetMode(v5.nonce, FALSE)
    BY <1>2
  <2>3. v8 \o <<m>> = Append(v8, m)
    BY <1>1, QueueAppends
  <2> QED
    BY <1>3, <2>1, <2>2, <2>3
<1>4. CASE ~v5.selecting
  BY <1>1, <1>4, ConcatEmptySeq DEF Selection!StopMessages
<1> QED
  BY <1>3, <1>4

\* A mode of the bridge's own is the last, and the order is kept.
LEMMA ModeIsPosted ==
  ASSUME SelectionInv, NEW e \in BOOLEAN, 0 < v5.nonce
  PROVE  LET m == Selection!SetMode(v5.nonce, e)
             q == Append(v8, m)
         IN  /\ q \in Seq(Selection!Commands) /\ Selection!Ordered(q, v3.nonce, v5.nonce)
             /\ Selection!LastMode(q, v5.nonce, e) /\ ~Selection!Told(q, v5.nonce)
<1> DEFINE m == Selection!SetMode(v5.nonce, e)
<1>1. /\ v8 \in Seq(Selection!Commands) /\ v5.nonce \in Nat /\ v3.nonce \in Nat
      /\ Selection!Ordered(v8, v3.nonce, v5.nonce) /\ v3.nonce <= v5.nonce
  BY DEF SelectionInv, Selection!Domains, Selection!NoncesGrow
<1>2. m \in Selection!Commands /\ m.nonce = v5.nonce /\ m.enabled = e /\ Selection!Mode(m, v5.nonce)
  BY <1>1 DEF Selection!SetMode, Selection!Commands, Selection!Mode
<1> HIDE DEF m
<1>3. Append(v8, m) \in Seq(Selection!Commands)
  BY <1>1, <1>2, QueueAppends
<1>4. Selection!Ordered(Append(v8, m), v3.nonce, v5.nonce)
  <2>1. Selection!Ordered(Append(v8, m), v3.nonce, m.nonce)
    BY <1>1, <1>2, OrderAppends
  <2> QED
    BY <1>2, <2>1
<1>5. Selection!LastMode(Append(v8, m), v5.nonce, e) /\ ~Selection!Told(Append(v8, m), v5.nonce)
  BY <1>1, <1>2, ModeAppends
<1> QED
  BY <1>3, <1>4, <1>5 DEF m

\* An attempt to connect with a nonce that is not older keeps the order and the modes.
LEMMA ConnectIsPosted ==
  ASSUME NEW q \in Seq(Selection!Commands), NEW low \in Nat, NEW high \in Nat, NEW n \in Nat, NEW e,
         Selection!Ordered(q, low, high), low <= n, high <= n, 0 < n, Selection!LastMode(q, n, e)
  PROVE  LET a == Append(q, Selection!ConnectTo(n))
         IN  /\ a \in Seq(Selection!Commands) /\ Selection!Ordered(a, low, n)
             /\ Selection!LastMode(a, n, e) /\ (Selection!Told(a, n) <=> Selection!Told(q, n))
<1> DEFINE m == Selection!ConnectTo(n)
<1>1. m \in Selection!Commands /\ m.nonce = n /\ ~Selection!Mode(m, n)
  BY DEF Selection!ConnectTo, Selection!Commands, Selection!Mode
<1> HIDE DEF m
<1>2. Append(q, m) \in Seq(Selection!Commands)
  BY <1>1, QueueAppends
<1>3. Selection!Ordered(Append(q, m), low, n)
  <2>1. Selection!Ordered(Append(q, m), low, m.nonce)
    BY <1>1, OrderAppends
  <2> QED
    BY <1>1, <2>1
<1>4. Selection!LastMode(Append(q, m), n, e) /\ (Selection!Told(Append(q, m), n) <=> Selection!Told(q, n))
  BY <1>1, ModeAppends
<1> QED
  BY <1>2, <1>3, <1>4 DEF m

\* A connection starts with a nonce nobody was told and nobody has answered.
LEMMA ConnectingKeeps ==
  ASSUME SelectionInv, Selection!Connecting, v1' = v1, v3' = v3, v9' = v9, v4', ~v12'
  PROVE  SelectionInv'
<1>1. /\ v5' = [status |-> "connecting", selecting |-> FALSE, nonce |-> v5.nonce + 1] /\ v7' = TRUE
      /\ v8' = v8 \o Selection!StopMessages \o <<Selection!ConnectTo(v5.nonce + 1)>>
  BY DEF Selection!Connecting
<1>2. /\ v8 \in Seq(Selection!Commands) /\ v5.nonce \in Nat /\ v3.nonce \in Nat /\ v3.nonce <= v5.nonce
      /\ Selection!Ordered(v8, v3.nonce, v5.nonce) /\ v9 \in Seq(Selection!Replies)
  BY DEF SelectionInv, Selection!Domains, Selection!NoncesGrow
<1> DEFINE q == v8 \o Selection!StopMessages
<1>3. q \in Seq(Selection!Commands) /\ Selection!Ordered(q, v3.nonce, v5.nonce)
  <2>1. CASE v5.selecting
    <3>1. 0 < v5.nonce
      BY <2>1 DEF SelectionInv, Selection!BridgeListens
    <3> QED
      BY <2>1, <3>1, StopIsPosted, ModeIsPosted
  <2>2. CASE ~v5.selecting
    BY <1>2, <2>2, StopIsPosted
  <2> QED
    BY <2>1, <2>2
<1> HIDE DEF q
<1>4. v8' = Append(q, Selection!ConnectTo(v5.nonce + 1))
  <2>1. Selection!ConnectTo(v5.nonce + 1) \in Selection!Commands
    BY <1>2 DEF Selection!ConnectTo, Selection!Commands
  <2>2. v8' = q \o <<Selection!ConnectTo(v5.nonce + 1)>>
    BY <1>1 DEF q
  <2> QED
    BY <1>3, <2>1, <2>2, QueueAppends
<1>5. Selection!LastMode(q, v5.nonce + 1, FALSE)
  BY <1>2, <1>3, NewNonceIsUntold
<1>6. v8' \in Seq(Selection!Commands) /\ Selection!Ordered(v8', v3.nonce, v5.nonce + 1) /\ Selection!LastMode(v8', v5.nonce + 1, FALSE)
  <2>1. v5.nonce + 1 \in Nat /\ v3.nonce <= v5.nonce + 1 /\ v5.nonce <= v5.nonce + 1 /\ 0 < v5.nonce + 1
    BY <1>2
  <2> QED
    BY <1>2, <1>3, <1>4, <1>5, <2>1, ConnectIsPosted
<1>7. v5'.status = "connecting" /\ v5'.selecting = FALSE /\ v5'.nonce = v5.nonce + 1
  BY <1>1
<1>8. \A i \in DOMAIN v9 : v9[i].nonce \in Nat /\ v9[i].nonce <= v5.nonce
  <2>1. \A i \in DOMAIN v9 : v9[i] \in Selection!Replies
    BY <1>2
  <2> QED
    BY <2>1 DEF SelectionInv, Selection!NoncesGrow, Selection!Known, Selection!Replies
<1>9. Selection!Domains'
  BY <1>1, <1>2, <1>6 DEF SelectionInv, Selection!Domains
<1>10. Selection!NoncesGrow'
  BY <1>2, <1>6, <1>7, <1>8 DEF SelectionInv, Selection!NoncesGrow, Selection!Known
<1>11. Selection!BridgeListens'
  BY <1>2, <1>7, <1>8 DEF SelectionInv, Selection!BridgeListens
<1>12. Selection!ModesFollow'
  <2>1. v3'.nonce # v5'.nonce /\ ~v5'.selecting
    BY <1>2, <1>7
  <2>2. Selection!LastMode(v8', v5'.nonce, v5'.selecting)
    BY <1>6, <1>7
  <2> QED
    BY <2>1, <2>2 DEF Selection!ModesFollow
<1> QED
  BY <1>9, <1>10, <1>11, <1>12 DEF SelectionInv

LEMMA SelectionInit == Selection!Init => SelectionInv
BY DEF Selection!Init, SelectionInv, Selection!Domains, Selection!Silent, Selection!Waiting, Selection!NoncesGrow,
    Selection!Ordered, Selection!BridgeListens, Selection!ModesFollow, Selection!LastMode

LEMMA SelectionStep == SelectionInv /\ [Selection!Next]_(Selection!vars) => SelectionInv'
<1> SUFFICES ASSUME SelectionInv, [Selection!Next]_(Selection!vars)
             PROVE  SelectionInv'
  OBVIOUS
<1> USE DEF SelectionInv
<1>0. /\ v1 \in [number : Nat, scripted : BOOLEAN] /\ v3 \in [nonce : Nat, enabled : BOOLEAN]
      /\ v5 \in [status : {"waiting", "connecting", "ready", "unsupported"}, selecting : BOOLEAN, nonce : Nat]
      /\ v8 \in Seq(Selection!Commands) /\ v9 \in Seq(Selection!Replies)
      /\ v1.number \in Nat /\ v3.nonce \in Nat /\ v5.nonce \in Nat /\ v5.selecting \in BOOLEAN
      /\ \A i \in DOMAIN v8 : v8[i] \in Selection!Commands
      /\ \A i \in DOMAIN v9 : v9[i] \in Selection!Replies /\ v9[i].from \in Nat
  <2>1. /\ v1 \in [number : Nat, scripted : BOOLEAN] /\ v3 \in [nonce : Nat, enabled : BOOLEAN]
        /\ v5 \in [status : {"waiting", "connecting", "ready", "unsupported"}, selecting : BOOLEAN, nonce : Nat]
        /\ v8 \in Seq(Selection!Commands) /\ v9 \in Seq(Selection!Replies)
    BY DEF Selection!Domains
  <2>2. /\ \A i \in DOMAIN v8 : v8[i] \in Selection!Commands
        /\ \A i \in DOMAIN v9 : v9[i] \in Selection!Replies
    BY <2>1
  <2> QED
    BY <2>1, <2>2 DEF Selection!Replies
<1>1. CASE Selection!Navigate
  <2>1. PICK scripted \in BOOLEAN : v1' = [number |-> v1.number + 1, scripted |-> scripted]
    BY <1>1 DEF Selection!Navigate
  <2>2. /\ v3' = [nonce |-> 0, enabled |-> FALSE] /\ v2' = TRUE /\ v8' \in {v8, <<>>}
        /\ v4' = v4 /\ v5' = v5 /\ v7' = v7 /\ v9' = v9 /\ v12' = v12
    BY <1>1 DEF Selection!Navigate, Selection!Silent
  <2>3. v1'.number = v1.number + 1 /\ v3'.nonce = 0 /\ v3'.enabled = FALSE /\ v1'.scripted = scripted
    BY <2>1, <2>2
  <2>4. /\ v1' \in [number : Nat, scripted : BOOLEAN] /\ v3' \in [nonce : Nat, enabled : BOOLEAN]
        /\ v8' \in Seq(Selection!Commands)
    <3>1. v1.number + 1 \in Nat /\ 0 \in Nat /\ <<>> \in Seq(Selection!Commands)
      BY <1>0
    <3> QED
      BY <1>0, <2>1, <2>2, <3>1
  <2>5. Selection!Domains'
    BY <2>2, <2>4 DEF Selection!Domains
  <2>6. Selection!Ordered(v8', 0, v5.nonce)
    <3>1. \A i \in DOMAIN v8 : v8[i].nonce \in Nat
      BY <1>0 DEF Selection!Commands
    <3> QED
      BY <1>0, <2>2, <3>1 DEF Selection!NoncesGrow, Selection!Ordered
  <2>7. Selection!NoncesGrow'
    BY <1>0, <2>2, <2>3, <2>6 DEF Selection!NoncesGrow, Selection!Known
  <2>8. Selection!BridgeListens'
    BY <2>2, <2>3 DEF Selection!BridgeListens
  <2>9. Selection!ModesFollow'
    BY <2>2, <2>3 DEF Selection!ModesFollow, Selection!LastMode
  <2>10. ~v12'
    BY <2>2
  <2> QED
    BY <2>5, <2>7, <2>8, <2>9, <2>10
<1>2. CASE Selection!Load
  <2>1. CASE v4
    <3>1. Selection!Connecting /\ v1' = v1 /\ v3' = v3 /\ v4' = v4 /\ v9' = v9 /\ v12' = v12
      BY <1>2, <2>1 DEF Selection!Load
    <3> QED
      BY <2>1, <3>1, ConnectingKeeps
  <2>2. CASE ~v4
    <3>1. v1' = v1 /\ v3' = v3 /\ v4' = v4 /\ v5' = v5 /\ v7' = v7 /\ v8' = v8 /\ v9' = v9 /\ v12' = v12
      BY <1>2, <2>2 DEF Selection!Load
    <3>2. v5.status = "waiting" /\ ~v5.selecting
      BY <2>2 DEF Selection!BridgeListens
    <3>3. Selection!Domains'
      BY <3>1 DEF Selection!Domains
    <3>4. Selection!NoncesGrow'
      BY <3>1 DEF Selection!NoncesGrow
    <3>5. Selection!BridgeListens'
      BY <2>2, <3>1 DEF Selection!BridgeListens
    <3>6. Selection!ModesFollow'
      BY <3>1, <3>2 DEF Selection!ModesFollow
    <3> QED
      BY <3>1, <3>3, <3>4, <3>5, <3>6
  <2> QED
    BY <2>1, <2>2
<1>3. CASE Selection!PreviewReceives
  <2> DEFINE m == Head(v8)
  <2>1. v8 # <<>> /\ v8' = Tail(v8) /\ v1' = v1 /\ v2' = v2 /\ v4' = v4 /\ v5' = v5 /\ v7' = v7 /\ v12' = v12
    BY <1>3 DEF Selection!PreviewReceives
  <2>2. m \in Selection!Commands /\ v8' \in Seq(Selection!Commands)
    BY <1>0, <2>1, QueueTails
  <2>3. /\ Selection!Ordered(v8', v3.nonce, v5.nonce) /\ Selection!Ordered(v8', m.nonce, v5.nonce)
        /\ m.nonce \in Nat /\ 0 < m.nonce /\ v3.nonce <= m.nonce /\ m.nonce <= v5.nonce
    BY <1>0, <2>1, OrderTails DEF Selection!NoncesGrow
  <2>4. /\ Selection!LastMode(v8', v5.nonce, v5.selecting)
        /\ Selection!Told(v8', v5.nonce) /\ Selection!Mode(m, v5.nonce) => m.enabled = v5.selecting
        /\ Selection!Told(v8', v5.nonce) /\ ~Selection!Mode(m, v5.nonce) => Selection!Told(v8, v5.nonce)
    BY <1>0, <2>1, ModeTails DEF Selection!ModesFollow
  <2>5. v5.selecting /\ ~v2 => v3.nonce = v5.nonce /\ v1.scripted
    BY <1>0 DEF Selection!BridgeListens
  <2>6. ~v12'
    BY <2>1
  <2>7. CASE ~v1.scripted
    <3>1. v3' = v3 /\ v9' = v9
      BY <1>3, <2>7 DEF Selection!PreviewReceives
    <3>2. v3.nonce = 0 /\ v3.nonce # v5.nonce
      BY <1>0, <2>3, <2>7 DEF Selection!BridgeListens
    <3>3. Selection!Domains'
      BY <2>1, <2>2, <3>1 DEF Selection!Domains
    <3>4. Selection!NoncesGrow'
      BY <2>1, <2>3, <3>1 DEF Selection!NoncesGrow
    <3>5. Selection!BridgeListens'
      BY <2>1, <3>1 DEF Selection!BridgeListens
    <3>6. Selection!ModesFollow'
      BY <2>1, <2>4, <2>5, <2>7, <3>1, <3>2 DEF Selection!ModesFollow
    <3> QED
      BY <2>6, <3>3, <3>4, <3>5, <3>6
  <2>8. CASE v1.scripted /\ m.type = "connect"
    <3> DEFINE r == [type |-> "ready", nonce |-> m.nonce, of |-> Selection!Nothing, from |-> v1.number]
               e == v3.enabled /\ v3.nonce = m.nonce
    <3>1. v3' = [nonce |-> m.nonce, enabled |-> e] /\ v9' = Append(v9, r)
      BY <1>3, <2>8 DEF Selection!PreviewReceives
    <3>2. r \in Selection!Replies /\ r.nonce = m.nonce /\ r.from = v1.number
      BY <1>0, <2>3 DEF Selection!Replies
    <3>3. v3'.nonce = m.nonce /\ (v3'.enabled <=> e) /\ v3' \in [nonce : Nat, enabled : BOOLEAN]
      BY <1>0, <2>3, <3>1
    <3>4. ~Selection!Mode(m, v5.nonce)
      BY <2>8 DEF Selection!Mode
    <3> HIDE DEF m, r
    <3>5. /\ v9' \in Seq(Selection!Replies) /\ DOMAIN v9' = DOMAIN v9 \cup {Len(v9) + 1}
          /\ v9'[Len(v9) + 1] = r /\ \A i \in DOMAIN v9 : v9'[i] = v9[i]
      BY <1>0, <3>1, <3>2, QueueAppends
    <3>6. \A i \in DOMAIN v9 : v9[i].nonce \in Nat
      BY <1>0 DEF Selection!Replies
    <3>7. Selection!Domains'
      BY <2>1, <2>2, <3>3, <3>5 DEF Selection!Domains
    <3>8. \A i \in DOMAIN v9' : Selection!Known(v9'[i], v5.nonce, v1.number, m.nonce)
      <4>1. Selection!Known(r, v5.nonce, v1.number, m.nonce)
        BY <1>0, <2>3, <3>2 DEF Selection!Known
      <4>2. \A i \in DOMAIN v9 : Selection!Known(v9[i], v5.nonce, v1.number, m.nonce)
        BY <1>0, <2>3, <3>6 DEF Selection!NoncesGrow, Selection!Known
      <4> QED
        BY <3>5, <4>1, <4>2
    <3>9. Selection!NoncesGrow'
      BY <2>1, <2>3, <3>3, <3>8 DEF Selection!NoncesGrow
    <3>10. Selection!BridgeListens'
      <4>1. v4 /\ ~v2 /\ v5.status = "ready" => m.nonce = v5.nonce
        BY <1>0, <2>3 DEF Selection!BridgeListens
      <4>2. v4 /\ ~v2 => \A i \in DOMAIN v9' : v9'[i].nonce = v5.nonce => v9'[i].from = v1.number
        BY <3>2, <3>5 DEF Selection!BridgeListens
      <4> QED
        BY <2>1, <2>8, <3>3, <4>1, <4>2 DEF Selection!BridgeListens
    <3>11. Selection!ModesFollow'
      <4>1. Selection!Told(v8', v5.nonce) /\ m.nonce = v5.nonce /\ e => v5.selecting
        BY <2>4, <3>4 DEF Selection!ModesFollow
      <4>2. ASSUME Selection!Told(v8', v5.nonce), ~v2, v5.selecting, ~e
            PROVE  \E i \in DOMAIN v9' : v9'[i].nonce = v5.nonce /\ v9'[i].type # "ready"
        <5>1. v3.nonce = m.nonce
          BY <1>0, <2>3, <2>5, <4>2
        <5>2. \E i \in DOMAIN v9 : v9[i].nonce = v5.nonce /\ v9[i].type # "ready"
          BY <2>4, <3>4, <4>2, <5>1 DEF Selection!ModesFollow
        <5> QED
          BY <3>5, <5>2
      <4> QED
        BY <2>1, <2>4, <3>3, <4>1, <4>2 DEF Selection!ModesFollow
    <3> QED
      BY <2>6, <3>7, <3>9, <3>10, <3>11
  <2>9. CASE v1.scripted /\ m.type # "connect"
    <3>1. v9' = v9 /\ v3' = IF m.nonce = v3.nonce THEN [v3 EXCEPT !.enabled = m.enabled] ELSE v3
      BY <1>3, <2>9 DEF Selection!PreviewReceives
    <3>2. m.type = "set-mode" /\ m.enabled \in BOOLEAN
      BY <2>2, <2>9 DEF Selection!Commands
    <3> HIDE DEF m
    <3>3. /\ v3' \in [nonce : Nat, enabled : BOOLEAN] /\ v3'.nonce = v3.nonce
          /\ v3'.enabled = IF m.nonce = v3.nonce THEN m.enabled ELSE v3.enabled
      BY <1>0, <3>1, <3>2
    <3>4. Selection!Domains'
      BY <2>1, <2>2, <3>1, <3>3 DEF Selection!Domains
    <3>5. Selection!NoncesGrow'
      BY <2>1, <2>3, <3>1, <3>3 DEF Selection!NoncesGrow
    <3>6. Selection!BridgeListens'
      BY <2>1, <3>1, <3>3 DEF Selection!BridgeListens
    <3>7. Selection!ModesFollow'
      <4>1. CASE m.nonce = v5.nonce
        <5>1. Selection!Mode(m, v5.nonce)
          BY <3>2, <4>1 DEF Selection!Mode
        <5> QED
          BY <2>1, <2>4, <2>5, <3>3, <4>1, <5>1 DEF Selection!ModesFollow
      <4>2. CASE m.nonce # v5.nonce
        <5>1. ~Selection!Mode(m, v5.nonce)
          BY <4>2 DEF Selection!Mode
        <5>2. v3.nonce = v5.nonce => v3'.enabled = v3.enabled
          BY <3>3, <4>2
        <5> QED
          BY <2>1, <2>4, <2>5, <3>1, <3>3, <5>1, <5>2 DEF Selection!ModesFollow
      <4> QED
        BY <4>1, <4>2
    <3> QED
      BY <2>6, <3>4, <3>5, <3>6, <3>7
  <2> QED
    BY <2>7, <2>8, <2>9
<1>4. CASE Selection!Pick
  <2>1. PICK e \in Elements : v9' = Append(v9, Selection!Reply("selected", e))
    BY <1>4 DEF Selection!Pick
  <2>2. PICK r : r = [type |-> "selected", nonce |-> v3.nonce, of |-> e, from |-> v1.number]
    OBVIOUS
  <2>3. /\ r \in Selection!Replies /\ v9' = Append(v9, r)
        /\ r.nonce = v3.nonce /\ r.from = v1.number /\ r.type # "ready"
    BY <1>0, <2>1, <2>2 DEF Selection!Reply, Selection!Replies
  <2>4. v3' = [v3 EXCEPT !.enabled = FALSE] /\ v1' = v1 /\ v2' = v2 /\ v4' = v4 /\ v5' = v5 /\ v7' = v7 /\ v8' = v8 /\ v12' = v12
    BY <1>4 DEF Selection!Pick, Selection!StoppedPicker
  <2>5. v3' \in [nonce : Nat, enabled : BOOLEAN] /\ v3'.nonce = v3.nonce /\ ~v3'.enabled
    BY <1>0, <2>4
  <2>6. /\ v9' \in Seq(Selection!Replies) /\ DOMAIN v9' = DOMAIN v9 \cup {Len(v9) + 1}
        /\ v9'[Len(v9) + 1] = r /\ \A i \in DOMAIN v9 : v9'[i] = v9[i]
    BY <1>0, <2>3, QueueAppends
  <2>7. Selection!Domains'
    BY <2>4, <2>5, <2>6 DEF Selection!Domains
  <2>8. \A i \in DOMAIN v9' : Selection!Known(v9'[i], v5.nonce, v1.number, v3.nonce)
    <3>1. Selection!Known(r, v5.nonce, v1.number, v3.nonce)
      BY <1>0, <2>3 DEF Selection!NoncesGrow, Selection!Known
    <3> QED
      BY <2>6, <3>1 DEF Selection!NoncesGrow
  <2>9. Selection!NoncesGrow'
    BY <2>4, <2>5, <2>8 DEF Selection!NoncesGrow
  <2>10. Selection!BridgeListens'
    BY <2>3, <2>4, <2>5, <2>6 DEF Selection!BridgeListens
  <2>11. v5.selecting /\ ~v2 => v3.nonce = v5.nonce
    BY DEF Selection!BridgeListens
  <2>12. Selection!ModesFollow'
    BY <2>3, <2>4, <2>5, <2>6, <2>11 DEF Selection!ModesFollow
  <2>13. ~v12'
    BY <2>4
  <2> QED
    BY <2>7, <2>9, <2>10, <2>12, <2>13
<1>5. CASE Selection!Cancel
  <2>1. PICK e : e = Selection!Nothing /\ v9' = Append(v9, Selection!Reply("cancelled", e))
    BY <1>5 DEF Selection!Cancel
  <2>2. PICK r : r = [type |-> "cancelled", nonce |-> v3.nonce, of |-> e, from |-> v1.number]
    OBVIOUS
  <2>3. /\ r \in Selection!Replies /\ v9' = Append(v9, r)
        /\ r.nonce = v3.nonce /\ r.from = v1.number /\ r.type # "ready"
    BY <1>0, <2>1, <2>2 DEF Selection!Reply, Selection!Replies
  <2>4. v3' = [v3 EXCEPT !.enabled = FALSE] /\ v1' = v1 /\ v2' = v2 /\ v4' = v4 /\ v5' = v5 /\ v7' = v7 /\ v8' = v8 /\ v12' = v12
    BY <1>5 DEF Selection!Cancel, Selection!StoppedPicker
  <2>5. v3' \in [nonce : Nat, enabled : BOOLEAN] /\ v3'.nonce = v3.nonce /\ ~v3'.enabled
    BY <1>0, <2>4
  <2>6. /\ v9' \in Seq(Selection!Replies) /\ DOMAIN v9' = DOMAIN v9 \cup {Len(v9) + 1}
        /\ v9'[Len(v9) + 1] = r /\ \A i \in DOMAIN v9 : v9'[i] = v9[i]
    BY <1>0, <2>3, QueueAppends
  <2>7. Selection!Domains'
    BY <2>4, <2>5, <2>6 DEF Selection!Domains
  <2>8. \A i \in DOMAIN v9' : Selection!Known(v9'[i], v5.nonce, v1.number, v3.nonce)
    <3>1. Selection!Known(r, v5.nonce, v1.number, v3.nonce)
      BY <1>0, <2>3 DEF Selection!NoncesGrow, Selection!Known
    <3> QED
      BY <2>6, <3>1 DEF Selection!NoncesGrow
  <2>9. Selection!NoncesGrow'
    BY <2>4, <2>5, <2>8 DEF Selection!NoncesGrow
  <2>10. Selection!BridgeListens'
    BY <2>3, <2>4, <2>5, <2>6 DEF Selection!BridgeListens
  <2>11. v5.selecting /\ ~v2 => v3.nonce = v5.nonce
    BY DEF Selection!BridgeListens
  <2>12. Selection!ModesFollow'
    BY <2>3, <2>4, <2>5, <2>6, <2>11 DEF Selection!ModesFollow
  <2>13. ~v12'
    BY <2>4
  <2> QED
    BY <2>7, <2>9, <2>10, <2>12, <2>13
<1>6. CASE Selection!PageReceives
  <2> DEFINE m == Head(v9)
  <2>1. v9 # <<>> /\ v9' = Tail(v9) /\ v1' = v1 /\ v2' = v2 /\ v3' = v3 /\ v4' = v4
    BY <1>6 DEF Selection!PageReceives
  <2>2. /\ m \in Selection!Replies /\ m = v9[1] /\ 1 \in DOMAIN v9 /\ v9' \in Seq(Selection!Replies)
        /\ \A i \in DOMAIN v9' : i + 1 \in DOMAIN v9 /\ v9'[i] = v9[i + 1]
        /\ \A i \in DOMAIN v9 : i # 1 => i - 1 \in DOMAIN v9' /\ v9'[i - 1] = v9[i]
    BY <1>0, <2>1, QueueTails
  <2>3. \A i \in DOMAIN v9' : Selection!Known(v9'[i], v5.nonce, v1.number, v3.nonce)
    BY <2>2 DEF Selection!NoncesGrow
  <2>4. v4 /\ ~v2 => \A i \in DOMAIN v9' : v9'[i].nonce = v5.nonce => v9'[i].from = v1.number
    BY <2>2 DEF Selection!BridgeListens
  <2>5. CASE ~Selection!Heeds(m)
    <3>1. v5' = v5 /\ v7' = v7 /\ v8' = v8 /\ v12' = v12
      BY <1>6, <2>5 DEF Selection!PageReceives
    <3>2. v5.selecting => m.nonce # v5.nonce
      BY <2>5 DEF Selection!BridgeListens, Selection!Heeds
    <3> HIDE DEF m
    <3>3. Selection!Domains'
      BY <2>1, <2>2, <3>1 DEF Selection!Domains
    <3>4. Selection!NoncesGrow'
      BY <2>1, <2>3, <3>1 DEF Selection!NoncesGrow
    <3>5. Selection!BridgeListens'
      BY <2>1, <2>4, <3>1 DEF Selection!BridgeListens
    <3>6. Selection!ModesFollow'
      <4>1. ASSUME v5.selecting, NEW i \in DOMAIN v9, v9[i].nonce = v5.nonce, v9[i].type # "ready"
            PROVE  \E j \in DOMAIN v9' : v9'[j].nonce = v5.nonce /\ v9'[j].type # "ready"
        BY <2>2, <3>2, <4>1
      <4> QED
        BY <2>1, <3>1, <4>1 DEF Selection!ModesFollow
    <3> QED
      BY <3>1, <3>3, <3>4, <3>5, <3>6
  <2>6. CASE Selection!Heeds(m)
    <3>1. v4 /\ m.nonce = v5.nonce /\ 0 < v5.nonce
      BY <2>6 DEF Selection!Heeds, Selection!BridgeListens
    <3>2. ~v2 => m.from = v1.number /\ v3.nonce = v5.nonce
      <4>1. ~v2 => m.from = v1.number
        BY <2>2, <3>1 DEF Selection!BridgeListens
      <4>2. m.from = v1.number => m.nonce <= v3.nonce
        BY <2>2 DEF Selection!NoncesGrow, Selection!Known
      <4>3. v3.nonce <= v5.nonce
        BY DEF Selection!NoncesGrow
      <4> QED
        BY <1>0, <3>1, <4>1, <4>2, <4>3
    <3>3. CASE m.type = "ready"
      <4>1. v5' = [v5 EXCEPT !.status = "ready"] /\ v7' = FALSE /\ v8' = v8 /\ v12' = v12
        BY <1>6, <2>6, <3>3 DEF Selection!PageReceives, Selection!Readied
      <4>2. /\ v5' \in [status : {"waiting", "connecting", "ready", "unsupported"}, selecting : BOOLEAN, nonce : Nat]
            /\ v5'.status = "ready" /\ v5'.selecting = v5.selecting /\ v5'.nonce = v5.nonce
        BY <1>0, <4>1
      <4> HIDE DEF m
      <4>3. Selection!Domains'
        BY <2>1, <2>2, <4>1, <4>2 DEF Selection!Domains
      <4>4. Selection!NoncesGrow'
        BY <2>1, <2>3, <4>1, <4>2 DEF Selection!NoncesGrow
      <4>5. Selection!BridgeListens'
        BY <2>1, <2>4, <3>1, <3>2, <4>1, <4>2 DEF Selection!BridgeListens
      <4>6. Selection!ModesFollow'
        <5>1. ASSUME NEW i \in DOMAIN v9, v9[i].nonce = v5.nonce, v9[i].type # "ready"
              PROVE  \E j \in DOMAIN v9' : v9'[j].nonce = v5.nonce /\ v9'[j].type # "ready"
          BY <2>2, <3>3, <5>1
        <5> QED
          BY <2>1, <4>1, <4>2, <5>1 DEF Selection!ModesFollow
      <4> QED
        BY <4>1, <4>3, <4>4, <4>5, <4>6
    <3>4. CASE m.type # "ready"
      <4>1. /\ v5' = [v5 EXCEPT !.selecting = FALSE] /\ v8' = v8 \o Selection!StopMessages /\ v7' = v7
            /\ v12' = v12 \/ v12' = (v12 \/ (~v2 /\ m.from # v1.number))
        BY <1>6, <2>6, <3>4 DEF Selection!PageReceives
      <4>2. /\ v5' \in [status : {"waiting", "connecting", "ready", "unsupported"}, selecting : BOOLEAN, nonce : Nat]
            /\ v5'.status = v5.status /\ v5'.selecting = FALSE /\ v5'.nonce = v5.nonce
        BY <1>0, <4>1
      <4>3. ~v12'
        BY <3>2, <4>1
      <4> HIDE DEF m
      <4>4. /\ v8' \in Seq(Selection!Commands) /\ Selection!Ordered(v8', v3.nonce, v5.nonce)
            /\ Selection!LastMode(v8', v5.nonce, FALSE)
            /\ ~v5.selecting => v8' = v8
            /\ v5.selecting => ~Selection!Told(v8', v5.nonce)
        <5>1. CASE v5.selecting
          BY <3>1, <4>1, <5>1, StopIsPosted, ModeIsPosted
        <5>2. CASE ~v5.selecting
          <6>1. v8' = v8 /\ v5.selecting = FALSE
            BY <1>0, <4>1, <5>2, StopIsPosted
          <6> QED
            BY <1>0, <5>2, <6>1 DEF Selection!NoncesGrow, Selection!ModesFollow
        <5> QED
          BY <5>1, <5>2
      <4>5. Selection!Domains'
        BY <2>1, <2>2, <4>2, <4>4 DEF Selection!Domains
      <4>6. Selection!NoncesGrow'
        BY <2>1, <2>3, <4>2, <4>4 DEF Selection!NoncesGrow
      <4>7. Selection!BridgeListens'
        BY <2>1, <2>4, <4>1, <4>2 DEF Selection!BridgeListens
      <4>8. Selection!ModesFollow'
        <5>1. Selection!LastMode(v8', v5'.nonce, v5'.selecting) /\ ~v5'.selecting
          BY <4>2, <4>4
        <5>2. Selection!Told(v8', v5.nonce) /\ v3.nonce = v5.nonce => ~v3.enabled
          BY <4>4 DEF Selection!ModesFollow
        <5> QED
          BY <2>1, <4>2, <5>1, <5>2 DEF Selection!ModesFollow
      <4> QED
        BY <4>3, <4>5, <4>6, <4>7, <4>8
    <3> QED
      BY <3>3, <3>4
  <2> QED
    BY <2>5, <2>6
<1>7. CASE Selection!SendConnect
  <2>1. v7 /\ v1' = v1 /\ v2' = v2 /\ v3' = v3 /\ v4' = v4 /\ v9' = v9 /\ v12' = v12
    BY <1>7 DEF Selection!SendConnect
  <2>2. v5.status = "connecting" /\ ~v5.selecting /\ v4 /\ 0 < v5.nonce
    BY <2>1 DEF Selection!BridgeListens
  <2>3. ~v12'
    BY <2>1
  <2>4. CASE v6 >= MaxHandshakes
    <3>1. v5' = [v5 EXCEPT !.status = "unsupported", !.selecting = FALSE] /\ v7' = FALSE /\ v8' = v8
      BY <1>7, <2>4 DEF Selection!SendConnect
    <3>2. /\ v5' \in [status : {"waiting", "connecting", "ready", "unsupported"}, selecting : BOOLEAN, nonce : Nat]
          /\ v5'.status = "unsupported" /\ v5'.selecting = v5.selecting /\ v5'.nonce = v5.nonce
      BY <1>0, <2>2, <3>1
    <3>3. Selection!Domains'
      BY <2>1, <3>1, <3>2 DEF Selection!Domains
    <3>4. Selection!NoncesGrow'
      BY <2>1, <3>1, <3>2 DEF Selection!NoncesGrow
    <3>5. Selection!BridgeListens'
      BY <2>1, <2>2, <3>1, <3>2 DEF Selection!BridgeListens
    <3>6. Selection!ModesFollow'
      BY <2>1, <3>1, <3>2 DEF Selection!ModesFollow
    <3> QED
      BY <2>3, <3>3, <3>4, <3>5, <3>6
  <2>5. CASE ~(v6 >= MaxHandshakes)
    <3>1. v8' = Append(v8, Selection!ConnectTo(v5.nonce)) /\ v5' = v5 /\ v7' = v7
      BY <1>7, <2>5 DEF Selection!SendConnect
    <3>2. /\ v8' \in Seq(Selection!Commands) /\ Selection!Ordered(v8', v3.nonce, v5.nonce)
          /\ Selection!LastMode(v8', v5.nonce, v5.selecting)
          /\ Selection!Told(v8', v5.nonce) <=> Selection!Told(v8, v5.nonce)
      <4>1. /\ Selection!Ordered(v8, v3.nonce, v5.nonce) /\ v3.nonce <= v5.nonce
            /\ Selection!LastMode(v8, v5.nonce, v5.selecting)
        BY DEF Selection!NoncesGrow, Selection!ModesFollow
      <4> QED
        BY <1>0, <2>2, <3>1, <4>1, ConnectIsPosted
    <3>3. Selection!Domains'
      BY <2>1, <3>1, <3>2 DEF Selection!Domains
    <3>4. Selection!NoncesGrow'
      BY <2>1, <3>1, <3>2 DEF Selection!NoncesGrow
    <3>5. Selection!BridgeListens'
      BY <2>1, <3>1 DEF Selection!BridgeListens
    <3>6. Selection!ModesFollow'
      BY <2>1, <3>1, <3>2 DEF Selection!ModesFollow
    <3> QED
      BY <2>3, <3>3, <3>4, <3>5, <3>6
  <2> QED
    BY <2>4, <2>5
<1>8. CASE Selection!Toggle
  <2>1. /\ v4 /\ v5.status = "ready" /\ v5' = [v5 EXCEPT !.selecting = ~v5.selecting]
        /\ v8' = Append(v8, Selection!SetMode(v5.nonce, ~v5.selecting))
        /\ v1' = v1 /\ v2' = v2 /\ v3' = v3 /\ v4' = v4 /\ v7' = v7 /\ v9' = v9 /\ v12' = v12
    BY <1>8 DEF Selection!Toggle
  <2>2. PICK e \in BOOLEAN : e = ~v5.selecting
    BY <1>0
  <2>3. /\ v5' \in [status : {"waiting", "connecting", "ready", "unsupported"}, selecting : BOOLEAN, nonce : Nat]
        /\ v5'.status = "ready" /\ v5'.selecting = e /\ v5'.nonce = v5.nonce
    BY <1>0, <2>1, <2>2
  <2>4. /\ v8' \in Seq(Selection!Commands) /\ Selection!Ordered(v8', v3.nonce, v5.nonce)
        /\ Selection!LastMode(v8', v5.nonce, e) /\ ~Selection!Told(v8', v5.nonce)
    <3>1. 0 < v5.nonce /\ v8' = Append(v8, Selection!SetMode(v5.nonce, e))
      BY <2>1, <2>2 DEF Selection!BridgeListens
    <3> QED
      BY <3>1, ModeIsPosted
  <2>5. Selection!Domains'
    BY <2>1, <2>3, <2>4 DEF Selection!Domains
  <2>6. Selection!NoncesGrow'
    BY <2>1, <2>3, <2>4 DEF Selection!NoncesGrow
  <2>7. Selection!BridgeListens'
    BY <2>1, <2>3 DEF Selection!BridgeListens
  <2>8. Selection!ModesFollow'
    BY <2>1, <2>3, <2>4 DEF Selection!ModesFollow
  <2>9. ~v12'
    BY <2>1
  <2> QED
    BY <2>5, <2>6, <2>7, <2>8, <2>9
<1>9. CASE Selection!Retry
  <2>1. v4 /\ Selection!Connecting /\ v1' = v1 /\ v3' = v3 /\ v4' = v4 /\ v9' = v9 /\ v12' = v12
    BY <1>9 DEF Selection!Retry
  <2> QED
    BY <2>1, ConnectingKeeps
<1>10. CASE Selection!Render
  <2>1. v1' = v1 /\ v2' = v2 /\ v3' = v3 /\ v9' = v9 /\ v12' = v12
    BY <1>10 DEF Selection!Render
  <2>2. CASE Selection!CanSelect
    <3>1. Selection!Connecting /\ v4'
      BY <1>10, <2>2 DEF Selection!Render
    <3> QED
      BY <2>1, <3>1, ConnectingKeeps
  <2>3. CASE ~Selection!CanSelect
    <3>1. ~v4' /\ v5' = Selection!Waiting(v5.nonce) /\ v7' = FALSE /\ v8' = v8 \o Selection!StopMessages
      BY <1>10, <2>3 DEF Selection!Render
    <3>2. /\ v5' \in [status : {"waiting", "connecting", "ready", "unsupported"}, selecting : BOOLEAN, nonce : Nat]
          /\ v5'.status = "waiting" /\ v5'.selecting = FALSE /\ v5'.nonce = v5.nonce
      BY <1>0, <3>1 DEF Selection!Waiting
    <3>3. /\ v8' \in Seq(Selection!Commands) /\ Selection!Ordered(v8', v3.nonce, v5.nonce)
          /\ Selection!LastMode(v8', v5.nonce, FALSE)
          /\ ~v5.selecting => v8' = v8
          /\ v5.selecting => ~Selection!Told(v8', v5.nonce)
      <4>1. CASE v5.selecting
        <5>1. 0 < v5.nonce
          BY <4>1 DEF Selection!BridgeListens
        <5> QED
          BY <3>1, <4>1, <5>1, StopIsPosted, ModeIsPosted
      <4>2. CASE ~v5.selecting
        <5>1. v8' = v8 /\ v5.selecting = FALSE
          BY <1>0, <3>1, <4>2, StopIsPosted
        <5> QED
          BY <1>0, <4>2, <5>1 DEF Selection!NoncesGrow, Selection!ModesFollow
      <4> QED
        BY <4>1, <4>2
    <3>4. Selection!Domains'
      BY <2>1, <3>2, <3>3 DEF Selection!Domains
    <3>5. Selection!NoncesGrow'
      BY <2>1, <3>2, <3>3 DEF Selection!NoncesGrow
    <3>6. Selection!BridgeListens'
      BY <2>1, <3>1, <3>2 DEF Selection!BridgeListens
    <3>7. Selection!ModesFollow'
      <4>1. Selection!LastMode(v8', v5'.nonce, v5'.selecting) /\ ~v5'.selecting
        BY <3>2, <3>3
      <4>2. Selection!Told(v8', v5.nonce) /\ v3.nonce = v5.nonce => ~v3.enabled
        BY <3>3 DEF Selection!ModesFollow
      <4> QED
        BY <2>1, <3>2, <4>1, <4>2 DEF Selection!ModesFollow
    <3> QED
      BY <2>1, <3>4, <3>5, <3>6, <3>7
  <2> QED
    BY <2>2, <2>3
<1>11. CASE Selection!Send
  <2>1. v1' = v1 /\ v2' = v2 /\ v3' = v3 /\ v4' = v4 /\ v5' = v5 /\ v7' = v7 /\ v8' = v8 /\ v9' = v9 /\ v12' = v12
    BY <1>11 DEF Selection!Send
  <2>2. Selection!Domains'
    BY <2>1 DEF Selection!Domains
  <2>3. Selection!NoncesGrow'
    BY <2>1 DEF Selection!NoncesGrow
  <2>4. Selection!BridgeListens'
    BY <2>1 DEF Selection!BridgeListens
  <2>5. Selection!ModesFollow'
    BY <2>1 DEF Selection!ModesFollow
  <2>6. ~v12'
    BY <2>1
  <2> QED
    BY <2>2, <2>3, <2>4, <2>5, <2>6
<1>12. CASE Selection!Sent
  <2>1. v1' = v1 /\ v2' = v2 /\ v3' = v3 /\ v4' = v4 /\ v5' = v5 /\ v7' = v7 /\ v8' = v8 /\ v9' = v9 /\ v12' = v12
    BY <1>12 DEF Selection!Sent
  <2>2. Selection!Domains'
    BY <2>1 DEF Selection!Domains
  <2>3. Selection!NoncesGrow'
    BY <2>1 DEF Selection!NoncesGrow
  <2>4. Selection!BridgeListens'
    BY <2>1 DEF Selection!BridgeListens
  <2>5. Selection!ModesFollow'
    BY <2>1 DEF Selection!ModesFollow
  <2>6. ~v12'
    BY <2>1
  <2> QED
    BY <2>2, <2>3, <2>4, <2>5, <2>6
<1>13. CASE UNCHANGED Selection!vars
  <2>1. v1' = v1 /\ v2' = v2 /\ v3' = v3 /\ v4' = v4 /\ v5' = v5 /\ v7' = v7 /\ v8' = v8 /\ v9' = v9 /\ v12' = v12
    BY <1>13 DEF Selection!vars
  <2>2. Selection!Domains'
    BY <2>1 DEF Selection!Domains
  <2>3. Selection!NoncesGrow'
    BY <2>1 DEF Selection!NoncesGrow
  <2>4. Selection!BridgeListens'
    BY <2>1 DEF Selection!BridgeListens
  <2>5. Selection!ModesFollow'
    BY <2>1 DEF Selection!ModesFollow
  <2>6. ~v12'
    BY <2>1
  <2> QED
    BY <2>2, <2>3, <2>4, <2>5, <2>6
<1> QED
  BY <1>1, <1>2, <1>3, <1>4, <1>5, <1>6, <1>7, <1>8, <1>9, <1>10, <1>11, <1>12, <1>13 DEF Selection!Next

\* Once nothing is on its way the page and the preview agree on whether a click picks, and no
\* element of a document that was left is added, for any bounds on handshakes, loads and clicks.
THEOREM SelectionFollows == PartsSpec => []SelectionFollowsThePage
<1>1. PartsInit /\ part = "selection" => Selection!Init
  BY DEF PartsInit
<1>2. [PartsNext]_all /\ part = "selection" => [Selection!Next]_(Selection!vars)
  BY DEF PartsNext, all, Selection!vars
<1>3. [PartsNext]_all => (part = "selection" <=> (part = "selection")')
  BY PartStays
<1>4. SelectionInv => Selection!ModesAgree /\ Selection!SelectionsAreOfThePage
  BY DEF SelectionInv, Selection!NoncesGrow, Selection!BridgeListens, Selection!ModesFollow,
         Selection!ModesAgree, Selection!SelectionsAreOfThePage, Selection!Told, Selection!Domains
<1>5. (part = "selection" => SelectionInv) => SelectionFollowsThePage
  BY <1>4 DEF SelectionFollowsThePage
<1> QED
  BY <1>1, <1>2, <1>3, <1>5, SelectionInit, SelectionStep, PTL DEF PartsSpec
=============================================================================
