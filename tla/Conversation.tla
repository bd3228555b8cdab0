------------------------------ MODULE Conversation ------------------------------
(***************************************************************************)
(* The conversation of a session as a browser shows it: the messages and   *)
(* the events of the session come in two reads of their own, and           *)
(* buildSessionConversation and groupConversationProgress make rows of     *)
(* them.  An entry is recorded under the time of its transaction, which    *)
(* need not be the order the entries appear in.                            *)
(***************************************************************************)
EXTENDS Naturals, Sequences, SequencesExt

CONSTANTS
  None,
  Texts,       \* what the harness says
  MaxEntries,  \* bound: entries of the conversation
  MaxTime      \* bound: times they are recorded under

VARIABLES
  entries,       \* the entries in the order they were written
  messagesRead,  \* how many of them there were at the read of the messages
  eventsRead     \* and at the read of the events

conversationVars == <<entries, messagesRead, eventsRead>>

\* What was said matters only of what the harness says; "silent" events make no item: a
\* heartbeat, a passed check, noise on stderr.
Entries(id) ==
  [id : {id}, kind : {"reply", "progress"}, text : Texts, at : 1..MaxTime]
    \cup [id : {id}, kind : {"user", "error", "silent"}, text : {None}, at : 1..MaxTime]

Init == entries = <<>> /\ messagesRead = 0 /\ eventsRead = 0
-----------------------------------------------------------------------------
IsMessage(entry) == entry.kind = "user"
IsShown(entry) == entry.kind # "silent"
Known == SubSeq(entries, 1, messagesRead)
KnownEvents == SubSeq(entries, 1, eventsRead)

\* What is known: by time, and at the same time messages before events, both in the order
\* they were written.
Before(left, right) ==
  \/ left.at < right.at
  \/ left.at = right.at /\ IsMessage(left) /\ ~IsMessage(right)
  \/ left.at = right.at /\ (IsMessage(left) <=> IsMessage(right)) /\ left.id < right.id
Items ==
  LET shown == SelectSeq(Known, IsMessage) \o SelectSeq(SelectSeq(KnownEvents, LAMBDA e : ~IsMessage(e)), IsShown)
  IN SortSeq(shown, Before)

\* A final message takes the place of the progress that said the same just before.
Promotes(previous, item) == previous.kind = "progress" /\ item.kind = "reply" /\ previous.text = item.text
Promote(items) ==
  FoldLeft(LAMBDA done, item :
             IF done # <<>> /\ Promotes(Last(done), item) THEN Append(Front(done), item) ELSE Append(done, item),
           <<>>, items)

\* A row is the items it shows and the key it is rendered under.
Row(item) == [key |-> <<item.kind, item.id>>, items |-> <<item>>]

\* Messages of the assistant that follow one another in one tone are one message.
Joins(row, item) == Last(row.items).kind = item.kind /\ item.kind \in {"reply", "error"}
Merge(items) ==
  FoldLeft(LAMBDA rows, item :
             IF rows # <<>> /\ Joins(Last(rows), item)
             THEN Append(Front(rows), [Last(rows) EXCEPT !.items = Append(@, item)])
             ELSE Append(rows, Row(item)),
           <<>>, items)

IsProgress(row) == row.items[1].kind = "progress"
GroupOf(pending) ==
  IF pending = <<>> THEN <<>> ELSE <<[key |-> <<"group", pending[1].id>>, items |-> pending]>>
Collected(rows) ==
  FoldLeft(LAMBDA state, row :
             IF IsProgress(row)
             THEN [state EXCEPT !.pending = @ \o row.items]
             ELSE [rows |-> state.rows \o GroupOf(state.pending) \o <<row>>, pending |-> <<>>],
           [rows |-> <<>>, pending |-> <<>>], rows)

\* Mutant of Grouped: what is pending at the end is kept for the next message.
GroupedButTheRest(rows, atWork) ==
  LET state == Collected(rows)
  IN state.rows \o (IF atWork /\ state.pending # <<>> THEN <<Row(Last(state.pending))>> ELSE <<>>)

\* Progress is folded away, but for what the harness is doing now.
Grouped(rows, atWork) ==
  LET state == Collected(rows)
      current == IF atWork /\ state.pending # <<>> THEN <<Row(Last(state.pending))>> ELSE <<>>
  IN state.rows \o GroupOf(IF current = <<>> THEN state.pending ELSE Front(state.pending)) \o current

\* isWorking: the harness is at it, or a prompt is being sent.
Rows(isWorking) == Grouped(Merge(Promote(Items)), isWorking)
-----------------------------------------------------------------------------
Write ==
  /\ Len(entries) < MaxEntries
  /\ \E entry \in Entries(Len(entries) + 1) : entries' = Append(entries, entry)
  /\ UNCHANGED <<messagesRead, eventsRead>>

ReadMessages == messagesRead' = Len(entries) /\ UNCHANGED <<entries, eventsRead>>
ReadEvents == eventsRead' = Len(entries) /\ UNCHANGED <<entries, messagesRead>>

Next == Write \/ ReadMessages \/ ReadEvents

ConversationSpec == Init /\ [][Next]_conversationVars
-----------------------------------------------------------------------------
ItemsShown(rows) == FlattenSeq([i \in DOMAIN rows |-> rows[i].items])

\* Every message and every answer that was read is shown once, in its place in time; only
\* a progress that the next item repeats as the final message is left out.
NothingIsLost ==
  LET items == Items
      repeated == {i \in DOMAIN items : i < Len(items) /\ Promotes(items[i], items[i + 1])}
      kept == FoldLeft(LAMBDA done, i : IF i \in repeated THEN done ELSE Append(done, items[i]),
                       <<>>, [i \in DOMAIN items |-> i])
  IN \A isWorking \in BOOLEAN : ItemsShown(Rows(isWorking)) = kept

\* A row speaks with one voice, two rows that follow one another do not say what one could,
\* and a step of the work stands alone only while it is the last thing the harness did.
RowsAreWhole ==
  \A isWorking \in BOOLEAN :
    LET rows == Rows(isWorking)
        kind(i) == rows[i].items[1].kind
    IN \A i \in DOMAIN rows :
         /\ \A item \in Range(rows[i].items) : item.kind = kind(i)
         /\ i < Len(rows) /\ kind(i) # "user" /\ kind(i + 1) = kind(i)
              => isWorking /\ i + 1 = Len(rows) /\ IsProgress(rows[i])
         /\ rows[i].key[1] = "progress" => isWorking /\ i = Len(rows)
=============================================================================
