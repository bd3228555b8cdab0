---------------------------- MODULE PreviewSelection ----------------------------
(***************************************************************************)
(* Picking elements of the preview: PreviewSelectionBridge in the page of  *)
(* a session, and the script that the agent's proxy puts into the preview, *)
(* which another origin serves.  They talk by messages of two windows; a   *)
(* nonce tells the connections apart, for the preview loads new documents  *)
(* while messages are on their way.                                        *)
(***************************************************************************)
EXTENDS Naturals, Sequences, FiniteSets

CONSTANTS
  Elements,
  Limit,         \* selections a prompt may carry
  MaxHandshakes, \* HANDSHAKE_MAX_ATTEMPTS
  MaxConnects, MaxToggles, MaxLoads

VARIABLES
  document,    \* the preview's document: its number, and whether it has the script
  loading,     \* it has replaced another one and has not loaded yet
  picker,      \* the script: the nonce it was told, and whether it is picking
  attached,    \* the bridge of the last render may select: it listens
  bridge,      \* the bridge: its status, whether it is selecting, its nonce
  attempts, retryTimer,
  toPreview,   \* messages to the preview's window
  toPage,      \* messages to the page's
  selections,
  sending,     \* a prompt is being sent
  foreign,     \* a selection of a document that was no longer shown was added
  toggles

vars == <<document, loading, picker, attached, bridge, attempts, retryTimer, toPreview, toPage,
          selections, sending, foreign, toggles>>

Silent == [nonce |-> 0, enabled |-> FALSE]
Waiting(nonce) == [status |-> "waiting", selecting |-> FALSE, nonce |-> nonce]
SetMode(nonce, enabled) == [type |-> "set-mode", nonce |-> nonce, enabled |-> enabled]
ConnectTo(nonce) == [type |-> "connect", nonce |-> nonce, enabled |-> FALSE]
Reply(type, element) == [type |-> type, nonce |-> picker.nonce, of |-> element, from |-> document.number]
Nothing == "nothing"

Init ==
  /\ document = [number |-> 0, scripted |-> FALSE]
  /\ loading = FALSE
  /\ picker = Silent
  /\ attached = FALSE
  /\ bridge = Waiting(0)
  /\ attempts = 0
  /\ retryTimer = FALSE
  /\ toPreview = <<>>
  /\ toPage = <<>>
  /\ selections = {}
  /\ sending = FALSE
  /\ foreign = FALSE
  /\ toggles = 0

\* stopSelection: what it posts.
StopMessages == IF bridge.selecting THEN <<SetMode(bridge.nonce, FALSE)>> ELSE <<>>

\* connect: a nonce of its own, and the first attempt.
Connecting ==
  /\ bridge.nonce < MaxConnects
  /\ bridge' = [status |-> "connecting", selecting |-> FALSE, nonce |-> bridge.nonce + 1]
  /\ attempts' = 1
  /\ retryTimer' = TRUE
  /\ toPreview' = toPreview \o StopMessages \o <<ConnectTo(bridge.nonce + 1)>>
-----------------------------------------------------------------------------
(***************************************************************************)
(* The preview.                                                            *)
(***************************************************************************)
\* The frame shows another document; messages may be lost with the old one.
Navigate ==
  /\ document.number < MaxLoads
  /\ \E scripted \in BOOLEAN : document' = [number |-> document.number + 1, scripted |-> scripted]
  /\ picker' = Silent
  /\ loading' = TRUE
  /\ toPreview' \in {toPreview, <<>>}
  /\ UNCHANGED <<attached, bridge, attempts, retryTimer, toPage, selections, sending, foreign, toggles>>

\* Its load event connects the bridge, if one listens.
Load ==
  /\ loading
  /\ loading' = FALSE
  /\ IF attached THEN Connecting ELSE UNCHANGED <<bridge, attempts, retryTimer, toPreview>>
  /\ UNCHANGED <<document, picker, attached, toPage, selections, sending, foreign, toggles>>

\* The script's message listener.
PreviewReceives ==
  /\ toPreview # <<>>
  /\ toPreview' = Tail(toPreview)
  /\ LET message == Head(toPreview) IN
     IF ~document.scripted THEN UNCHANGED <<picker, toPage>>
     ELSE IF message.type = "connect"
       THEN /\ picker' = [nonce |-> message.nonce,
                          enabled |-> picker.enabled /\ picker.nonce = message.nonce]
            /\ toPage' = Append(toPage, [type |-> "ready", nonce |-> message.nonce,
                                         of |-> Nothing, from |-> document.number])
     ELSE /\ picker' = IF message.nonce = picker.nonce
                         THEN [picker EXCEPT !.enabled = message.enabled] ELSE picker
          /\ UNCHANGED toPage
  /\ UNCHANGED <<document, loading, attached, bridge, attempts, retryTimer, selections, sending, foreign, toggles>>

\* setMode, to end it.
StoppedPicker == [picker EXCEPT !.enabled = FALSE]

\* selectElement: one click or key ends the mode, before it answers.
Pick ==
  /\ picker.enabled
  /\ picker' = StoppedPicker
  /\ \E e \in Elements : toPage' = Append(toPage, Reply("selected", e))
  /\ UNCHANGED <<document, loading, attached, bridge, attempts, retryTimer, toPreview, selections, sending, foreign, toggles>>

\* Escape in the preview.
Cancel ==
  /\ picker.enabled
  /\ picker' = StoppedPicker
  /\ toPage' = Append(toPage, Reply("cancelled", Nothing))
  /\ UNCHANGED <<document, loading, attached, bridge, attempts, retryTimer, toPreview, selections, sending, foreign, toggles>>
-----------------------------------------------------------------------------
(***************************************************************************)
(* The page.                                                               *)
(***************************************************************************)
\* handleSelectElement.
Added(element) ==
  IF Cardinality(selections) < Limit THEN selections \cup {element} ELSE selections

\* handleMessage: what it takes a message for its own by.
Heeds(message) == attached /\ message.nonce = bridge.nonce

\* Mutant of Readied: a script that is ready starts anew.
ReadiedAnew == [bridge EXCEPT !.status = "ready", !.selecting = FALSE]

\* A "ready" may answer an attempt that an earlier one has answered.
Readied == [bridge EXCEPT !.status = "ready"]

\* handleMessage.
PageReceives ==
  /\ toPage # <<>>
  /\ toPage' = Tail(toPage)
  /\ LET message == Head(toPage) IN
     IF ~Heeds(message)
       THEN UNCHANGED <<bridge, retryTimer, toPreview, selections, foreign>>
     ELSE IF message.type = "ready"
       THEN /\ bridge' = Readied
            /\ retryTimer' = FALSE
            /\ UNCHANGED <<toPreview, selections, foreign>>
     ELSE /\ bridge' = [bridge EXCEPT !.selecting = FALSE]
          /\ toPreview' = toPreview \o StopMessages
          /\ IF message.type = "selected" /\ bridge.selecting
               THEN /\ selections' = Added(message.of)
                    /\ foreign' = (foreign \/ (~loading /\ message.from # document.number))
               ELSE UNCHANGED <<selections, foreign>>
          /\ UNCHANGED retryTimer
  /\ UNCHANGED <<document, loading, picker, attached, attempts, sending, toggles>>

\* Mutant of SendConnect: an attempt is made once.
SendConnectOnce ==
  /\ retryTimer
  /\ retryTimer' = FALSE
  /\ attempts' = attempts
  /\ UNCHANGED <<document, loading, picker, attached, bridge, toPreview, toPage, selections, sending, foreign, toggles>>

\* sendConnect, of the retry timer: the last attempt gives the connection up.
SendConnect ==
  /\ retryTimer
  /\ IF attempts >= MaxHandshakes
       THEN /\ bridge' = [bridge EXCEPT !.status = "unsupported", !.selecting = FALSE]
            /\ retryTimer' = FALSE
            /\ UNCHANGED <<attempts, toPreview>>
       ELSE /\ attempts' = attempts + 1
            /\ toPreview' = Append(toPreview, ConnectTo(bridge.nonce))
            /\ UNCHANGED <<bridge, retryTimer>>
  /\ UNCHANGED <<document, loading, picker, attached, toPage, selections, sending, foreign, toggles>>

\* toggleSelection, and Escape in the page: stopSelection.
Toggle ==
  /\ attached /\ bridge.status = "ready" /\ toggles < MaxToggles
  /\ toggles' = toggles + 1
  /\ bridge' = [bridge EXCEPT !.selecting = ~@]
  /\ toPreview' = Append(toPreview, SetMode(bridge.nonce, ~bridge.selecting))
  /\ UNCHANGED <<document, loading, picker, attached, attempts, retryTimer, toPage, selections, sending, foreign>>

\* retryConnection.
Retry ==
  /\ attached /\ bridge.status = "unsupported"
  /\ Connecting
  /\ UNCHANGED <<document, loading, picker, attached, toPage, selections, sending, foreign, toggles>>

\* canSelectElements.
CanSelect == ~sending /\ Cardinality(selections) < Limit

\* When that changes the next render makes a new bridge: attachFrame.
Render ==
  /\ attached # CanSelect
  /\ attached' = CanSelect
  /\ IF CanSelect
       THEN Connecting
       ELSE /\ bridge' = Waiting(bridge.nonce)
            /\ retryTimer' = FALSE
            /\ toPreview' = toPreview \o StopMessages
            /\ UNCHANGED attempts
  /\ UNCHANGED <<document, loading, picker, toPage, selections, sending, foreign, toggles>>

\* A prompt: its composer clears the selections once it is accepted.
Send ==
  /\ ~sending /\ selections # {}
  /\ sending' = TRUE
  /\ UNCHANGED <<document, loading, picker, attached, bridge, attempts, retryTimer, toPreview, toPage, selections, foreign, toggles>>

Sent ==
  /\ sending
  /\ sending' = FALSE
  /\ selections' \in {{}, selections}
  /\ UNCHANGED <<document, loading, picker, attached, bridge, attempts, retryTimer, toPreview, toPage, foreign, toggles>>

Next ==
  \/ Navigate \/ Load \/ PreviewReceives \/ Pick \/ Cancel
  \/ PageReceives \/ SendConnect \/ Toggle \/ Retry \/ Render \/ Send \/ Sent

\* Windows deliver what they are sent and timers fire; nobody need click.
Fairness == WF_vars(PreviewReceives) /\ WF_vars(PageReceives) /\ WF_vars(SendConnect)

Spec == Init /\ [][Next]_vars /\ Fairness
-----------------------------------------------------------------------------
\* Once no message is on its way and no document is loading, the page and the preview
\* agree on whether a click picks an element: also after both ended the mode at
\* once, after repeated handshakes and after a new document.
ModesAgree ==
  toPreview = <<>> /\ toPage = <<>> /\ ~loading /\ bridge.status = "ready"
    => picker.enabled = bridge.selecting

\* An element of a document that the preview has left and replaced by another that has loaded
\* is never added to the prompt, however late its message comes.
SelectionsAreOfThePage == ~foreign

\* A preview that has the script ends up ready to be picked from, unless it is
\* left or selecting becomes impossible; also when the script answers after the last attempt.
ScriptsAreFound ==
  attached /\ document.scripted /\ ~loading
    ~> bridge.status = "ready" \/ ~attached \/ loading

\* Where there is no script, the page says so.
WaitingEnds == bridge.status = "connecting" ~> bridge.status # "connecting"
-----------------------------------------------------------------------------
(***************************************************************************)
(* What the proofs rest on.                                                *)
(***************************************************************************)
Commands == [type : {"connect", "set-mode"}, nonce : Nat, enabled : BOOLEAN]
Replies == [type : {"ready", "selected", "cancelled"}, nonce : Nat, of : Elements \cup {Nothing}, from : Nat]

Domains ==
  /\ document \in [number : Nat, scripted : BOOLEAN]
  /\ picker \in [nonce : Nat, enabled : BOOLEAN]
  /\ bridge \in [status : {"waiting", "connecting", "ready", "unsupported"}, selecting : BOOLEAN, nonce : Nat]
  /\ toPreview \in Seq(Commands)
  /\ toPage \in Seq(Replies)

\* The nonces grow, on both ways: the script has the latest it was told, the bridge the latest.
Ordered(queue, low, high) ==
  \A i \in DOMAIN queue :
    /\ 0 < queue[i].nonce /\ low <= queue[i].nonce /\ queue[i].nonce <= high
    /\ \A j \in DOMAIN queue : i < j => queue[i].nonce <= queue[j].nonce

Known(message, bridged, number, told) ==
  /\ message.nonce <= bridged /\ message.from <= number
  /\ message.from = number => message.nonce <= told

NoncesGrow ==
  /\ Ordered(toPreview, picker.nonce, bridge.nonce)
  /\ picker.nonce <= bridge.nonce
  /\ \A i \in DOMAIN toPage : Known(toPage[i], bridge.nonce, document.number, picker.nonce)

\* A bridge that listens to a loaded document is ready only of its script, and hears no other.
BridgeListens ==
  /\ ~attached => bridge.status = "waiting"
  /\ bridge.selecting => bridge.status = "ready"
  /\ attached => 0 < bridge.nonce
  /\ retryTimer => bridge.status = "connecting"
  /\ 0 < picker.nonce => document.scripted
  /\ ~loading /\ attached =>
       /\ bridge.status = "ready" => picker.nonce = bridge.nonce
       /\ \A i \in DOMAIN toPage : toPage[i].nonce = bridge.nonce => toPage[i].from = document.number

\* The last mode the script is told is the bridge's; once it is told, they differ only by
\* an answer of the script's that is on its way.
Mode(message, nonce) == message.type = "set-mode" /\ message.nonce = nonce
Told(queue, nonce) == \A i \in DOMAIN queue : ~Mode(queue[i], nonce)
LastMode(queue, nonce, enabled) ==
  \A i \in DOMAIN queue :
    Mode(queue[i], nonce) /\ (\A j \in DOMAIN queue : i < j => ~Mode(queue[j], nonce)) => queue[i].enabled = enabled

ModesFollow ==
  /\ LastMode(toPreview, bridge.nonce, bridge.selecting)
  /\ Told(toPreview, bridge.nonce) /\ picker.nonce = bridge.nonce /\ picker.enabled => bridge.selecting
  /\ Told(toPreview, bridge.nonce) /\ ~loading /\ bridge.selecting /\ ~picker.enabled =>
       \E i \in DOMAIN toPage : toPage[i].nonce = bridge.nonce /\ toPage[i].type # "ready"
=============================================================================
