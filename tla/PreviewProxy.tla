----------------------------- MODULE PreviewProxy -----------------------------
(***************************************************************************)
(* startPreviewPickerProxy: the server between a preview and its tunnel,   *)
(* which adds the picker's script to HTML.  One connection asks one page    *)
(* after the other.  A page that can be instrumented is held back until it  *)
(* is whole; it is let go as it is if it is long or late.  Chunks are       *)
(* numbered and count one unit of MaxBytes each.                           *)
(***************************************************************************)
EXTENDS Naturals, Sequences

CONSTANTS
  MaxBytes,    \* MAX_HTML_BYTES, in chunks
  MaxChunks,   \* bound: chunks of a page
  MaxRequests  \* bound: pages asked

VARIABLES
  server,      \* "listening", "closing" or "closed"
  connection,  \* "none", "idle", "busy"
  response,    \* where the page in progress is
  sent,        \* chunks the preview's server has sent
  chunks,      \* those that are held back
  delivered,   \* those written to the response, in order
  heads,       \* times the headers were written
  script,      \* the script was added
  timer,       \* bufferTimeout is set
  requests

page == <<response, sent, chunks, delivered, heads, script, timer>>
vars == <<server, connection, page, requests>>

Init ==
  /\ server = "listening"
  /\ connection = "none"
  /\ response = "ended"
  /\ sent = 0
  /\ chunks = <<>>
  /\ delivered = <<>>
  /\ heads = 0
  /\ script = FALSE
  /\ timer = FALSE
  /\ requests = 0

Connect ==
  /\ server = "listening" /\ connection = "none"
  /\ connection' = "idle"
  /\ UNCHANGED <<server, page, requests>>

\* A request whose path may be forwarded reaches the preview's server.
Request ==
  /\ connection = "idle" /\ requests < MaxRequests
  /\ requests' = requests + 1
  /\ connection' = "busy"
  /\ response' = "asked"
  /\ sent' = 0 /\ chunks' = <<>> /\ delivered' = <<>>
  /\ heads' = 0 /\ script' = FALSE /\ timer' = FALSE
  /\ UNCHANGED server

\* The picker's script, and a path that is refused, need no preview.
AnswerItself ==
  /\ connection = "idle" /\ requests < MaxRequests
  /\ requests' = requests + 1
  /\ UNCHANGED <<server, connection, page>>

\* proxyRes, of a page that cannot be instrumented: headers, then the pipe.
Pass ==
  /\ response = "asked"
  /\ heads' = heads + 1
  /\ response' = "streaming"
  /\ UNCHANGED <<server, connection, sent, chunks, delivered, script, timer, requests>>

\* proxyRes, of a GET that was answered with HTML.
Hold ==
  /\ response = "asked"
  /\ response' = "held"
  /\ timer' = TRUE
  /\ UNCHANGED <<server, connection, sent, chunks, delivered, heads, script, requests>>

\* The headers and what was held back go out, and the rest is piped.
FlushOriginal(held) ==
  /\ heads' = heads + 1
  /\ delivered' = delivered \o held
  /\ chunks' = <<>>
  /\ timer' = FALSE
  /\ response' = IF response = "held" THEN "streaming" ELSE response

\* bufferChunk, or the pipe.
Chunk ==
  /\ response \in {"held", "streaming"} /\ sent < MaxChunks
  /\ sent' = sent + 1
  /\ IF response = "streaming"
       THEN delivered' = Append(delivered, sent + 1) /\ UNCHANGED <<response, chunks, heads, timer>>
       ELSE LET held == Append(chunks, sent + 1) IN
            IF Len(held) > MaxBytes
              THEN FlushOriginal(held)
              ELSE chunks' = held /\ UNCHANGED <<response, delivered, heads, timer>>
  /\ UNCHANGED <<server, connection, script, requests>>

Timeout ==
  /\ timer
  /\ FlushOriginal(chunks)
  /\ UNCHANGED <<server, connection, sent, script, requests>>

\* Mutant of EndHeld: the timer of a page that is whole goes on.
EndHeldTimed ==
  /\ response = "held"
  /\ heads' = heads + 1
  /\ delivered' = delivered \o chunks
  /\ script' \in BOOLEAN
  /\ response' = "ended" /\ connection' = "idle"
  /\ UNCHANGED <<server, sent, chunks, timer, requests>>

\* The page is whole: decoded and given the script, or left alone if it cannot be.
EndHeld ==
  /\ response = "held"
  /\ heads' = heads + 1
  /\ delivered' = delivered \o chunks
  /\ script' \in BOOLEAN
  /\ timer' = FALSE
  /\ response' = "ended" /\ connection' = "idle"
  /\ UNCHANGED <<server, sent, chunks, requests>>

EndStream ==
  /\ response = "streaming"
  /\ timer' = FALSE
  /\ response' = "ended" /\ connection' = "idle"
  /\ UNCHANGED <<server, sent, chunks, delivered, heads, script, requests>>

\* The preview's server cannot be reached, or is lost while its page is held back: the
\* browser is told so, and the response's end clears the timer.
BadGateway ==
  /\ response \in {"asked", "held"}
  /\ heads' = heads + 1
  /\ response' = "failed" /\ connection' = "idle"
  /\ timer' = FALSE
  /\ UNCHANGED <<server, sent, chunks, delivered, script, requests>>

\* The preview's server broke off, or the browser left: the response is destroyed,
\* which clears the timer.
Destroy ==
  /\ connection # "none"
  /\ connection' = "none"
  /\ response' = IF response = "ended" THEN "ended" ELSE "destroyed"
  /\ timer' = FALSE
  /\ UNCHANGED <<server, sent, chunks, delivered, heads, script, requests>>

\* close: no new connections, and the open ones are destroyed.
Close ==
  /\ server = "listening"
  /\ server' = "closing"
  /\ connection' = "none"
  /\ response' = IF response = "ended" THEN "ended" ELSE "destroyed"
  /\ timer' = FALSE
  /\ UNCHANGED <<sent, chunks, delivered, heads, script, requests>>

Closed ==
  /\ server = "closing" /\ connection = "none"
  /\ server' = "closed"
  /\ UNCHANGED <<connection, page, requests>>

Next ==
  \/ Connect \/ Request \/ AnswerItself \/ Pass \/ Hold \/ Chunk \/ Timeout
  \/ EndHeld \/ EndStream \/ BadGateway \/ Destroy \/ Close \/ Closed

\* Timers fire, the preview's server answers at all, and a server without connections closes.
Fairness == WF_vars(Timeout) /\ WF_vars(Closed)

Spec == Init /\ [][Next]_vars /\ Fairness
-----------------------------------------------------------------------------
\* A page's headers are written once: writing them again, as a timer that outlives its
\* page would, throws in a callback and ends the agent (proxyRes).
HeadersAreWrittenOnce == heads <= 1 /\ (Len(delivered) > 0 => heads = 1)

\* No chunk of a page is lost, doubled or overtaken when it is let go in the middle,
\* and what a browser is told is the end of the page is the end (flushOriginal).
PagesArriveWhole ==
  /\ \A i \in 1..Len(delivered) : delivered[i] = i
  /\ response = "streaming" => Len(delivered) = sent
  /\ response = "ended" /\ requests > 0 => Len(delivered) = sent

\* A page the preview's server never ends is shown all the same
\* (MAX_HTML_BUFFER_MS).
HeldPagesAreShown == response = "held" ~> response # "held"

\* A proxy that is asked to close does, whatever its connections are doing.
ClosingEnds == server = "closing" ~> server = "closed"
-----------------------------------------------------------------------------
(***************************************************************************)
(* What the proofs rest on.                                                *)
(***************************************************************************)
\* The first n chunks of a page, in order.
FirstChunks(s, n) == s \in Seq(Nat) /\ Len(s) = n /\ \A i \in 1..n : s[i] = i

Domains ==
  /\ response \in {"asked", "held", "streaming", "ended", "failed", "destroyed"}
  /\ sent \in Nat /\ heads \in Nat
  /\ timer \in BOOLEAN

\* What the response has been given is where the page has come to.
ResponseFollowsPage ==
  /\ FirstChunks(delivered, Len(delivered))
  /\ timer => response = "held"
  /\ response = "asked" => sent = 0
  /\ response \in {"asked", "held"} => heads = 0 /\ FirstChunks(delivered, 0)
  /\ response \in {"asked", "held"} => FirstChunks(chunks, sent)
  /\ response = "streaming" => heads = 1
  /\ response \in {"streaming", "ended"} => Len(delivered) = sent
  /\ HeadersAreWrittenOnce
=============================================================================
