---------------------------- MODULE ModelRequest ----------------------------
(***************************************************************************)
(* One request to the local model server: LoopbackOllamaTransport.request, *)
(* the loop over the pinned addresses, and _default_sender with its        *)
(* deadline.  Two threads take part.  The sender connects, transmits and   *)
(* reads, and looks at the clock after each call (enforce).  A timer       *)
(* thread shuts the connection down once the deadline has passed, so that  *)
(* a call that is blocked returns.  The server is free: it may refuse,     *)
(* reset, trickle, stop in the middle or redirect.                         *)
(*                                                                         *)
(* What the calls of http.client do is external: getresponse hands the     *)
(* socket to the response when the server closes the connection after the  *)
(* answer, and a status line cut short or unreadable and a body that ends  *)
(* before its announced length raise exceptions that are neither an        *)
(* OSError nor a ValueError.                                               *)
(***************************************************************************)
EXTENDS Naturals

CONSTANTS
    Addresses,      \* how many loopback addresses the host resolves to
    MaxRedirects,   \* the limit of redirects (5 in the code)
    ServerCloses    \* whether a server closes after its answer: a set of Booleans

ASSUME RequestConstants ==
    /\ Addresses \in Nat \ {0}
    /\ MaxRedirects \in Nat
    /\ ServerCloses \subseteq BOOLEAN

VARIABLES
    phase,      \* where the sender is
    address,    \* the pinned address it tries
    hop,        \* redirects followed so far
    late,       \* the deadline of the request has passed
    timer,      \* the timer thread of this connection
    sock,       \* the socket, as connection.sock shows it to the timer
    sent,       \* transmissions at this hop
    outcome     \* how the request ended

requestVars == <<phase, address, hop, late, timer, sock, sent, outcome>>

Phases == {"idle", "resolve", "dial", "connect", "send", "head", "body", "done"}

\* "unavailable" is every exception the fallback catches, "refused" a
\* ValueError, "crash" any other exception.
Outcomes == {"none", "answer", "unavailable", "timeout", "refused", "crash"}

RequestTypeOK ==
    /\ phase \in Phases
    /\ address \in 1 .. Addresses
    /\ hop \in 0 .. MaxRedirects
    /\ late \in BOOLEAN
    /\ timer \in {"off", "armed", "fired"}
    /\ sock \in {"none", "open", "shut", "handed"}
    /\ sent \in Nat
    /\ outcome \in Outcomes

RequestInit ==
    /\ phase = "idle" /\ address = 1 /\ hop = 0 /\ late = FALSE
    /\ timer = "off" /\ sock = "none" /\ sent = 0 /\ outcome = "none"

\* The request ends: the with statement cancels the timer, finally closes.
Finish(o) ==
    /\ phase' = "done" /\ outcome' = o /\ timer' = "off" /\ sock' = "none"
    /\ UNCHANGED <<address, hop, late>>

\* A call returned; enforce() looks at the clock before the sender goes on.
Proceed(next, s) ==
    IF late THEN Finish("timeout")
    ELSE /\ phase' = next /\ sock' = s
         /\ UNCHANGED <<address, hop, late, timer, outcome>>

\* The failure of a call: enforce() turns it into a timeout when it is late.
Failure == Finish(IF late THEN "timeout" ELSE "unavailable")

\* LoopbackOllamaTransport.request is called.
Begin ==
    /\ phase \in {"idle", "done"}
    /\ phase' = "resolve" /\ address' = 1 /\ hop' = 0 /\ late' = FALSE
    /\ timer' = "off" /\ sock' = "none" /\ sent' = 0 /\ outcome' = "none"

\* validate_ollama_endpoint accepts loopback addresses only.
Resolve ==
    /\ phase = "resolve"
    /\ \/ Finish("refused")
       \/ /\ phase' = "dial" /\ address' = 1
          /\ UNCHANGED <<hop, late, timer, sock, outcome>>
    /\ UNCHANGED sent

\* _send_to_validated_address: what is left of the time, a new connection.
Dial ==
    /\ phase = "dial"
    /\ IF late THEN Finish("timeout")
       ELSE /\ phase' = "connect" /\ timer' = "armed"
            /\ UNCHANGED <<address, hop, late, sock, outcome>>
    /\ UNCHANGED sent

\* _OllamaConnectFailure: nothing was transmitted, so the next address may be.
NextAddress ==
    IF address = Addresses THEN Finish("unavailable")
    ELSE /\ phase' = "dial" /\ address' = address + 1
         /\ timer' = "off" /\ sock' = "none"
         /\ UNCHANGED <<hop, late, outcome>>

Connect ==
    /\ phase = "connect"
    /\ NextAddress \/ Proceed("send", "open")
    /\ UNCHANGED sent

\* http.client opens a connection again that the timer has shut.
Transmit ==
    /\ phase = "send"
    /\ \/ Proceed("head", "open") /\ sent' = sent + 1
       \/ Finish("unavailable") /\ UNCHANGED sent

\* Mutant: any failure of the sender tries the next address.
FailureTriesNext == NextAddress

\* After the transmission a failure ends the request, whatever addresses are left.
AfterTransmission == Failure

\* getresponse: the answer's head arrives, or the server resets, or what arrives
\* is not a head.
ReadHead ==
    /\ phase = "head" /\ sock = "open"
    /\ \/ \E closes \in ServerCloses : Proceed("body", IF closes THEN "handed" ELSE "open")
       \/ AfterTransmission
       \/ Finish("crash")
    /\ UNCHANGED sent

\* A redirect is followed from the start, within the limit and with a location.
Redirect ==
    \/ Finish("refused")
    \/ /\ hop < MaxRedirects
       /\ phase' = "resolve" /\ hop' = hop + 1 /\ timer' = "off" /\ sock' = "none"
       /\ UNCHANGED <<address, late, outcome>>

\* The whole body arrived; the transport looks at the status.
ReadBody ==
    /\ phase = "body" /\ sock \in {"open", "handed"}
    /\ IF late
       THEN Finish("timeout") /\ UNCHANGED sent
       ELSE \/ Finish("answer") /\ UNCHANGED sent
            \/ Finish("unavailable") /\ UNCHANGED sent
            \/ Redirect /\ sent' = 0

\* The server resets, or ends the body before its announced length.
LoseBody ==
    /\ phase = "body" /\ sock \in {"open", "handed"}
    /\ AfterTransmission \/ Finish("crash")
    /\ UNCHANGED sent

\* The timer shut the socket under a blocked call.
Interrupted ==
    /\ phase \in {"head", "body"} /\ sock = "shut"
    /\ Finish("timeout") \/ Finish("crash")
    /\ UNCHANGED sent

Expire ==
    /\ phase \notin {"idle", "done"} /\ ~late
    /\ late' = TRUE
    /\ UNCHANGED <<phase, address, hop, timer, sock, sent, outcome>>

\* Mutant: the timer only notes that it fired.
AbortNotes(s) == s

\* _abort shuts the socket it finds at the connection.
Abort(s) == IF s = "open" THEN "shut" ELSE s

Fire ==
    /\ timer = "armed" /\ late
    /\ timer' = "fired" /\ sock' = Abort(sock)
    /\ UNCHANGED <<phase, address, hop, late, sent, outcome>>

Sender == Resolve \/ Dial \/ Connect \/ Transmit \/ ReadHead \/ ReadBody \/ LoseBody \/ Interrupted

RequestStep == Sender \/ Expire \/ Fire

\* Calls on a loopback address return; only reading waits for the server, and
\* nothing makes a server go on.
RequestFairness ==
    /\ WF_requestVars(Resolve) /\ WF_requestVars(Dial)
    /\ WF_requestVars(Connect) /\ WF_requestVars(Transmit)
    /\ WF_requestVars(Interrupted)
    /\ WF_requestVars(Expire) /\ WF_requestVars(Fire)

-----------------------------------------------------------------------------

(* One request is transmitted at most once before it is redirected: a failure
   after the transmission must not send a costly generation to another address
   (tests/test_ollama_transport.py, test_response_timeout_and_reset_do_not_retry_generation). *)
SentOnce == sent <= 1

=============================================================================
