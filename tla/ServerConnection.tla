--------------------------- MODULE ServerConnection ---------------------------
(***************************************************************************)
(* One connection of the Misfin server: MisfinServerProtocol               *)
(* (server/protocol.py), with the tasks it starts for the middleware chain *)
(* and for the message handler.  Everything runs in one event loop, so an  *)
(* action is one callback: data_received, the timer, connection_lost, or   *)
(* the end of a task.                                                      *)
(*                                                                         *)
(* Bytes are counted, not represented: what the peer sends is the header   *)
(* line, of one of a few kinds, and then body bytes.  The transport is     *)
(* asyncio's: after close() it delivers no data and drops what is written, *)
(* and it calls connection_lost in the end.                                *)
(***************************************************************************)
EXTENDS Integers, Sequences

CONSTANTS
    MaxLength,  \* bound on the content length a header announces
    MaxExcess   \* bound on the bytes the peer sends after the request's end

ASSUME ServerConnectionAssumption == MaxLength \in Nat /\ MaxExcess \in Nat

\* What the first line is: a Misfin(C) header with a content length, a
\* Misfin(B) request, a line that neither parser takes, or more bytes than
\* either format allows without a CRLF.
Headers == {"C", "B", "bad", "oversized"}

Replies == {"answer", "failure", "denied", "bad request", "timeout"}

VARIABLES
    config,     \* is there a middleware chain, and is the handler a coroutine?
    wire,       \* what the peer has to send
    transport,  \* "open", "closing" (close() was called) or "lost" (None)
    received_first_byte,
    header_received,
    awaiting_body,
    request,    \* self.request is set
    buffer,     \* number of body bytes received
    timer,      \* the request timeout is armed
    screening,  \* number of middleware tasks not yet done
    handling,   \* number of handler tasks that have not delivered yet
    finishing,  \* number of handler tasks that have, with no result sent yet
    written,    \* the replies written to an open transport
    processed,  \* number of calls of _process_request
    handled     \* number of times the handler has handled the request

state == <<transport, received_first_byte, header_received, awaiting_body,
           request, buffer, timer>>
tasks == <<screening, handling, finishing>>
history == <<written, processed, handled>>
vars == <<config, wire, state, tasks, history>>

Init ==
    /\ config \in [middleware : BOOLEAN, async : BOOLEAN]
    /\ wire \in [header : Headers, length : 0..MaxLength, excess : 0..MaxExcess]
    /\ transport = "open"
    /\ received_first_byte = FALSE
    /\ header_received = FALSE
    /\ awaiting_body = FALSE
    /\ request = FALSE
    /\ buffer = 0
    /\ timer = TRUE
    /\ screening = 0 /\ handling = 0 /\ finishing = 0
    /\ written = <<>> /\ processed = 0 /\ handled = 0

-----------------------------------------------------------------------------

\* Faulty _send_response: the connection is left open.
Send_NoClose(reply) ==
    /\ written' = IF transport = "open" THEN Append(written, reply) ELSE written
    /\ UNCHANGED transport

\* _send_response: write and close, unless the connection is gone.
Send(reply) ==
    /\ written' = IF transport = "open" THEN Append(written, reply) ELSE written
    /\ transport' = IF transport = "open" THEN "closing" ELSE transport

\* _route_request: a handler that is a plain function answers at once, by a
\* response or an exception; a coroutine becomes a task.
RouteRequest ==
    IF config.async
      THEN /\ handling' = handling + 1
           /\ UNCHANGED <<handled, written, transport>>
      ELSE /\ handled' = handled + 1
           /\ \E reply \in {"answer", "failure"} : Send(reply)
           /\ UNCHANGED handling

\* _process_request.
ProcessRequest ==
    /\ processed' = processed + 1
    /\ IF config.middleware
         THEN /\ screening' = screening + 1
              /\ UNCHANGED <<handling, handled, written, transport>>
         ELSE RouteRequest /\ UNCHANGED screening
    /\ UNCHANGED finishing

-----------------------------------------------------------------------------
(* data_received *)

\* No CRLF yet, and not too many bytes.
ReceivePartialHeader ==
    /\ transport = "open" /\ ~header_received
    /\ received_first_byte' = TRUE
    /\ UNCHANGED <<config, wire, transport, header_received, awaiting_body, request,
                   buffer, timer, tasks, history>>

\* No CRLF, and too many bytes.
ReceiveOversizedHeader ==
    /\ transport = "open" /\ ~header_received
    /\ wire.header = "oversized"
    /\ received_first_byte' = TRUE
    /\ Send("bad request")
    /\ UNCHANGED <<config, wire, header_received, awaiting_body, request, buffer,
                   timer, tasks, processed, handled>>

\* The body bytes a chunk may bring.
Chunk == 0 .. wire.excess + (IF wire.header = "C" THEN wire.length ELSE 0) - buffer

\* A request is complete with its header if it is in format B or announces no
\* body, and otherwise when its whole body has come.
CompleteAtHeader == wire.header = "B" \/ wire.length = 0

BodyComplete(n) == buffer + n >= wire.length

\* Faulty header phase: the timer runs on for a request without a body.
TimerAfterHeader_NoCancel(n) ==
    IF ~CompleteAtHeader /\ BodyComplete(n) THEN FALSE ELSE timer

\* _cancel_timeout, once the request is complete.
TimerAfterHeader(n) ==
    IF CompleteAtHeader \/ BodyComplete(n) THEN FALSE ELSE timer

\* The CRLF has come, and n bytes behind it: _receive_header.
ReceiveHeader(n) ==
    /\ transport = "open" /\ ~header_received
    /\ wire.header # "oversized"
    /\ received_first_byte' = TRUE
    /\ header_received' = TRUE
    /\ buffer' = n
    /\ IF wire.header = "bad"
         THEN /\ Send("bad request")
              /\ UNCHANGED <<request, awaiting_body, timer, tasks, processed, handled>>
         ELSE /\ request' = TRUE
              /\ awaiting_body' = ~CompleteAtHeader
              /\ timer' = TimerAfterHeader(n)
              /\ IF CompleteAtHeader \/ BodyComplete(n)
                   THEN ProcessRequest
                   ELSE UNCHANGED <<transport, tasks, history>>
    /\ UNCHANGED <<config, wire>>

\* n more bytes after the header: phase 2 of data_received.  awaiting_body is
\* never reset, so bytes that come after the end of the body, while the
\* request is being processed, have it processed again.
ReceiveBody(n) ==
    /\ transport = "open" /\ header_received
    /\ n > 0
    /\ buffer' = buffer + n
    /\ IF awaiting_body /\ request /\ BodyComplete(n)
         THEN timer' = FALSE /\ ProcessRequest
         ELSE UNCHANGED <<transport, timer, tasks, history>>
    /\ UNCHANGED <<config, wire, received_first_byte, header_received, awaiting_body,
                   request>>

-----------------------------------------------------------------------------
(* The ends of tasks, the timer and the end of the connection *)

\* Faulty _handle_middleware_result: a denied request is routed all the same.
MiddlewareDone_NoReturn(allowed) ==
    /\ screening > 0
    /\ screening' = screening - 1
    /\ handling' = handling + 1
    /\ IF allowed
         THEN UNCHANGED <<written, transport>>
         ELSE \E reply \in {"denied", "failure"} : Send(reply)
    /\ UNCHANGED <<config, wire, received_first_byte, header_received, awaiting_body,
                   request, buffer, timer, finishing, processed, handled>>

\* _handle_middleware_result.
MiddlewareDone(allowed) ==
    /\ screening > 0
    /\ screening' = screening - 1
    /\ IF allowed
         THEN RouteRequest
         ELSE /\ \E reply \in {"denied", "failure"} : Send(reply)
              /\ UNCHANGED <<handling, handled>>
    /\ UNCHANGED <<config, wire, received_first_byte, header_received, awaiting_body,
                   request, buffer, timer, finishing, processed>>

\* The handler's coroutine does its work ...
HandlerRuns ==
    /\ handling > 0
    /\ handling' = handling - 1
    /\ finishing' = finishing + 1
    /\ handled' = handled + 1
    /\ UNCHANGED <<config, wire, state, screening, written, processed>>

\* ... and its result, or exception, is sent: _handle_handler_result.
HandlerDone ==
    /\ finishing > 0
    /\ finishing' = finishing - 1
    /\ \E reply \in {"answer", "failure"} : Send(reply)
    /\ UNCHANGED <<config, wire, received_first_byte, header_received, awaiting_body,
                   request, buffer, timer, screening, handling, processed, handled>>

\* Faulty timeout: only a peer that has sent a whole header gets a reply.
TimeoutReply_HeaderOnly ==
    IF header_received THEN Append(written, "timeout") ELSE written

\* "Don't send data until receiving at least one byte".
TimeoutReply == IF received_first_byte THEN Append(written, "timeout") ELSE written

\* Faulty timeout: a silent peer's connection is not closed.
TimeoutCloses_IfAnswered == received_first_byte

TimeoutCloses == TRUE

\* _handle_timeout.
TimerFires ==
    /\ timer
    /\ timer' = FALSE
    /\ IF transport = "open"
         THEN /\ written' = TimeoutReply
              /\ transport' = IF TimeoutCloses THEN "closing" ELSE transport
         ELSE UNCHANGED <<transport, written>>
    /\ UNCHANGED <<config, wire, received_first_byte, header_received, awaiting_body,
                   request, buffer, tasks, processed, handled>>

\* Faulty connection_lost: a handler is taken as cancelled, running or not.
ConnectionLost_Cancels ==
    /\ transport # "lost"
    /\ transport' = "lost"
    /\ timer' = FALSE
    /\ handling' = handling - 1
    /\ UNCHANGED <<config, wire, received_first_byte, header_received, awaiting_body,
                   request, buffer, screening, finishing, history>>

\* Faulty connection_lost: the tasks are cancelled with the connection.
ConnectionLost_CancelsAll ==
    /\ transport # "lost"
    /\ transport' = "lost"
    /\ timer' = FALSE
    /\ screening' = 0 /\ handling' = 0
    /\ UNCHANGED <<config, wire, received_first_byte, header_received, awaiting_body,
                   request, buffer, finishing, history>>

\* connection_lost: the peer has gone, or close() is done.  Tasks run on.
ConnectionLost ==
    /\ transport # "lost"
    /\ transport' = "lost"
    /\ timer' = FALSE
    /\ UNCHANGED <<config, wire, received_first_byte, header_received, awaiting_body,
                   request, buffer, tasks, history>>

-----------------------------------------------------------------------------

Next ==
    \/ ReceivePartialHeader
    \/ ReceiveOversizedHeader
    \/ \E n \in Chunk : ReceiveHeader(n) \/ ReceiveBody(n)
    \/ \E allowed \in BOOLEAN : MiddlewareDone(allowed)
    \/ HandlerRuns
    \/ HandlerDone
    \/ TimerFires
    \/ ConnectionLost

\* The event loop runs its timers and tasks: the middleware chain does no
\* input or output, and every await of the handlers has a timeout.  A closed
\* transport reports the connection lost.  Nothing is asked of the peer.
Fairness ==
    /\ WF_vars(\E allowed \in BOOLEAN : MiddlewareDone(allowed))
    /\ WF_vars(HandlerRuns)
    /\ WF_vars(HandlerDone)
    /\ WF_vars(TimerFires)
    /\ WF_vars(transport = "closing" /\ ConnectionLost)

Spec == Init /\ [][Next]_vars

FairSpec == Spec /\ Fairness

-----------------------------------------------------------------------------
(* Properties *)

TypeOK ==
    /\ config \in [middleware : BOOLEAN, async : BOOLEAN]
    /\ wire \in [header : Headers, length : 0..MaxLength, excess : 0..MaxExcess]
    /\ transport \in {"open", "closing", "lost"}
    /\ received_first_byte \in BOOLEAN /\ header_received \in BOOLEAN
    /\ awaiting_body \in BOOLEAN /\ request \in BOOLEAN /\ timer \in BOOLEAN
    /\ buffer \in Nat /\ screening \in Nat /\ handling \in Nat /\ finishing \in Nat
    /\ processed \in Nat /\ handled \in Nat
    /\ written \in Seq(Replies)

\* A peer reads at most one response, whatever mix of early errors, late
\* answers of one or more tasks, denials and timeouts a connection sees.
AtMostOneReply == Len(written) <= 1

\* What the peer has been sent; Service knows nothing of several replies.
Reply ==
    IF written = <<>> THEN "none" ELSE IF Len(written) = 1 THEN written[1] ELSE "several"

Promise == INSTANCE Service WITH
    excess <- wire.excess, reply <- Reply, over <- transport # "open"

\* However the bytes are cut and whatever timer, task or loss comes first, a
\* connection is a Service: an answer means that the request was handled, a
\* denial, an error or a timeout that it was not and will not be, unless the
\* peer sent more than its request, and each byte more has it handled once
\* more at the worst.
ImplementsService == Promise!Spec

\* A request that was complete in time is not answered "Request timeout",
\* however long the middleware and the handler take over it.
NoTimeoutWhileProcessing == processed > 0 => written # <<"timeout">>

\* The server never hangs up without a word on a peer that has said one.
NeverHangsUpSilently == transport = "closing" /\ received_first_byte => written # <<>>

\* If the peer sends no byte beyond its request, the request is handled once
\* at most, however the bytes are cut into chunks.
ExactRequestHandledOnce == wire.excess = 0 => handled <= 1

\* Each byte in excess of the request has it handled once more at the worst:
\* however the bytes are cut, a chunk without one repeats nothing.
RepeatsNeedExcess == handled <= 1 + wire.excess

\* A request that was complete is never dropped, though its connection may be:
\* without a middleware chain every processing has its handling, done or under
\* way; with one, what is not being screened or handled was answered or had
\* nobody left to answer to.
RequestIsNotDropped ==
    /\ ~config.middleware => handled + handling = processed
    /\ processed > 0 /\ handled + handling + screening = 0 =>
         config.middleware /\ (written # <<>> \/ transport = "lost")

\* No connection hangs: as long as it is open, its timer or one of its tasks is
\* still to come, and each of these closes it or hands it to the next.
OpenIsAttended ==
    transport = "open" => timer \/ screening > 0 \/ handling > 0 \/ finishing > 0

\* server/protocol.py:5 "AWAITING_BODY: accumulate until content_length bytes
\* received": a connection carries one request, which is handled once.
HandledOnce == handled <= 1

\* Every connection ends, also when the peer sends nothing, stops half-way
\* through a header or a body, or never closes its side.
ConnectionEnds == <>(transport = "lost")
=============================================================================
