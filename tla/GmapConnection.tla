---------------------------- MODULE GmapConnection ----------------------------
(***************************************************************************)
(* One connection of the GMAP server: GeminiServerProtocol                 *)
(* (gmap/protocol.py), with the tasks it starts for the handler.  As in    *)
(* ServerConnection, everything runs in one event loop, an action is one   *)
(* callback or the end of a task, bytes are counted, and the transport is  *)
(* asyncio's: after close() it delivers no data and drops what is written, *)
(* and it calls connection_lost in the end.                                *)
(*                                                                         *)
(* There is no body: a request is a line, and nothing records that it has  *)
(* come.                                                                   *)
(***************************************************************************)
EXTENDS Integers, Sequences

CONSTANTS
    MaxExcess   \* bound on the bytes the peer sends after the request's end

ASSUME GmapConnectionAssumption == MaxExcess \in Nat

\* What the peer's line is: a request, a line parse_gemini_request refuses,
\* or more than MAX_GEMINI_REQUEST_SIZE bytes without a CRLF.
Lines == {"request", "bad", "oversized"}

Replies == {"answer", "failure", "bad request", "timeout"}

VARIABLES
    async,      \* is the handler a coroutine?
    wire,       \* what the peer has to send
    transport,  \* "open", "closing" (close() was called) or "lost" (None)
    received_first_byte,
    crlf,       \* is there a CRLF in the buffer?
    buffer,     \* number of bytes behind it
    timer,      \* the request timeout is armed
    handling,   \* number of handler tasks that have not begun yet
    finishing,  \* number of handler tasks that have, with no result sent yet
    written,    \* the replies written to an open transport
    handled     \* number of times the handler has handled the request

tasks == <<handling, finishing>>
vars == <<async, wire, transport, received_first_byte, crlf, buffer, timer, tasks,
          written, handled>>

Init ==
    /\ async \in BOOLEAN
    /\ wire \in [line : Lines, excess : 0..MaxExcess]
    /\ transport = "open"
    /\ received_first_byte = FALSE
    /\ crlf = FALSE /\ buffer = 0
    /\ timer = TRUE
    /\ handling = 0 /\ finishing = 0
    /\ written = <<>> /\ handled = 0

-----------------------------------------------------------------------------

\* Faulty _send_response: the connection is left open.
Send_NoClose(reply) ==
    /\ written' = IF transport = "open" THEN Append(written, reply) ELSE written
    /\ UNCHANGED transport

\* _send_response and _send_error: write and close, unless the connection is
\* gone; a closing transport drops what is written.
Send(reply) ==
    /\ written' = IF transport = "open" THEN Append(written, reply) ELSE written
    /\ transport' = IF transport = "open" THEN "closing" ELSE transport

\* _process_request: a coroutine becomes a task; a plain function answers at
\* once, by a response or an exception.
ProcessRequest ==
    IF async
      THEN /\ handling' = handling + 1
           /\ UNCHANGED <<transport, written, handled, finishing>>
      ELSE /\ handled' = handled + 1
           /\ \E reply \in {"answer", "failure"} : Send(reply)
           /\ UNCHANGED tasks

-----------------------------------------------------------------------------
(* data_received *)

\* No CRLF in the buffer yet, and not too many bytes.
ReceivePart ==
    /\ transport = "open" /\ ~crlf
    /\ received_first_byte' = TRUE
    /\ UNCHANGED <<async, wire, transport, crlf, buffer, timer, tasks, written, handled>>

\* No CRLF, and too many bytes.  The timer is left armed.
ReceiveTooMuch ==
    /\ transport = "open" /\ ~crlf
    /\ wire.line = "oversized"
    /\ received_first_byte' = TRUE
    /\ Send("bad request")
    /\ UNCHANGED <<async, wire, crlf, buffer, timer, tasks, handled>>

\* Faulty _cancel_timeout: the timer runs on while the handler works.
TimerAfterLine_NoCancel == timer

TimerAfterLine == FALSE

\* A chunk after which there is a CRLF in the buffer, with n bytes behind it.
\* The buffer is never emptied, so the line is parsed and handled once for
\* every such chunk until the transport is closed.
ReceiveLine(n) ==
    /\ transport = "open"
    /\ wire.line # "oversized"
    /\ crlf => n > buffer
    /\ crlf' = TRUE /\ buffer' = n
    /\ received_first_byte' = TRUE
    /\ timer' = TimerAfterLine
    /\ IF wire.line = "bad"
         THEN Send("bad request") /\ UNCHANGED <<tasks, handled>>
         ELSE ProcessRequest
    /\ UNCHANGED <<async, wire>>

-----------------------------------------------------------------------------
(* The ends of tasks, the timer and the end of the connection *)

\* The handler, which has no await, does its work ...
HandlerRuns ==
    /\ handling > 0
    /\ handling' = handling - 1
    /\ finishing' = finishing + 1
    /\ handled' = handled + 1
    /\ UNCHANGED <<async, wire, transport, received_first_byte, crlf, buffer, timer, written>>

\* ... and its result, or exception, is sent: _handle_result.
HandlerDone ==
    /\ finishing > 0
    /\ finishing' = finishing - 1
    /\ \E reply \in {"answer", "failure"} : Send(reply)
    /\ UNCHANGED <<async, wire, received_first_byte, crlf, buffer, timer, handling, handled>>

\* Faulty timeout: a silent peer's connection is not closed.
TimeoutCloses_IfAnswered == received_first_byte

TimeoutCloses == TRUE

\* _handle_timeout.
TimerFires ==
    /\ timer
    /\ timer' = FALSE
    /\ IF transport = "open"
         THEN /\ written' = IF received_first_byte
                              THEN Append(written, "timeout") ELSE written
              /\ transport' = IF TimeoutCloses THEN "closing" ELSE transport
         ELSE UNCHANGED <<transport, written>>
    /\ UNCHANGED <<async, wire, received_first_byte, crlf, buffer, tasks, handled>>

\* Faulty connection_lost: a handler is taken as cancelled, running or not.
ConnectionLost_Cancels ==
    /\ transport # "lost"
    /\ transport' = "lost"
    /\ timer' = FALSE
    /\ handling' = handling - 1
    /\ UNCHANGED <<async, wire, received_first_byte, crlf, buffer, finishing, written, handled>>

\* connection_lost: the peer has gone, or close() is done.  Tasks run on.
ConnectionLost ==
    /\ transport # "lost"
    /\ transport' = "lost"
    /\ timer' = FALSE
    /\ UNCHANGED <<async, wire, received_first_byte, crlf, buffer, tasks, written, handled>>

-----------------------------------------------------------------------------

Next ==
    \/ ReceivePart
    \/ ReceiveTooMuch
    \/ \E n \in 0 .. wire.excess : ReceiveLine(n)
    \/ HandlerRuns
    \/ HandlerDone
    \/ TimerFires
    \/ ConnectionLost

\* As in ServerConnection: nothing is asked of the peer.
Fairness ==
    /\ WF_vars(HandlerRuns)
    /\ WF_vars(HandlerDone)
    /\ WF_vars(TimerFires)
    /\ WF_vars(transport = "closing" /\ ConnectionLost)

Spec == Init /\ [][Next]_vars

FairSpec == Spec /\ Fairness

-----------------------------------------------------------------------------
(* Properties *)

TypeOK ==
    /\ async \in BOOLEAN
    /\ wire \in [line : Lines, excess : 0..MaxExcess]
    /\ transport \in {"open", "closing", "lost"}
    /\ received_first_byte \in BOOLEAN /\ timer \in BOOLEAN
    /\ crlf \in BOOLEAN /\ buffer \in Nat
    /\ handling \in Nat /\ finishing \in Nat /\ handled \in Nat
    /\ written \in Seq(Replies)

\* What the peer has been sent; Service knows nothing of several replies.
Reply ==
    IF written = <<>> THEN "none" ELSE IF Len(written) = 1 THEN written[1] ELSE "several"

Promise == INSTANCE Service WITH
    excess <- wire.excess, reply <- Reply, over <- transport # "open"

\* However the bytes are cut and whatever timer, task or loss comes first, a
\* connection is a Service: one fitting reply, none before the handler has
\* run, a request without trailing bytes is handled once at most and never
\* after its reply, and each such byte has it handled once more at the worst.
ImplementsService == Promise!Spec

\* A request whose line has come in time is not answered "Request timeout",
\* however long the handler takes, also when more bytes follow it.
NoTimeoutWhileProcessing == crlf => written # <<"timeout">>

\* No connection hangs: as long as it is open, its timer or one of its tasks is
\* still to come, and each of these closes it or hands it to the next.
OpenIsAttended == transport = "open" => timer \/ handling > 0 \/ finishing > 0

\* A request whose line has come is not lost: it has been handled or a task for
\* it exists, whatever then becomes of the connection.
LineIsNotLost == crlf /\ wire.line = "request" => handled > 0 \/ handling > 0

\* Each byte behind the request has it handled once more at the worst, however
\* the bytes are cut into chunks.
RepeatsNeedExcess == handled <= 1 + wire.excess

\* Every connection ends, also when the peer sends nothing, stops within the
\* line, or never closes its side.
ConnectionEnds == <>(transport = "lost")

\* A request whose line has come is handled in the end, also when the peer
\* hangs up right behind it or the timeout was about to fire.
CompleteRequestIsHandled ==
    crlf /\ wire.line = "request" ~> handled > 0
=============================================================================
