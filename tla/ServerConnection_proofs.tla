----------------------- MODULE ServerConnection_proofs -----------------------
(***************************************************************************)
(* Proofs about ServerConnection: one reply at most, no timeout for a      *)
(* complete request, no silent hanging up, no hanging open, no complete    *)
(* request dropped, one handling of a request and one more at the worst    *)
(* for each byte too many, and that a connection is a Service; for bodies  *)
(* and trailing bytes of any length, cut into chunks in any way.           *)
(***************************************************************************)
EXTENDS ServerConnection, TLAPS

\* Why the properties hold, in one inductive invariant: the transport is open
\* until the one reply is written; work is under way only for a request that
\* has been processed; and processing one disarms the timer.
ReplyInv ==
    /\ transport = "open" => written = <<>>
    /\ Len(written) <= 1
    /\ NeverHangsUpSilently

WorkInv ==
    /\ processed = 0 => screening = 0 /\ handling = 0 /\ finishing = 0 /\ handled = 0
    /\ processed > 0 => ~timer /\ header_received
    /\ header_received => received_first_byte
    /\ NoTimeoutWhileProcessing

\* Every handling, done or to come, is of one processing, and only bytes in
\* excess of the request have it processed again.
OnceInv ==
    /\ handled + handling + screening <= processed
    /\ awaiting_body => wire.header = "C" /\ header_received
    /\ processed > 0 /\ awaiting_body => buffer >= wire.length
    /\ wire.excess = 0 => processed <= 1
    /\ wire.excess = 0 /\ wire.header = "C" => buffer <= wire.length
    /\ ~header_received => processed = 0 /\ buffer = 0

ConnInv == TypeOK /\ ReplyInv /\ WorkInv /\ OnceInv

\* The first reply makes a sequence of one.
LEMMA FirstReply ==
    ASSUME NEW reply \in Replies
    PROVE  /\ Append(<<>>, reply) = <<reply>> /\ <<reply>> \in Seq(Replies)
           /\ Len(<<reply>>) = 1 /\ <<reply>> # <<>>
           /\ <<>> \in Seq(Replies) /\ Len(<<>>) = 0
           /\ <<>> # <<"timeout">>
           /\ reply # "timeout" => <<reply>> # <<"timeout">>
<1>1. Append(<<>>, reply) = <<reply>> /\ <<reply>> \in Seq(Replies)
  OBVIOUS
<1>2. Len(<<reply>>) = 1 /\ Len(<<>>) = 0 /\ <<>> \in Seq(Replies)
  OBVIOUS
<1>3. <<reply>>[1] = reply /\ <<"timeout">>[1] = "timeout" /\ Len(<<"timeout">>) = 1
  OBVIOUS
<1> QED
  BY <1>1, <1>2, <1>3

\* No reply yet.
LEMMA NoReply == <<>> \in Seq(Replies) /\ Len(<<>>) = 0 /\ <<>> # <<"timeout">>
<1>1. "timeout" \in Replies
  BY DEF Replies
<1> QED
  BY <1>1, FirstReply

\* What _send_response does to the invariants about the reply.
LEMMA SendReply ==
    ASSUME TypeOK, ReplyInv, NEW reply \in Replies, Send(reply)
    PROVE  /\ transport' \in {"closing", "lost"}
           /\ written' \in Seq(Replies) /\ Len(written') <= 1
           /\ transport = "open" => written' # <<>>
           /\ transport = "open" /\ reply # "timeout" => written' # <<"timeout">>
           /\ transport # "open" => written' = written /\ transport' = transport
<1>1. CASE transport = "open"
  <2>1. transport' = "closing" /\ written' = Append(<<>>, reply)
    BY <1>1 DEF Send, ReplyInv
  <2> QED
    BY <1>1, <2>1, FirstReply
<1>2. CASE transport # "open"
  <2>1. written' = written /\ transport' = transport
    BY <1>2 DEF Send
  <2>2. written \in Seq(Replies) /\ Len(written) <= 1
    BY DEF TypeOK, ReplyInv
  <2> QED
    BY <1>2, <2>1, <2>2 DEF TypeOK
<1> QED
  BY <1>1, <1>2

\* A request is routed when it has been processed: the handler starts, or has
\* answered already.
LEMMA Route ==
    ASSUME TypeOK, ReplyInv, RouteRequest
    PROVE  /\ handling' \in Nat /\ handled' \in Nat
           /\ handled' + handling' = handled + handling + 1
           /\ written' \in Seq(Replies) /\ Len(written') <= 1
           /\ transport' \in {"open", "closing", "lost"}
           /\ transport' = "open" => transport = "open" /\ written' = <<>>
           /\ transport = "open" => written' # <<"timeout">>
           /\ transport # "open" => written' = written /\ transport' = transport
           /\ transport = "open" /\ transport' # "open" => written' # <<>>
<1>1. CASE config.async
  <2>1. handling' = handling + 1 /\ UNCHANGED <<handled, written, transport>>
    BY <1>1 DEF RouteRequest
  <2>2. handling \in Nat /\ handled \in Nat /\ transport \in {"open", "closing", "lost"}
    BY DEF TypeOK
  <2>3. /\ written \in Seq(Replies) /\ Len(written) <= 1
        /\ transport = "open" => written = <<>> /\ written # <<"timeout">>
    BY NoReply DEF TypeOK, ReplyInv
  <2> QED
    BY <2>1, <2>2, <2>3
<1>2. CASE ~config.async
  <2>1. PICK reply \in {"answer", "failure"} : Send(reply)
    BY <1>2 DEF RouteRequest
  <2>2. handling' = handling /\ handled' = handled + 1
    BY <1>2 DEF RouteRequest
  <2>3. reply \in Replies
    BY DEF Replies
  <2>4. /\ transport' \in {"closing", "lost"}
        /\ written' \in Seq(Replies) /\ Len(written') <= 1
        /\ transport = "open" => written' # <<>> /\ written' # <<"timeout">>
        /\ transport # "open" => written' = written /\ transport' = transport
    BY <2>1, <2>3, SendReply
  <2>5. handling \in Nat /\ handled \in Nat
    BY DEF TypeOK
  <2> QED
    BY <2>1, <2>2, <2>4, <2>5
<1> QED
  BY <1>1, <1>2

\* What processing a request does, on an open transport.
LEMMA Process ==
    ASSUME TypeOK, ReplyInv, ProcessRequest, transport = "open"
    PROVE  /\ processed' = processed + 1 /\ finishing' = finishing
           /\ handling' \in Nat /\ handled' \in Nat /\ screening' \in Nat
           /\ handled' + handling' + screening' = handled + handling + screening + 1
           /\ written' \in Seq(Replies) /\ Len(written') <= 1
           /\ transport' \in {"open", "closing", "lost"}
           /\ transport' = "open" => written' = <<>>
           /\ written' # <<"timeout">>
           /\ transport' # "open" => written' # <<>>
<1>1. CASE config.middleware
  BY <1>1, NoReply DEF ProcessRequest, TypeOK, ReplyInv
<1>2. CASE ~config.middleware
  BY <1>2, Route DEF ProcessRequest, TypeOK
<1> QED
  BY <1>1, <1>2

\* A chunk that completes a request keeps the invariants, be it the header's
\* chunk or a later one.
LEMMA CompletingChunk ==
    ASSUME TypeOK, ReplyInv, WorkInv, OnceInv,
           ProcessRequest, transport = "open", timer' = FALSE,
           UNCHANGED <<config, wire>>,
           received_first_byte' = TRUE, header_received' = TRUE, request' = TRUE,
           buffer' \in Nat,
           awaiting_body' \in BOOLEAN,
           awaiting_body' => wire.header = "C" /\ buffer' >= wire.length,
           wire.excess = 0 => processed = 0,
           wire.excess = 0 /\ wire.header = "C" => buffer' <= wire.length
    PROVE  TypeOK' /\ ReplyInv' /\ WorkInv' /\ OnceInv'
<1>1. /\ processed' = processed + 1 /\ finishing' = finishing
      /\ handling' \in Nat /\ handled' \in Nat /\ screening' \in Nat
      /\ handled' + handling' + screening' = handled + handling + screening + 1
      /\ written' \in Seq(Replies) /\ Len(written') <= 1
      /\ transport' \in {"open", "closing", "lost"}
      /\ transport' = "open" => written' = <<>>
      /\ written' # <<"timeout">>
      /\ transport' # "open" => written' # <<>>
  BY Process
<1>2. /\ processed \in Nat /\ handled \in Nat /\ handling \in Nat /\ screening \in Nat
      /\ finishing \in Nat
  BY DEF TypeOK
<1>3. TypeOK'
  <2>1. /\ config' \in [middleware : BOOLEAN, async : BOOLEAN]
        /\ wire' \in [header : Headers, length : 0..MaxLength, excess : 0..MaxExcess]
    BY DEF TypeOK
  <2>2. processed' \in Nat /\ finishing' \in Nat
    BY <1>1, <1>2
  <2> QED
    BY <1>1, <2>1, <2>2 DEF TypeOK
<1>4. ReplyInv'
  BY <1>1 DEF ReplyInv, NeverHangsUpSilently
<1>5. WorkInv'
  BY <1>1, <1>2 DEF WorkInv, NoTimeoutWhileProcessing
<1>6. OnceInv'
  <2>1. handled + handling + screening <= processed
    BY DEF OnceInv
  <2>2. handled' + handling' + screening' <= processed'
    <3>1. /\ processed' = processed + 1
          /\ handled' + handling' + screening' = handled + handling + screening + 1
          /\ handling' \in Nat /\ handled' \in Nat /\ screening' \in Nat
      BY <1>1
    <3>2. handled + handling + screening + 1 <= processed + 1
      BY <1>2, <2>1
    <3> QED
      BY <3>1, <3>2
  <2>3. wire'.excess = 0 => processed' <= 1
    BY <1>1, <1>2
  <2>4. /\ awaiting_body' => wire'.header = "C" /\ header_received'
        /\ processed' > 0 /\ awaiting_body' => buffer' >= wire'.length
        /\ wire'.excess = 0 /\ wire'.header = "C" => buffer' <= wire'.length
    OBVIOUS
  <2>5. ~header_received' => processed' = 0 /\ buffer' = 0
    OBVIOUS
  <2> QED
    BY <2>2, <2>3, <2>4, <2>5 DEF OnceInv
<1> QED
  BY <1>3, <1>4, <1>5, <1>6

-----------------------------------------------------------------------------

\* Each callback preserves the invariant.
LEMMA ConnStep ==
    ASSUME ConnInv, [Next]_vars
    PROVE  ConnInv'
<1> USE ServerConnectionAssumption DEF ConnInv
<1> USE DEF NeverHangsUpSilently, NoTimeoutWhileProcessing
<1>1. CASE ReceivePartialHeader
  BY <1>1 DEF ReceivePartialHeader, TypeOK, ReplyInv, WorkInv, OnceInv, tasks, history
<1>2. CASE ReceiveOversizedHeader
  <2>1. /\ transport' \in {"closing", "lost"}
        /\ written' \in Seq(Replies) /\ Len(written') <= 1
        /\ written' # <<>> /\ written' # <<"timeout">>
    BY <1>2, SendReply DEF ReceiveOversizedHeader, Replies
  <2>2. TypeOK'
    BY <1>2, <2>1 DEF ReceiveOversizedHeader, TypeOK, Replies, tasks
  <2> QED
    BY <1>2, <2>1, <2>2
       DEF ReceiveOversizedHeader, ReplyInv, WorkInv, OnceInv, tasks
<1>3. ASSUME NEW n \in Chunk, ReceiveHeader(n)
      PROVE  ConnInv'
  <2>1. n \in Nat /\ wire.length \in Nat /\ buffer = 0 /\ processed = 0
    <3>1. wire.length \in Nat /\ wire.excess \in Nat
      BY DEF TypeOK
    <3>2. buffer = 0 /\ processed = 0
      BY <1>3 DEF ReceiveHeader, OnceInv
    <3> QED
      BY <3>1, <3>2 DEF Chunk
  <2>2. CASE wire.header = "bad"
    <3>1. /\ transport' \in {"closing", "lost"}
          /\ written' \in Seq(Replies) /\ Len(written') <= 1
          /\ written' # <<>> /\ written' # <<"timeout">>
      BY <1>3, <2>2, SendReply DEF ReceiveHeader, Replies
    <3>2. TypeOK'
      BY <1>3, <2>1, <2>2, <3>1 DEF ReceiveHeader, TypeOK, Replies, tasks
    <3> QED
      BY <1>3, <2>1, <2>2, <3>1, <3>2
         DEF ReceiveHeader, ReplyInv, WorkInv, OnceInv, tasks
  <2>3. CASE wire.header # "bad" /\ (CompleteAtHeader \/ BodyComplete(n))
    <3>1. ProcessRequest /\ transport = "open" /\ timer' = FALSE
      BY <1>3, <2>3 DEF ReceiveHeader, TimerAfterHeader
    <3>2. /\ UNCHANGED <<config, wire>> /\ buffer' = n
          /\ received_first_byte' = TRUE /\ header_received' = TRUE /\ request' = TRUE
          /\ awaiting_body' = ~CompleteAtHeader
      BY <1>3, <2>3 DEF ReceiveHeader
    <3>3. wire.header \in {"C", "B"}
      BY <1>3, <2>3 DEF ReceiveHeader, TypeOK, Headers
    <3>4. /\ awaiting_body' \in BOOLEAN
          /\ awaiting_body' => wire.header = "C" /\ buffer' >= wire.length
      <4>1. awaiting_body' \in BOOLEAN
        BY <3>2 DEF CompleteAtHeader
      <4>2. ASSUME ~CompleteAtHeader
            PROVE  wire.header = "C" /\ n >= wire.length
        BY <2>1, <2>3, <3>3, <4>2 DEF CompleteAtHeader, BodyComplete
      <4> QED
        BY <3>2, <4>1, <4>2
    <3>5. wire.excess = 0 /\ wire.header = "C" => buffer' <= wire.length
      <4>1. ASSUME wire.excess = 0, wire.header = "C"
            PROVE  n \in 0 .. wire.length
        BY <2>1, <4>1 DEF Chunk
      <4> QED
        BY <2>1, <3>2, <4>1
    <3> HIDE DEF ConnInv
    <3>6. TypeOK /\ ReplyInv /\ WorkInv /\ OnceInv /\ buffer' \in Nat
      BY <2>1, <3>2 DEF ConnInv
    <3> QED
      BY <2>1, <3>1, <3>2, <3>4, <3>5, <3>6, CompletingChunk DEF ConnInv
  <2>4. CASE wire.header # "bad" /\ ~CompleteAtHeader /\ ~BodyComplete(n)
    <3>1. UNCHANGED <<transport, tasks, history>> /\ timer' = timer
      BY <1>3, <2>4 DEF ReceiveHeader, TimerAfterHeader
    <3> QED
      BY <1>3, <2>1, <2>4, <3>1
         DEF ReceiveHeader, TypeOK, ReplyInv, WorkInv, OnceInv, tasks, history,
             CompleteAtHeader, BodyComplete, Chunk, Headers
  <2> QED
    BY <2>2, <2>3, <2>4
<1>4. ASSUME NEW n \in Chunk, ReceiveBody(n)
      PROVE  ConnInv'
  <2>1. /\ n \in Nat /\ n > 0 /\ wire.length \in Nat /\ buffer \in Nat
        /\ buffer' = buffer + n /\ transport = "open" /\ header_received
    BY <1>4 DEF Chunk, ReceiveBody, TypeOK
  <2>2. wire.excess = 0 /\ wire.header = "C" => buffer' <= wire.length
    BY <2>1 DEF Chunk, TypeOK
  <2>3. CASE awaiting_body /\ request /\ BodyComplete(n)
    <3>1. ProcessRequest /\ timer' = FALSE
      BY <1>4, <2>3 DEF ReceiveBody
    <3>2. UNCHANGED <<config, wire, received_first_byte, header_received, awaiting_body,
                      request>>
      BY <1>4 DEF ReceiveBody
    <3>3. /\ processed \in Nat /\ wire.header = "C" /\ received_first_byte = TRUE
          /\ header_received = TRUE /\ request = TRUE /\ awaiting_body = TRUE
      BY <1>4, <2>1, <2>3 DEF TypeOK, WorkInv, OnceInv
    <3>4. buffer' >= wire.length
      BY <2>1, <2>3 DEF BodyComplete
    <3>5. wire.excess = 0 => processed = 0
      BY <2>1, <2>2, <3>3 DEF OnceInv
    <3> HIDE DEF ConnInv
    <3>6. TypeOK /\ ReplyInv /\ WorkInv /\ OnceInv /\ buffer' \in Nat
      BY <2>1 DEF ConnInv
    <3> QED
      BY <2>1, <2>2, <3>1, <3>2, <3>3, <3>4, <3>5, <3>6, CompletingChunk DEF ConnInv
  <2>4. CASE ~(awaiting_body /\ request /\ BodyComplete(n))
    <3>1. UNCHANGED <<transport, timer, tasks, history>>
      BY <1>4, <2>4 DEF ReceiveBody
    <3> QED
      BY <1>4, <2>1, <2>2, <3>1
         DEF ReceiveBody, TypeOK, ReplyInv, WorkInv, OnceInv, tasks, history
  <2> QED
    BY <2>3, <2>4
<1>5. ASSUME NEW allowed \in BOOLEAN, MiddlewareDone(allowed)
      PROVE  ConnInv'
  <2>1. screening > 0 /\ screening \in Nat /\ screening' = screening - 1 /\ processed > 0
    BY <1>5 DEF MiddlewareDone, TypeOK, WorkInv
  <2>2. CASE allowed
    <3>1. RouteRequest
      BY <1>5, <2>2 DEF MiddlewareDone
    <3>2. TypeOK'
      BY <1>5, <2>1, <3>1, Route DEF MiddlewareDone, TypeOK
    <3>3. ReplyInv' /\ WorkInv'
      BY <1>5, <2>1, <3>1, Route DEF MiddlewareDone, ReplyInv, WorkInv, TypeOK
    <3>4. OnceInv'
      BY <1>5, <2>1, <3>1, Route DEF MiddlewareDone, OnceInv, TypeOK, WorkInv
    <3> QED
      BY <3>2, <3>3, <3>4
  <2>3. CASE ~allowed
    <3>1. PICK reply \in {"denied", "failure"} : Send(reply)
      BY <1>5, <2>3 DEF MiddlewareDone
    <3>2. UNCHANGED <<handling, handled>>
      BY <1>5, <2>3 DEF MiddlewareDone
    <3>3. reply \in Replies
      BY DEF Replies
    <3>4. /\ transport' \in {"closing", "lost"}
          /\ written' \in Seq(Replies) /\ Len(written') <= 1
          /\ transport = "open" => written' # <<>> /\ written' # <<"timeout">>
          /\ transport # "open" => written' = written /\ transport' = transport
      BY <3>1, <3>3, SendReply
    <3>5. TypeOK'
      BY <1>5, <2>1, <3>2, <3>4 DEF MiddlewareDone, TypeOK
    <3>6. ReplyInv' /\ WorkInv'
      BY <1>5, <2>1, <3>2, <3>4 DEF MiddlewareDone, ReplyInv, WorkInv, TypeOK
    <3>7. OnceInv'
      BY <1>5, <2>1, <3>2 DEF MiddlewareDone, OnceInv, TypeOK, WorkInv
    <3> QED
      BY <3>5, <3>6, <3>7
  <2> QED
    BY <2>2, <2>3
<1>6. CASE HandlerRuns
  BY <1>6 DEF HandlerRuns, TypeOK, ReplyInv, WorkInv, OnceInv, state
<1>7. CASE HandlerDone
  <2>1. finishing > 0 /\ finishing \in Nat /\ finishing' = finishing - 1 /\ processed > 0
    BY <1>7 DEF HandlerDone, TypeOK, WorkInv
  <2>2. PICK reply \in {"answer", "failure"} : Send(reply)
    BY <1>7 DEF HandlerDone
  <2>3. reply \in Replies
    BY DEF Replies
  <2>4. /\ transport' \in {"closing", "lost"}
        /\ written' \in Seq(Replies) /\ Len(written') <= 1
        /\ transport = "open" => written' # <<>> /\ written' # <<"timeout">>
        /\ transport # "open" => written' = written /\ transport' = transport
    BY <2>2, <2>3, SendReply
  <2>5. TypeOK'
    BY <1>7, <2>1, <2>4 DEF HandlerDone, TypeOK
  <2>6. ReplyInv' /\ WorkInv' /\ OnceInv'
    BY <1>7, <2>1, <2>4 DEF HandlerDone, ReplyInv, WorkInv, OnceInv, TypeOK
  <2> QED
    BY <2>5, <2>6
<1>8. CASE TimerFires
  <2>1. processed = 0
    BY <1>8 DEF TimerFires, WorkInv, TypeOK
  <2>2. CASE transport = "open"
    <3>1. /\ transport' = "closing" /\ written = <<>>
          /\ written' = IF received_first_byte THEN Append(<<>>, "timeout") ELSE <<>>
      BY <1>8, <2>2 DEF TimerFires, TimeoutReply, TimeoutCloses, ReplyInv
    <3>2. /\ written' \in Seq(Replies) /\ Len(written') <= 1
          /\ written' # <<>> <=> received_first_byte
      <4>1. "timeout" \in Replies
        BY DEF Replies
      <4> QED
        BY <3>1, <4>1, FirstReply, NoReply DEF TypeOK
    <3> QED
      BY <1>8, <2>1, <3>1, <3>2 DEF TimerFires, TypeOK, ReplyInv, WorkInv, OnceInv, tasks
  <2>3. CASE transport # "open"
    BY <1>8, <2>1, <2>3 DEF TimerFires, TypeOK, ReplyInv, WorkInv, OnceInv, tasks
  <2> QED
    BY <2>2, <2>3
<1>9. CASE ConnectionLost
  BY <1>9 DEF ConnectionLost, TypeOK, ReplyInv, WorkInv, OnceInv, tasks, history
<1>10. CASE UNCHANGED vars
  BY <1>10 DEF vars, state, tasks, history, TypeOK, ReplyInv, WorkInv, OnceInv
<1> QED
  BY <1>1, <1>2, <1>3, <1>4, <1>5, <1>6, <1>7, <1>8, <1>9, <1>10 DEF Next

\* The invariant holds of every connection.
LEMMA ConnInvariant == Spec => []ConnInv
<1>1. Init => ConnInv
  <2>1. ASSUME Init
        PROVE  TypeOK
    BY <2>1, NoReply DEF Init, TypeOK
  <2>2. ASSUME Init
        PROVE  ReplyInv /\ WorkInv /\ OnceInv
    <3>1. wire.length \in Nat
      BY <2>2, ServerConnectionAssumption DEF Init
    <3> QED
      BY <2>2, <3>1, NoReply
         DEF Init, ReplyInv, WorkInv, OnceInv, NeverHangsUpSilently,
             NoTimeoutWhileProcessing
  <2> QED
    BY <2>1, <2>2 DEF ConnInv
<1>2. ConnInv /\ [Next]_vars => ConnInv'
  BY ConnStep
<1> QED
  BY <1>1, <1>2, PTL DEF Spec

\* The type invariant of ServerConnection: no count of tasks falls below zero
\* and only known replies are written.
THEOREM TypeCorrect == Spec => []TypeOK
<1>1. ConnInv => TypeOK
  BY DEF ConnInv
<1> QED
  BY <1>1, ConnInvariant, PTL

\* A peer reads at most one response.
THEOREM OneReply == Spec => []AtMostOneReply
<1>1. ConnInv => AtMostOneReply
  BY DEF ConnInv, ReplyInv, AtMostOneReply
<1> QED
  BY <1>1, ConnInvariant, PTL

\* A peer that has spoken gets a reply before the server hangs up.
THEOREM NoSilentHangUp == Spec => []NeverHangsUpSilently
<1>1. ConnInv => NeverHangsUpSilently
  BY DEF ConnInv, ReplyInv
<1> QED
  BY <1>1, ConnInvariant, PTL

\* The reply to a request that was complete in time is not the timeout's.
THEOREM CompleteRequestHasNoTimeout == Spec => []NoTimeoutWhileProcessing
<1>1. ConnInv => NoTimeoutWhileProcessing
  BY DEF ConnInv, WorkInv
<1> QED
  BY <1>1, ConnInvariant, PTL

\* A peer that sends its request and no more has it handled once at most.
THEOREM HandledOnceWithoutExcess == Spec => []ExactRequestHandledOnce
<1>1. ConnInv => ExactRequestHandledOnce
  BY DEF ConnInv, OnceInv, TypeOK, ExactRequestHandledOnce
<1> QED
  BY <1>1, ConnInvariant, PTL
-----------------------------------------------------------------------------
(* No connection hangs, no request is dropped, repeats cost bytes *)

\* A processing is accounted for until it has ended, an open connection has
\* something to come, and each processing after the first has had a byte of its
\* own.
CarriedInv ==
    /\ OpenIsAttended
    /\ ~config.middleware => handled + handling = processed /\ screening = 0
    /\ processed > 0 /\ handled + handling + screening = 0 =>
         config.middleware /\ transport # "open"
    /\ processed > 1 => awaiting_body
    /\ awaiting_body /\ processed > 0 => processed <= 1 + buffer - wire.length
    /\ wire.header = "C" => buffer <= wire.length + wire.excess

\* A processing has its task, or its handling and its reply.
LEMMA ProcessCarries ==
    ASSUME TypeOK, ReplyInv, ProcessRequest, transport = "open"
    PROVE  /\ processed' = processed + 1
           /\ handled' \in Nat /\ handling' \in Nat /\ screening' \in Nat
           /\ handled' + handling' + screening' = handled + handling + screening + 1
           /\ ~config.middleware =>
                screening' = screening /\ handled' + handling' = handled + handling + 1
           /\ transport' = "open" => screening' > 0 \/ handling' > 0
<1>1. /\ screening \in Nat /\ handling \in Nat /\ handled \in Nat
  BY DEF TypeOK
<1>2. CASE config.middleware
  BY <1>1, <1>2, Process DEF ProcessRequest
<1>3. CASE ~config.middleware
  <2>1. RouteRequest /\ screening' = screening
    BY <1>3 DEF ProcessRequest
  <2>2. transport' = "open" => handling' > 0
    <3>1. CASE config.async
      BY <1>1, <2>1, <3>1 DEF RouteRequest
    <3>2. CASE ~config.async
      BY <2>1, <3>2 DEF RouteRequest, Send
    <3> QED
      BY <3>1, <3>2
  <2>3. handled' + handling' = handled + handling + 1
    BY <2>1, Route
  <2> QED
    BY <2>1, <2>2, <2>3, Process
<1> QED
  BY <1>2, <1>3

\* A routed request has its task, or its handling and its reply.
LEMMA RouteCarries ==
    ASSUME TypeOK, ReplyInv, RouteRequest
    PROVE  /\ handled' \in Nat /\ handling' \in Nat
           /\ handled' + handling' = handled + handling + 1
           /\ transport' = "open" => handling' > 0
<1>1. /\ handling \in Nat /\ handled \in Nat
  BY DEF TypeOK
<1>2. CASE config.async
  BY <1>1, <1>2, Route DEF RouteRequest
<1>3. CASE ~config.async
  BY <1>3, Route DEF RouteRequest, Send
<1> QED
  BY <1>2, <1>3

\* What is sent leaves no connection open.
LEMMA SendCloses ==
    ASSUME NEW reply, Send(reply)
    PROVE  transport' # "open"
BY DEF Send

\* A chunk brings no more than the peer has to send.
LEMMA ChunkBound ==
    ASSUME TypeOK, NEW n \in Chunk
    PROVE  n \in Nat /\ (wire.header = "C" => buffer + n <= wire.length + wire.excess)
<1>1. wire.length \in Nat /\ wire.excess \in Nat /\ buffer \in Nat
  BY ServerConnectionAssumption DEF TypeOK
<1>2. CASE wire.header = "C"
  BY <1>1, <1>2 DEF Chunk
<1>3. CASE wire.header # "C"
  BY <1>1, <1>3 DEF Chunk
<1> QED
  BY <1>2, <1>3

\* Each callback preserves it.
LEMMA CarriedStep ==
    ASSUME ConnInv, CarriedInv, [Next]_vars
    PROVE  CarriedInv'
<1> USE DEF OpenIsAttended
<1>1. /\ processed \in Nat /\ handled \in Nat /\ handling \in Nat /\ screening \in Nat
      /\ finishing \in Nat /\ buffer \in Nat
      /\ wire.length \in Nat /\ wire.excess \in Nat
  BY ServerConnectionAssumption DEF ConnInv, TypeOK
<1>2. TypeOK /\ ReplyInv
  BY DEF ConnInv
<1>3. CASE ReceivePartialHeader
  BY <1>3 DEF ReceivePartialHeader, CarriedInv, tasks, history
<1>4. CASE ReceiveOversizedHeader
  <2>1. transport' # "open" /\ transport = "open"
    BY <1>4, SendCloses DEF ReceiveOversizedHeader
  <2> QED
    BY <1>4, <2>1 DEF ReceiveOversizedHeader, CarriedInv, tasks
<1>5. ASSUME NEW n \in Chunk, ReceiveHeader(n)
      PROVE  CarriedInv'
  <2>1. /\ n \in Nat /\ processed = 0 /\ buffer = 0 /\ buffer' = n /\ transport = "open"
        /\ UNCHANGED <<config, wire>>
        /\ wire.header = "C" => n <= wire.length + wire.excess
    <3>1. /\ processed = 0 /\ buffer = 0 /\ buffer' = n /\ transport = "open"
          /\ UNCHANGED <<config, wire>>
      BY <1>5 DEF ReceiveHeader, ConnInv, OnceInv
    <3>2. n \in Nat /\ (wire.header = "C" => buffer + n <= wire.length + wire.excess)
      BY <1>2, ChunkBound
    <3> QED
      BY <3>1, <3>2
  <2>2. /\ handled = 0 /\ handling = 0 /\ screening = 0 /\ finishing = 0
    BY <2>1 DEF ConnInv, WorkInv
  <2>3. CASE wire.header = "bad"
    <3>1. transport' # "open"
      BY <1>5, <2>3, SendCloses DEF ReceiveHeader
    <3>2. UNCHANGED <<awaiting_body, tasks, processed, handled>>
      BY <1>5, <2>3 DEF ReceiveHeader
    <3> QED
      BY <2>1, <2>2, <2>3, <3>1, <3>2 DEF CarriedInv, tasks
  <2>4. CASE wire.header # "bad" /\ (CompleteAtHeader \/ BodyComplete(n))
    <3>1. ProcessRequest /\ awaiting_body' = ~CompleteAtHeader
      BY <1>5, <2>4 DEF ReceiveHeader
    <3>2. ASSUME awaiting_body'
          PROVE  n >= wire.length
      <4>1. BodyComplete(n)
        BY <2>4, <3>1, <3>2
      <4> QED
        BY <1>1, <2>1, <4>1 DEF BodyComplete
    <3>3. /\ processed' = 1
          /\ handled' \in Nat /\ handling' \in Nat /\ screening' \in Nat
          /\ handled' + handling' + screening' = 1
          /\ ~config.middleware => screening' = 0 /\ handled' + handling' = 1
          /\ transport' = "open" => screening' > 0 \/ handling' > 0
      BY <1>2, <2>1, <2>2, <3>1, ProcessCarries
    <3>4. /\ OpenIsAttended' /\ (~config'.middleware => handled' + handling' = processed')
          /\ ~config'.middleware => screening' = 0
          /\ wire'.header = "C" => buffer' <= wire'.length + wire'.excess
      BY <2>1, <3>3
    <3>5. awaiting_body' => processed' <= 1 + buffer' - wire'.length
      BY <1>1, <2>1, <3>2, <3>3
    <3>6. ~(processed' > 1) /\ ~(handled' + handling' + screening' = 0)
      <4>1. processed' = 1 /\ handled' + handling' + screening' = 1
        BY <3>3, Zenon
      <4> QED
        BY <4>1
    <3> HIDE DEF OpenIsAttended
    <3> QED
      BY <3>4, <3>5, <3>6 DEF CarriedInv
  <2>5. CASE wire.header # "bad" /\ ~(CompleteAtHeader \/ BodyComplete(n))
    <3>1. UNCHANGED <<transport, tasks, history>> /\ timer' = timer
      BY <1>5, <2>5 DEF ReceiveHeader, TimerAfterHeader
    <3> QED
      BY <2>1, <2>2, <3>1 DEF CarriedInv, tasks, history
  <2> QED
    BY <2>3, <2>4, <2>5
<1>6. ASSUME NEW n \in Chunk, ReceiveBody(n)
      PROVE  CarriedInv'
  <2>1. /\ n \in Nat /\ n > 0 /\ buffer' = buffer + n /\ transport = "open"
        /\ UNCHANGED <<config, wire, awaiting_body>>
        /\ wire.header = "C" => buffer' <= wire.length + wire.excess
    BY <1>1, <1>6 DEF ReceiveBody, Chunk
  <2>2. CASE awaiting_body /\ request /\ BodyComplete(n)
    <3>1. ProcessRequest
      BY <1>6, <2>2 DEF ReceiveBody
    <3>2. /\ processed' = processed + 1
          /\ handled' \in Nat /\ handling' \in Nat /\ screening' \in Nat
          /\ handled' + handling' + screening' = handled + handling + screening + 1
          /\ ~config.middleware =>
               screening' = screening /\ handled' + handling' = handled + handling + 1
          /\ transport' = "open" => screening' > 0 \/ handling' > 0
      BY <1>2, <2>1, <3>1, ProcessCarries
    <3>3. processed' <= 1 + buffer' - wire.length
      <4>1. CASE processed = 0
        BY <1>1, <2>1, <2>2, <3>2, <4>1 DEF BodyComplete
      <4>2. CASE processed > 0
        <5>1. processed <= 1 + buffer - wire.length
          BY <2>2, <4>2 DEF CarriedInv
        <5> QED
          BY <1>1, <2>1, <3>2, <5>1
      <4> QED
        BY <1>1, <4>1, <4>2
    <3> QED
      <4>1. OpenIsAttended'
        BY <3>2, Zenon
      <4>2. ~config'.middleware => handled' + handling' = processed' /\ screening' = 0
        BY <1>1, <2>1, <3>2 DEF CarriedInv
      <4>3. handled' + handling' + screening' > 0
        <5>1. handled' + handling' + screening' = handled + handling + screening + 1
          BY <3>2, Zenon
        <5> QED
          BY <1>1, <5>1
      <4> QED
        BY <2>1, <2>2, <3>3, <4>1, <4>2, <4>3 DEF CarriedInv
  <2>3. CASE ~(awaiting_body /\ request /\ BodyComplete(n))
    <3>1. UNCHANGED <<transport, timer, tasks, history>>
      BY <1>6, <2>3 DEF ReceiveBody
    <3> QED
      BY <1>1, <2>1, <3>1 DEF CarriedInv, tasks, history
  <2> QED
    BY <2>2, <2>3
<1>7. ASSUME NEW allowed \in BOOLEAN, MiddlewareDone(allowed)
      PROVE  CarriedInv'
  <2>1. /\ screening > 0 /\ screening' = screening - 1
        /\ UNCHANGED <<config, wire, awaiting_body, buffer, timer, finishing, processed>>
    BY <1>7 DEF MiddlewareDone
  <2>2. config.middleware
    BY <2>1 DEF CarriedInv
  <2>3. CASE allowed
    <3>1. RouteRequest
      BY <1>7, <2>3 DEF MiddlewareDone
    <3>2. /\ handled' \in Nat /\ handling' \in Nat
          /\ handled' + handling' = handled + handling + 1
          /\ transport' = "open" => handling' > 0
      BY <1>2, <3>1, RouteCarries
    <3> QED
      <4>1. OpenIsAttended'
        BY <3>2, Zenon
      <4>2. handled' + handling' + screening' > 0
        <5>1. /\ screening > 0 /\ screening' = screening - 1
              /\ handled' + handling' = handled + handling + 1
          BY <2>1, <3>2, Zenon
        <5> QED
          BY <1>1, <5>1
      <4> QED
        BY <2>1, <2>2, <4>1, <4>2 DEF CarriedInv
  <2>4. CASE ~allowed
    <3>1. /\ transport' # "open" /\ UNCHANGED <<handling, handled>>
      BY <1>7, <2>4, SendCloses DEF MiddlewareDone
    <3> QED
      BY <1>1, <2>1, <2>2, <3>1 DEF CarriedInv
  <2> QED
    BY <2>3, <2>4
<1>8. CASE HandlerRuns
  BY <1>1, <1>8 DEF HandlerRuns, CarriedInv, state
<1>9. CASE HandlerDone
  <2>1. /\ transport' # "open"
        /\ UNCHANGED <<config, wire, awaiting_body, buffer, screening, handling,
                       processed, handled>>
    BY <1>9, SendCloses DEF HandlerDone
  <2> QED
    BY <1>1, <2>1 DEF CarriedInv
<1>10. CASE TimerFires
  <2>1. transport' # "open"
    BY <1>10 DEF TimerFires, TimeoutCloses
  <2>2. processed = 0
    BY <1>1, <1>10 DEF TimerFires, ConnInv, WorkInv
  <2> QED
    BY <1>10, <2>1, <2>2 DEF TimerFires, CarriedInv, tasks
<1>11. CASE ConnectionLost
  BY <1>11 DEF ConnectionLost, CarriedInv, tasks, history
<1>12. CASE UNCHANGED vars
  BY <1>12 DEF vars, state, tasks, history, CarriedInv
<1> QED
  BY <1>3, <1>4, <1>5, <1>6, <1>7, <1>8, <1>9, <1>10, <1>11, <1>12 DEF Next

\* It holds of every connection.
LEMMA CarriedInvariant == Spec => [](ConnInv /\ CarriedInv)
<1>1. Init => CarriedInv
  BY ServerConnectionAssumption DEF Init, CarriedInv, OpenIsAttended
<1>2. ConnInv /\ CarriedInv /\ [Next]_vars => CarriedInv'
  BY CarriedStep
<1> QED
  BY <1>1, <1>2, ConnInvariant, PTL DEF Spec

\* An open connection has its timer or a task to come: it cannot wait for
\* nothing, whatever the peer does or leaves undone.
THEOREM NoConnectionHangs == Spec => []OpenIsAttended
<1>1. CarriedInv => OpenIsAttended
  BY DEF CarriedInv
<1> QED
  BY <1>1, CarriedInvariant, PTL

\* A complete request is handled, under way, or refused by the middleware: no
\* timer, loss or later chunk drops it.
THEOREM NoRequestDropped == Spec => []RequestIsNotDropped
<1>1. ConnInv /\ CarriedInv => RequestIsNotDropped
  <2>1. ASSUME ConnInv, CarriedInv, processed > 0, handled + handling + screening = 0
        PROVE  config.middleware /\ (written # <<>> \/ transport = "lost")
    <3>1. config.middleware /\ transport # "open" /\ received_first_byte
      BY <2>1 DEF ConnInv, CarriedInv, WorkInv
    <3> QED
      BY <3>1, <2>1 DEF ConnInv, ReplyInv, TypeOK, NeverHangsUpSilently
  <2> QED
    BY <2>1 DEF RequestIsNotDropped, CarriedInv
<1> QED
  BY <1>1, CarriedInvariant, PTL

\* Each byte in excess of the request has it processed once more at the worst.
LEMMA ProcessingsBound ==
    ASSUME ConnInv, CarriedInv
    PROVE  /\ processed \in Nat /\ handled \in Nat /\ handling \in Nat /\ screening \in Nat
           /\ wire.excess \in Nat
           /\ processed <= 1 + wire.excess
           /\ handled + handling + screening <= processed
<1>1. /\ processed \in Nat /\ handled \in Nat /\ handling \in Nat
      /\ screening \in Nat /\ buffer \in Nat
      /\ wire.length \in Nat /\ wire.excess \in Nat
      /\ handled + handling + screening <= processed
  BY ServerConnectionAssumption DEF ConnInv, TypeOK, OnceInv
<1>2. CASE processed <= 1
  BY <1>1, <1>2
<1>3. CASE processed > 1
  <2>1. awaiting_body /\ wire.header = "C"
    BY <1>3 DEF ConnInv, CarriedInv, OnceInv
  <2>2. processed <= 1 + buffer - wire.length
    BY <1>1, <1>3, <2>1 DEF CarriedInv
  <2>3. buffer <= wire.length + wire.excess
    BY <2>1 DEF CarriedInv
  <2> QED
    BY <1>1, <2>2, <2>3
<1> QED
  BY <1>1, <1>2, <1>3

\* A request is handled once, and once more for each byte too many at the worst.
THEOREM OneMorePerExcessByte == Spec => []RepeatsNeedExcess
<1>1. ConnInv /\ CarriedInv => RepeatsNeedExcess
  BY ProcessingsBound DEF RepeatsNeedExcess
<1> QED
  BY <1>1, CarriedInvariant, PTL
-----------------------------------------------------------------------------
(* A connection is a Service *)

\* A task that has delivered has been counted; and while the one request of an
\* exact peer is still to be handled, nothing has been written.
ServeInv ==
    /\ finishing <= handled
    /\ wire.excess = 0 /\ handling + screening > 0 => written = <<>>

\* What is left to do for an exact peer is its first handling.
LEMMA ExactTasks ==
    ASSUME ConnInv, wire.excess = 0
    PROVE  /\ handling + screening > 0 => handled = 0
           /\ handling + screening + handled <= 1
<1>1. /\ processed \in Nat /\ handled \in Nat /\ handling \in Nat /\ screening \in Nat
      /\ finishing \in Nat
  BY DEF ConnInv, TypeOK
<1>2. handled + handling + screening <= processed /\ processed <= 1
  BY DEF ConnInv, OnceInv
<1> QED
  BY <1>1, <1>2

\* Routing a request counts a handling now or adds a task for it.
LEMMA RouteCounts ==
    ASSUME TypeOK, RouteRequest
    PROVE  \/ /\ handling' = handling + 1 /\ handled' = handled
              /\ UNCHANGED <<written, transport>>
           \/ handling' = handling /\ handled' = handled + 1
<1>1. CASE config.async
  BY <1>1 DEF RouteRequest
<1>2. CASE ~config.async
  BY <1>2 DEF RouteRequest
<1> QED
  BY <1>1, <1>2

\* Each callback preserves it.
LEMMA ServeStep ==
    ASSUME ConnInv, ServeInv, [Next]_vars
    PROVE  ServeInv'
<1>1. /\ handled \in Nat /\ handling \in Nat /\ screening \in Nat /\ finishing \in Nat
      /\ finishing <= handled /\ wire' = wire
  BY DEF ConnInv, TypeOK, ServeInv, Next, vars, ReceivePartialHeader,
         ReceiveOversizedHeader, ReceiveHeader, ReceiveBody, MiddlewareDone, HandlerRuns,
         HandlerDone, TimerFires, ConnectionLost
<1>2. /\ transport = "open" => written = <<>>
      /\ processed = 0 => screening = 0 /\ handling = 0 /\ finishing = 0
  BY DEF ConnInv, ReplyInv, WorkInv
<1>3. ASSUME UNCHANGED <<handling, screening, finishing, handled>>,
             written' = written \/ handling + screening = 0
      PROVE  ServeInv'
  <2>1. handling' = handling /\ screening' = screening /\ finishing' = finishing
        /\ handled' = handled
    BY <1>3
  <2>2. wire'.excess = 0 /\ handling' + screening' > 0 => written' = <<>>
    BY <1>1, <1>3, <2>1 DEF ServeInv
  <2> QED
    BY <1>1, <2>1, <2>2 DEF ServeInv
<1>4. ASSUME ProcessRequest, transport = "open"
      PROVE  ServeInv'
  <2>1. CASE config.middleware
    BY <1>1, <1>2, <1>4, <2>1 DEF ProcessRequest, ServeInv
  <2>2. CASE ~config.middleware
    <3>1. RouteRequest /\ screening' = screening /\ finishing' = finishing
      BY <1>4, <2>2 DEF ProcessRequest
    <3>2. TypeOK
      BY DEF ConnInv
    <3>3. finishing' <= handled'
      BY <1>1, <3>1, <3>2, RouteCounts
    <3>4. ASSUME wire'.excess = 0, handling' + screening' > 0
          PROVE  written' = <<>>
      <4>1. ConnInv'
        BY ConnStep
      <4>2. /\ handled' + handling' + screening' <= processed' /\ processed' <= 1
            /\ handled' \in Nat /\ handling' \in Nat /\ screening' \in Nat
        BY <3>4, <4>1 DEF ConnInv, OnceInv, TypeOK
      <4>3. processed' \in Nat
        BY <4>1 DEF ConnInv, TypeOK
      <4>4. \/ handling' = handling + 1 /\ handled' = handled /\ written' = written
            \/ handling' = handling /\ handled' = handled + 1
        BY <3>1, <3>2, RouteCounts
      <4>5. CASE handling' = handling /\ handled' = handled + 1
        BY <1>1, <3>1, <3>4, <4>2, <4>3, <4>5
      <4> QED
        BY <1>2, <1>4, <4>4, <4>5
    <3> QED
      BY <3>3, <3>4 DEF ServeInv
  <2> QED
    BY <2>1, <2>2
<1>5. CASE ReceivePartialHeader
  BY <1>3, <1>5 DEF ReceivePartialHeader, tasks, history
<1>6. CASE ReceiveOversizedHeader
  <2>1. processed = 0
    BY <1>6 DEF ReceiveOversizedHeader, ConnInv, OnceInv
  <2>2. handling + screening = 0
    BY <1>2, <2>1
  <2> QED
    BY <1>3, <1>6, <2>2 DEF ReceiveOversizedHeader, tasks
<1>7. ASSUME NEW n \in Chunk, ReceiveHeader(n)
      PROVE  ServeInv'
  <2>0. processed = 0 /\ transport = "open"
    BY <1>7 DEF ReceiveHeader, ConnInv, OnceInv
  <2>1. handling + screening = 0 /\ transport = "open"
    BY <1>2, <2>0
  <2>2. CASE wire.header = "bad"
    BY <1>3, <1>7, <2>1, <2>2 DEF ReceiveHeader, tasks
  <2>3. CASE wire.header # "bad" /\ (CompleteAtHeader \/ BodyComplete(n))
    BY <1>4, <1>7, <2>1, <2>3 DEF ReceiveHeader
  <2>4. CASE wire.header # "bad" /\ ~(CompleteAtHeader \/ BodyComplete(n))
    BY <1>3, <1>7, <2>4 DEF ReceiveHeader, tasks, history
  <2> QED
    BY <2>2, <2>3, <2>4
<1>8. ASSUME NEW n \in Chunk, ReceiveBody(n)
      PROVE  ServeInv'
  <2>1. CASE awaiting_body /\ request /\ BodyComplete(n)
    BY <1>4, <1>8, <2>1 DEF ReceiveBody
  <2>2. CASE ~(awaiting_body /\ request /\ BodyComplete(n))
    BY <1>3, <1>8, <2>2 DEF ReceiveBody, tasks, history
  <2> QED
    BY <2>1, <2>2
<1>9. ASSUME NEW allowed \in BOOLEAN, MiddlewareDone(allowed)
      PROVE  ServeInv'
  <2>1. screening > 0 /\ screening' = screening - 1 /\ finishing' = finishing
    BY <1>9 DEF MiddlewareDone
  <2>2. wire.excess = 0 => screening' = 0 /\ handling = 0 /\ handled = 0 /\ written = <<>>
    BY <1>1, <2>1, ExactTasks DEF ServeInv
  <2>3. CASE allowed
    <3>1. RouteRequest /\ TypeOK
      BY <1>9, <2>3 DEF MiddlewareDone, ConnInv
    <3>2. finishing' <= handled'
      BY <1>1, <2>1, <3>1, RouteCounts
    <3>3. wire'.excess = 0 /\ handling' + screening' > 0 => written' = <<>>
      BY <1>1, <2>2, <3>1, RouteCounts
    <3> QED
      BY <3>2, <3>3 DEF ServeInv
  <2>4. CASE ~allowed
    <3>1. handling' = handling /\ handled' = handled
      BY <1>9, <2>4 DEF MiddlewareDone
    <3> QED
      BY <1>1, <2>1, <2>2, <3>1 DEF ServeInv
  <2> QED
    BY <2>3, <2>4
<1>10. CASE HandlerRuns
  <2>1. /\ handling > 0 /\ handling' = handling - 1 /\ finishing' = finishing + 1
        /\ handled' = handled + 1 /\ screening' = screening /\ written' = written
    BY <1>10 DEF HandlerRuns
  <2> QED
    BY <1>1, <2>1 DEF ServeInv
<1>11. CASE HandlerDone
  <2>1. /\ finishing > 0 /\ finishing' = finishing - 1
        /\ UNCHANGED <<handling, screening, handled>>
    BY <1>11 DEF HandlerDone
  <2>2. wire.excess = 0 => handling + screening = 0
    BY <1>1, <2>1, ExactTasks
  <2> QED
    BY <1>1, <2>1, <2>2 DEF ServeInv
<1>12. CASE TimerFires
  <2>1. handling + screening = 0
    BY <1>2, <1>12 DEF TimerFires, ConnInv, WorkInv, TypeOK
  <2> QED
    BY <1>3, <1>12, <2>1 DEF TimerFires, tasks
<1>13. CASE ConnectionLost
  BY <1>3, <1>13 DEF ConnectionLost, tasks, history
<1>14. CASE UNCHANGED vars
  BY <1>3, <1>14 DEF vars, tasks, history
<1> QED
  BY <1>5, <1>6, <1>7, <1>8, <1>9, <1>10, <1>11, <1>12, <1>13, <1>14 DEF Next

\* A request that may still be handled was not handled too often, and an exact
\* peer has no reply yet.
LEMMA MayServe ==
    ASSUME ConnInv, ServeInv, CarriedInv, handling + screening > 0 \/ processed = 0,
           transport = "open" \/ handling + screening > 0
    PROVE  Promise!MayHandle
<1>1. handled <= wire.excess
  <2>1. CASE handling + screening > 0
    BY <2>1, ProcessingsBound
  <2>2. CASE processed = 0
    BY <2>2, ProcessingsBound
  <2> QED
    BY <2>1, <2>2
<1>2. wire.excess = 0 => written = <<>>
  BY DEF ConnInv, ReplyInv, ServeInv
<1> QED
  BY <1>1, <1>2 DEF Promise!MayHandle, Reply

\* What a Send is to the peer: its one reply, or nothing.
LEMMA SendIsReply ==
    ASSUME ConnInv, NEW reply \in Replies, Send(reply)
    PROVE  \/ transport = "open" /\ transport' # "open" /\ Reply' = reply
           \/ transport # "open" /\ UNCHANGED <<transport, written>>
<1>1. CASE transport = "open"
  <2>1. written' = Append(<<>>, reply) /\ transport' = "closing"
    BY <1>1 DEF Send, ConnInv, ReplyInv
  <2>2. written' = <<reply>> /\ Len(written') = 1 /\ written' # <<>> /\ written'[1] = reply
    BY <2>1, FirstReply
  <2> QED
    BY <1>1, <2>1, <2>2 DEF Reply
<1>2. CASE transport # "open"
  BY <1>2 DEF Send
<1> QED
  BY <1>1, <1>2

\* Routing handles the request now, with or without a reply, or starts a task.
LEMMA RouteServesOrWaits ==
    ASSUME ConnInv, ServeInv, RouteRequest, Promise!MayHandle, wire' = wire
    PROVE  [Promise!Next]_(Promise!vars)
<1>1. handled \in Nat /\ handled' \in Nat
  BY Route DEF ConnInv, TypeOK
<1>2. CASE config.async
  BY <1>2 DEF RouteRequest, Promise!vars, Reply
<1>3. CASE ~config.async
  <2>1. PICK reply \in {"answer", "failure"} : Send(reply)
    BY <1>3 DEF RouteRequest
  <2>2. handled' = handled + 1
    BY <1>3 DEF RouteRequest
  <2>3. reply \in Replies /\ reply \in Promise!Replies /\ reply \notin Promise!Refusals
    BY DEF Replies, Promise!Replies, Promise!Refusals
  <2>4. CASE transport = "open"
    <3>1. transport' # "open" /\ Reply' = reply
      BY <2>1, <2>3, <2>4, SendIsReply
    <3>2. Promise!Fits(reply)
      BY <1>1, <2>2, <2>3 DEF Promise!Fits
    <3>3. Promise!HandleAndReply(reply)
      BY <2>2, <2>4, <3>1, <3>2 DEF Promise!HandleAndReply
    <3> QED
      BY <2>3, <3>3 DEF Promise!Next
  <2>5. CASE transport # "open"
    <3>1. transport' = transport /\ written' = written
      BY <2>1, <2>3, <2>5, SendIsReply
    <3> QED
      BY <2>2, <3>1 DEF Promise!Handle, Promise!Next, Reply
  <2> QED
    BY <2>4, <2>5
<1> QED
  BY <1>2, <1>3

\* A refusal or a failure that comes before any handling.
LEMMA RefuseUnhandled ==
    ASSUME ConnInv, NEW reply \in Replies \ {"answer"}, Send(reply), handled' = handled,
           wire.excess = 0 => handled = 0, wire' = wire
    PROVE  [Promise!Next]_(Promise!vars)
<1>1. CASE transport = "open"
  <2>1. transport' # "open" /\ Reply' = reply
    BY <1>1, SendIsReply
  <2>2. Promise!Reply(reply)
    BY <1>1, <2>1 DEF Promise!Reply, Promise!Fits
  <2>3. reply \in Promise!Replies
    BY DEF Replies, Promise!Replies, Promise!Refusals
  <2> QED
    BY <2>2, <2>3 DEF Promise!Next
<1>2. CASE transport # "open"
  <2>1. transport' = transport /\ written' = written
    BY <1>2, SendIsReply
  <2> QED
    BY <2>1 DEF Promise!vars, Reply
<1> QED
  BY <1>1, <1>2

\* Processing a request handles it, or leaves it to tasks.
LEMMA ProcessServes ==
    ASSUME ConnInv, ServeInv, CarriedInv, ProcessRequest, transport = "open", wire' = wire,
           processed <= wire.excess
    PROVE  [Promise!Next]_(Promise!vars)
<1>1. CASE config.middleware
  BY <1>1 DEF ProcessRequest, Promise!vars, Reply
<1>2. CASE ~config.middleware
  <2>1. Promise!MayHandle
    <3>1. handled <= wire.excess
      BY ProcessingsBound
    <3>2. Reply = "none"
      BY DEF ConnInv, ReplyInv, Reply
    <3> QED
      BY <3>1, <3>2 DEF Promise!MayHandle
  <2> QED
    BY <1>2, <2>1, RouteServesOrWaits DEF ProcessRequest
<1> QED
  BY <1>1, <1>2

\* Each callback is a step of Service, or none.
LEMMA ServiceStep ==
    ASSUME ConnInv, ServeInv, CarriedInv, [Next]_vars
    PROVE  [Promise!Next]_(Promise!vars)
<1>1. ASSUME UNCHANGED <<wire, handled, written, transport>>
      PROVE  [Promise!Next]_(Promise!vars)
  BY <1>1 DEF Promise!vars, Reply
<1>2. processed = 0 => handled = 0
  BY DEF ConnInv, WorkInv
<1>3. CASE ReceivePartialHeader
  BY <1>1, <1>3 DEF ReceivePartialHeader, history
<1>4. CASE ReceiveOversizedHeader
  <2>1. processed = 0
    BY <1>4 DEF ReceiveOversizedHeader, ConnInv, OnceInv
  <2>2. "bad request" \in Replies \ {"answer"}
    BY DEF Replies
  <2> QED
    BY <1>2, <1>4, <2>1, <2>2, RefuseUnhandled DEF ReceiveOversizedHeader
<1>5. ASSUME NEW n \in Chunk, ReceiveHeader(n)
      PROVE  [Promise!Next]_(Promise!vars)
  <2>1. processed = 0 /\ transport = "open" /\ wire' = wire
    BY <1>5 DEF ReceiveHeader, ConnInv, OnceInv
  <2>2. CASE wire.header = "bad"
    <3>1. "bad request" \in Replies \ {"answer"}
      BY DEF Replies
    <3>2. Send("bad request") /\ handled' = handled
      BY <1>5, <2>2 DEF ReceiveHeader
    <3> QED
      BY <1>2, <2>1, <3>1, <3>2, RefuseUnhandled
  <2>3. CASE wire.header # "bad" /\ (CompleteAtHeader \/ BodyComplete(n))
    <3>1. processed <= wire.excess
      BY <2>1, ProcessingsBound
    <3> QED
      BY <1>5, <2>1, <2>3, <3>1, ProcessServes DEF ReceiveHeader
  <2>4. CASE wire.header # "bad" /\ ~(CompleteAtHeader \/ BodyComplete(n))
    BY <1>1, <1>5, <2>1, <2>4 DEF ReceiveHeader, history
  <2> QED
    BY <2>2, <2>3, <2>4
<1>6. ASSUME NEW n \in Chunk, ReceiveBody(n)
      PROVE  [Promise!Next]_(Promise!vars)
  <2>1. transport = "open" /\ wire' = wire
    BY <1>6 DEF ReceiveBody
  <2>2. CASE awaiting_body /\ request /\ BodyComplete(n)
    <3>1. ProcessRequest
      BY <1>6, <2>2 DEF ReceiveBody
    <3>2. processed <= wire.excess
      <4>1. /\ wire.header = "C" /\ n > 0
            /\ processed > 0 => processed <= 1 + buffer - wire.length
        BY <1>6, <2>2 DEF ReceiveBody, ConnInv, OnceInv, CarriedInv
      <4>2. n \in Nat /\ buffer + n <= wire.length + wire.excess
        BY <4>1, ChunkBound DEF ConnInv
      <4>3. /\ processed \in Nat /\ wire.excess \in Nat /\ wire.length \in Nat
            /\ buffer \in Nat
        BY ServerConnectionAssumption DEF ConnInv, TypeOK
      <4> QED
        BY <4>1, <4>2, <4>3
    <3> QED
      BY <2>1, <3>1, <3>2, ProcessServes
  <2>3. CASE ~(awaiting_body /\ request /\ BodyComplete(n))
    BY <1>1, <1>6, <2>3 DEF ReceiveBody, history
  <2> QED
    BY <2>2, <2>3
<1>7. ASSUME NEW allowed \in BOOLEAN, MiddlewareDone(allowed)
      PROVE  [Promise!Next]_(Promise!vars)
  <2>1. screening > 0 /\ wire' = wire
    BY <1>7 DEF MiddlewareDone
  <2>2. handling + screening > 0
    BY <2>1 DEF ConnInv, TypeOK
  <2>3. CASE allowed
    <3>1. RouteRequest
      BY <1>7, <2>3 DEF MiddlewareDone
    <3> QED
      BY <2>1, <2>2, <3>1, MayServe, RouteServesOrWaits
  <2>4. CASE ~allowed
    <3>1. PICK reply \in {"denied", "failure"} : Send(reply)
      BY <1>7, <2>4 DEF MiddlewareDone
    <3>2. handled' = handled
      BY <1>7, <2>4 DEF MiddlewareDone
    <3>3. reply \in Replies \ {"answer"}
      BY DEF Replies
    <3> QED
      BY <2>1, <2>2, <3>1, <3>2, <3>3, ExactTasks, RefuseUnhandled
  <2> QED
    BY <2>3, <2>4
<1>8. CASE HandlerRuns
  <2>1. handling > 0 /\ handled' = handled + 1 /\ UNCHANGED <<wire, transport, written>>
    BY <1>8 DEF HandlerRuns, state
  <2>2. handling + screening > 0
    BY <2>1 DEF ConnInv, TypeOK
  <2>3. Promise!MayHandle
    BY <2>2, MayServe
  <2> QED
    BY <2>1, <2>3 DEF Promise!Handle, Promise!Next, Reply
<1>9. CASE HandlerDone
  <2>1. PICK reply \in {"answer", "failure"} : Send(reply)
    BY <1>9 DEF HandlerDone
  <2>2. handled' = handled /\ wire' = wire /\ handled' > 0
    BY <1>9 DEF HandlerDone, ConnInv, TypeOK, ServeInv
  <2>3. reply \in Replies /\ reply \in Promise!Replies /\ reply \notin Promise!Refusals
    BY DEF Replies, Promise!Replies, Promise!Refusals
  <2>4. CASE transport = "open"
    <3>1. transport' # "open" /\ Reply' = reply
      BY <2>1, <2>3, <2>4, SendIsReply
    <3>2. Promise!Reply(reply)
      BY <2>2, <2>3, <2>4, <3>1 DEF Promise!Reply, Promise!Fits
    <3> QED
      BY <2>3, <3>2 DEF Promise!Next
  <2>5. CASE transport # "open"
    BY <1>1, <2>1, <2>2, <2>3, <2>5, SendIsReply
  <2> QED
    BY <2>4, <2>5
<1>10. CASE TimerFires
  <2>1. processed = 0 /\ handled' = handled /\ wire' = wire
    BY <1>10 DEF TimerFires, ConnInv, WorkInv, TypeOK
  <2>2. CASE transport = "open" /\ received_first_byte
    <3>1. Send("timeout")
      BY <1>10, <2>2 DEF TimerFires, TimeoutReply, TimeoutCloses, Send
    <3>2. "timeout" \in Replies \ {"answer"}
      BY DEF Replies
    <3> QED
      BY <1>2, <2>1, <3>1, <3>2, RefuseUnhandled
  <2>3. CASE transport = "open" /\ ~received_first_byte
    <3>1. written' = written /\ transport' # "open"
      BY <1>10, <2>3 DEF TimerFires, TimeoutReply, TimeoutCloses
    <3> QED
      BY <2>1, <3>1 DEF Promise!GiveUp, Promise!Next, Reply
  <2>4. CASE transport # "open"
    BY <1>1, <1>10, <2>1, <2>4 DEF TimerFires
  <2> QED
    BY <2>2, <2>3, <2>4
<1>11. CASE ConnectionLost
  BY <1>11 DEF ConnectionLost, history, Promise!GiveUp, Promise!Next, Reply
<1>12. CASE UNCHANGED vars
  BY <1>1, <1>12 DEF vars, state, history
<1> QED
  BY <1>3, <1>4, <1>5, <1>6, <1>7, <1>8, <1>9, <1>10, <1>11, <1>12 DEF Next

\* A connection of the Misfin server is a Service: its peer learns from the one
\* reply, whichever callback sends it and in whatever order they come, whether
\* its request has been handled, will not be, or must have been handled once, and
\* only bytes of its own have it handled again.
THEOREM ConnectionIsService == Spec => ImplementsService
<1>1. Init => Promise!Init
  BY ServerConnectionAssumption DEF Init, Promise!Init, Reply
<1>2. Init => ServeInv
  BY DEF Init, ServeInv
<1>3. ConnInv /\ ServeInv /\ [Next]_vars => ServeInv'
  BY ServeStep
<1>4. ConnInv /\ ServeInv /\ CarriedInv /\ [Next]_vars => [Promise!Next]_(Promise!vars)
  BY ServiceStep
<1> QED
  BY <1>1, <1>2, <1>3, <1>4, CarriedInvariant, PTL DEF Spec, ImplementsService, Promise!Spec
=============================================================================
