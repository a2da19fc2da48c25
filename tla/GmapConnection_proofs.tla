------------------------- MODULE GmapConnection_proofs -------------------------
(***************************************************************************)
(* Proofs about GmapConnection: no timeout for a request whose line has    *)
(* come, no such request lost, no hanging open, one handling and one more  *)
(* at the worst for each byte too many, and that a connection is a         *)
(* Service; for any number of bytes behind the request, cut into chunks in *)
(* any way.                                                                *)
(***************************************************************************)
EXTENDS GmapConnection, TLAPS

\* The transport is open until the one reply is written.
ReplyInv ==
    /\ transport = "open" => written = <<>>
    /\ Len(written) <= 1

\* Tasks exist only for a line that has come, which disarmed the timer.
WorkInv ==
    /\ crlf => ~timer
    /\ ~crlf => handling = 0 /\ finishing = 0 /\ handled = 0
    /\ NoTimeoutWhileProcessing

\* What is left to do for an exact peer is its first handling, and nothing has
\* been written before it.
ServeInv ==
    /\ finishing <= handled
    /\ wire.excess = 0 => handling + handled <= 1
    /\ wire.excess = 0 /\ handling > 0 => written = <<>>

ConnInv == TypeOK /\ ReplyInv /\ WorkInv /\ ServeInv

\* The first reply makes a sequence of one.
LEMMA FirstReply ==
    ASSUME NEW reply \in Replies
    PROVE  /\ Append(<<>>, reply) = <<reply>> /\ <<reply>> \in Seq(Replies)
           /\ Len(<<reply>>) = 1 /\ <<reply>> # <<>> /\ <<reply>>[1] = reply
           /\ reply # "timeout" => <<reply>> # <<"timeout">>
<1>1. Append(<<>>, reply) = <<reply>> /\ <<reply>> \in Seq(Replies)
  OBVIOUS
<1>2. Len(<<reply>>) = 1 /\ <<reply>>[1] = reply /\ Len(<<>>) = 0
  OBVIOUS
<1>3. <<"timeout">>[1] = "timeout"
  OBVIOUS
<1> QED
  BY <1>1, <1>2, <1>3

\* No reply yet.
LEMMA NoReply == <<>> \in Seq(Replies) /\ Len(<<>>) = 0 /\ <<>> # <<"timeout">>
<1>1. "timeout" \in Replies
  BY DEF Replies
<1> QED
  BY <1>1, FirstReply

\* What a Send does, and what it is to the peer: its one reply, or nothing.
LEMMA SendReply ==
    ASSUME TypeOK, ReplyInv, NEW reply \in Replies, Send(reply)
    PROVE  /\ written' \in Seq(Replies) /\ Len(written') <= 1
           /\ transport' \in {"closing", "lost"}
           /\ transport = "open" =>
                Reply' = reply /\ (reply # "timeout" => written' # <<"timeout">>)
           /\ transport # "open" => UNCHANGED <<transport, written>>
<1>1. CASE transport = "open"
  <2>1. transport' = "closing" /\ written' = <<reply>>
    BY <1>1, FirstReply DEF Send, ReplyInv
  <2> QED
    BY <1>1, <2>1, FirstReply DEF Reply
<1>2. CASE transport # "open"
  <2>1. written' = written /\ transport' = transport
    BY <1>2 DEF Send
  <2> QED
    BY <1>2, <2>1 DEF TypeOK, ReplyInv
<1> QED
  BY <1>1, <1>2

-----------------------------------------------------------------------------

\* Each callback preserves the invariant.
LEMMA ConnStep ==
    ASSUME ConnInv, [Next]_vars
    PROVE  ConnInv'
<1> USE GmapConnectionAssumption DEF ConnInv, NoTimeoutWhileProcessing
<1>1. CASE ReceivePart
  BY <1>1 DEF ReceivePart, TypeOK, ReplyInv, WorkInv, ServeInv, tasks
<1>2. CASE ReceiveTooMuch
  <2>1. /\ written' \in Seq(Replies) /\ Len(written') <= 1
        /\ transport' \in {"closing", "lost"}
    BY <1>2, SendReply DEF ReceiveTooMuch, Replies
  <2>2. handling = 0 /\ finishing = 0 /\ handled = 0
    BY <1>2 DEF ReceiveTooMuch, WorkInv
  <2>3. TypeOK'
    BY <1>2, <2>1 DEF ReceiveTooMuch, TypeOK, tasks
  <2>4. /\ handling' = 0 /\ finishing' = 0 /\ handled' = 0 /\ ~crlf'
        /\ transport' # "open"
    BY <1>2, <2>1, <2>2 DEF ReceiveTooMuch, tasks
  <2> QED
    BY <2>1, <2>3, <2>4 DEF ReplyInv, WorkInv, ServeInv
<1>3. ASSUME NEW n \in 0 .. wire.excess, ReceiveLine(n)
      PROVE  ConnInv'
  <2>1. /\ transport = "open" /\ wire' = wire /\ async' = async /\ timer' = FALSE
        /\ received_first_byte' = TRUE /\ crlf' = TRUE /\ buffer' = n
        /\ written = <<>>
    BY <1>3 DEF ReceiveLine, TimerAfterLine, ReplyInv
  <2>2. /\ wire.excess \in Nat /\ n \in Nat /\ n <= wire.excess
        /\ buffer \in Nat /\ crlf \in BOOLEAN
    BY DEF TypeOK
  <2>3. wire.excess = 0 => handling = 0 /\ handled = 0
    <3>1. crlf => n > buffer
      BY <1>3 DEF ReceiveLine
    <3>2. wire.excess = 0 => ~crlf
      BY <2>2, <3>1
    <3> QED
      BY <3>2 DEF WorkInv
  <2>4. CASE wire.line = "bad"
    <3>1. Send("bad request") /\ UNCHANGED <<handling, finishing, handled>>
      BY <1>3, <2>4 DEF ReceiveLine, tasks
    <3>2. /\ written' \in Seq(Replies) /\ Len(written') <= 1 /\ written' # <<"timeout">>
          /\ transport' \in {"closing", "lost"}
      BY <2>1, <3>1, SendReply DEF Replies
    <3>3. TypeOK'
      BY <2>1, <2>2, <3>1, <3>2 DEF TypeOK
    <3> QED
      <4>1. /\ handling' = handling /\ finishing' = finishing /\ handled' = handled
            /\ crlf' /\ ~timer' /\ transport' # "open" /\ wire' = wire
        BY <2>1, <3>1, <3>2
      <4>2. ReplyInv' /\ WorkInv'
        BY <3>2, <4>1 DEF ReplyInv, WorkInv
      <4>3. ServeInv'
        BY <2>3, <4>1 DEF ServeInv
      <4> QED
        BY <3>3, <4>2, <4>3
  <2>5. CASE wire.line # "bad" /\ async
    <3>1. handling' = handling + 1 /\ UNCHANGED <<transport, written, handled, finishing>>
      BY <1>3, <2>5 DEF ReceiveLine, ProcessRequest
    <3>2. TypeOK'
      <4>1. handling' \in Nat /\ async' \in BOOLEAN
        BY <2>1, <3>1 DEF TypeOK
      <4> QED
        BY <2>1, <2>2, <3>1, <4>1 DEF TypeOK
    <3>4. ReplyInv'
      BY <2>1, <3>1 DEF ReplyInv
    <3>3. WorkInv' /\ ServeInv'
      BY <2>1, <2>2, <2>3, <3>1, NoReply DEF TypeOK, WorkInv, ServeInv
    <3> QED
      BY <3>2, <3>3, <3>4
  <2>6. CASE wire.line # "bad" /\ ~async
    <3>1. PICK reply \in {"answer", "failure"} : Send(reply)
      BY <1>3, <2>6 DEF ReceiveLine, ProcessRequest
    <3>2. handled' = handled + 1 /\ UNCHANGED <<handling, finishing>>
      BY <1>3, <2>6 DEF ReceiveLine, ProcessRequest, tasks
    <3>3. reply \in Replies
      BY DEF Replies
    <3>4. /\ written' \in Seq(Replies) /\ Len(written') <= 1 /\ written' # <<"timeout">>
          /\ transport' \in {"closing", "lost"}
      BY <2>1, <3>1, <3>3, SendReply
    <3>5. TypeOK'
      <4>1. handled' \in Nat /\ async' \in BOOLEAN
        BY <2>1, <3>2 DEF TypeOK
      <4> QED
        BY <2>1, <2>2, <3>2, <3>4, <4>1 DEF TypeOK
    <3>7. ReplyInv'
      BY <3>4 DEF ReplyInv
    <3>6. WorkInv' /\ ServeInv'
      BY <2>1, <2>2, <2>3, <3>2, <3>4 DEF TypeOK, WorkInv, ServeInv
    <3> QED
      BY <3>5, <3>6, <3>7
  <2> QED
    BY <2>4, <2>5, <2>6
<1>4. CASE HandlerRuns
  BY <1>4 DEF HandlerRuns, TypeOK, ReplyInv, WorkInv, ServeInv
<1>5. CASE HandlerDone
  <2>1. /\ finishing > 0 /\ finishing' = finishing - 1 /\ crlf
        /\ handled > 0 /\ UNCHANGED <<handling, handled>>
    BY <1>5 DEF HandlerDone, TypeOK, WorkInv, ServeInv
  <2>2. wire.excess = 0 => handling = 0
    BY <2>1 DEF TypeOK, ServeInv
  <2>3. PICK reply \in {"answer", "failure"} : Send(reply)
    BY <1>5 DEF HandlerDone
  <2>4. reply \in Replies
    BY DEF Replies
  <2>5. /\ written' \in Seq(Replies) /\ Len(written') <= 1
        /\ transport' \in {"closing", "lost"}
        /\ transport = "open" => written' # <<"timeout">>
        /\ transport # "open" => written' = written
    BY <2>3, <2>4, SendReply
  <2> QED
    BY <1>5, <2>1, <2>2, <2>5 DEF HandlerDone, TypeOK, ReplyInv, WorkInv, ServeInv
<1>6. CASE TimerFires
  <2>1. /\ timer' = FALSE /\ handling = 0 /\ finishing = 0 /\ handled = 0
        /\ UNCHANGED <<async, wire, received_first_byte, crlf, buffer, handling, finishing,
                       handled>>
        /\ ~crlf
    BY <1>6 DEF TimerFires, WorkInv, tasks
  <2>2. /\ written' \in Seq(Replies) /\ Len(written') <= 1
        /\ transport' \in {"closing", "lost"}
    <3>1. CASE transport = "open" /\ received_first_byte
      <4>1. Send("timeout")
        BY <1>6, <3>1 DEF TimerFires, TimeoutCloses, Send
      <4> QED
        BY <4>1, SendReply DEF Replies
    <3>2. CASE ~(transport = "open" /\ received_first_byte)
      BY <1>6, <3>2 DEF TimerFires, TimeoutCloses, TypeOK, ReplyInv
    <3> QED
      BY <3>1, <3>2
  <2>3. TypeOK'
    BY <2>1, <2>2 DEF TypeOK
  <2> QED
    BY <2>1, <2>2, <2>3 DEF ReplyInv, WorkInv, ServeInv
<1>7. CASE ConnectionLost
  BY <1>7 DEF ConnectionLost, TypeOK, ReplyInv, WorkInv, ServeInv, tasks
<1>8. CASE UNCHANGED vars
  BY <1>8 DEF vars, tasks, TypeOK, ReplyInv, WorkInv, ServeInv
<1> QED
  BY <1>1, <1>2, <1>3, <1>4, <1>5, <1>6, <1>7, <1>8 DEF Next

\* The invariant holds of every connection.
LEMMA ConnInvariant == Spec => []ConnInv
<1>1. Init => ConnInv
  <2>1. ASSUME Init
        PROVE  ConnInv
    <3>1. TypeOK
      BY <2>1, NoReply, GmapConnectionAssumption DEF Init, TypeOK
    <3>2. ReplyInv /\ WorkInv /\ ServeInv
      BY <2>1, NoReply DEF Init, ReplyInv, WorkInv, ServeInv, NoTimeoutWhileProcessing
    <3> QED
      BY <3>1, <3>2 DEF ConnInv
  <2> QED
    BY <2>1
<1>2. ConnInv /\ [Next]_vars => ConnInv'
  BY ConnStep
<1> QED
  BY <1>1, <1>2, PTL DEF Spec

\* The type invariant of GmapConnection: no count of tasks falls below zero and
\* only known replies are written.
THEOREM TypeCorrect == Spec => []TypeOK
<1>1. ConnInv => TypeOK
  BY DEF ConnInv
<1> QED
  BY <1>1, ConnInvariant, PTL

\* A peer whose request line has come is not told that it has timed out.
THEOREM CompleteLineHasNoTimeout == Spec => []NoTimeoutWhileProcessing
<1>1. ConnInv => NoTimeoutWhileProcessing
  BY DEF ConnInv, WorkInv
<1> QED
  BY <1>1, ConnInvariant, PTL

-----------------------------------------------------------------------------
(* No connection hangs, no line is lost, repeats cost bytes *)

\* A line that has come has its handling or a task; every handling after the
\* first has had a byte of its own.
CarriedInv ==
    /\ OpenIsAttended
    /\ LineIsNotLost
    /\ crlf => handling + handled <= 1 + buffer /\ buffer <= wire.excess

\* One of two counts is positive if their sum is.
LEMMA PositiveSum ==
    ASSUME NEW m \in Nat, NEW n \in Nat, m + n > 0
    PROVE  m > 0 \/ n > 0
  OBVIOUS

\* Processing a line adds a task, or handles it and closes the connection.
LEMMA ProcessCarries ==
    ASSUME TypeOK, ProcessRequest
    PROVE  /\ handling' \in Nat /\ handled' \in Nat
           /\ handling' + handled' = handling + handled + 1
           /\ transport' = "open" => handling' > 0
<1>1. handling \in Nat /\ handled \in Nat
  BY DEF TypeOK
<1>2. CASE async
  BY <1>1, <1>2 DEF ProcessRequest
<1>3. CASE ~async
  <2>1. PICK reply \in {"answer", "failure"} : Send(reply)
    BY <1>3 DEF ProcessRequest
  <2>2. transport' # "open"
    BY <2>1 DEF Send
  <2>3. handled' = handled + 1 /\ handling' = handling
    BY <1>3 DEF ProcessRequest, tasks
  <2> QED
    BY <1>1, <2>2, <2>3
<1> QED
  BY <1>2, <1>3

\* Each callback preserves it.
LEMMA CarriedStep ==
    ASSUME ConnInv, CarriedInv, [Next]_vars
    PROVE  CarriedInv'
<1>1. /\ handling \in Nat /\ handled \in Nat /\ finishing \in Nat /\ buffer \in Nat
      /\ wire.excess \in Nat /\ TypeOK
  BY GmapConnectionAssumption DEF ConnInv, TypeOK
<1>2. CASE ReceivePart
  BY <1>2 DEF ReceivePart, CarriedInv, OpenIsAttended, LineIsNotLost, tasks
<1>3. CASE ReceiveTooMuch
  <2>1. transport' # "open"
    BY <1>3 DEF ReceiveTooMuch, Send
  <2> QED
    BY <1>3, <2>1 DEF ReceiveTooMuch, CarriedInv, OpenIsAttended, LineIsNotLost, tasks
<1>4. ASSUME NEW n \in 0 .. wire.excess, ReceiveLine(n)
      PROVE  CarriedInv'
  <2>1. /\ n \in Nat /\ n <= wire.excess /\ crlf' = TRUE /\ buffer' = n /\ wire' = wire
        /\ crlf => n > buffer
    <3>1. n \in Nat /\ n <= wire.excess
      BY <1>1
    <3> QED
      BY <1>4, <3>1 DEF ReceiveLine
  <2>2. handling + handled <= n
    <3>1. CASE crlf
      <4>1. handling + handled <= 1 + buffer /\ n > buffer
        BY <2>1, <3>1 DEF CarriedInv, OpenIsAttended, LineIsNotLost
      <4> QED
        BY <1>1, <2>1, <4>1
    <3>2. CASE ~crlf
      <4>1. handling = 0 /\ handled = 0
        BY <3>2 DEF ConnInv, WorkInv
      <4> QED
        BY <2>1, <4>1
    <3> QED
      BY <3>1, <3>2
  <2>3. CASE wire.line = "bad"
    <3>1. transport' # "open" /\ UNCHANGED <<handling, handled>>
      BY <1>4, <2>3 DEF ReceiveLine, Send, tasks
    <3>2. handling' + handled' <= 1 + buffer'
      BY <1>1, <2>1, <2>2, <3>1
    <3> QED
      BY <2>1, <2>3, <3>1, <3>2 DEF CarriedInv, OpenIsAttended, LineIsNotLost
  <2>4. CASE wire.line # "bad"
    <3>1. ProcessRequest
      BY <1>4, <2>4 DEF ReceiveLine
    <3>2. /\ handling' \in Nat /\ handled' \in Nat
          /\ handling' + handled' = handling + handled + 1
          /\ transport' = "open" => handling' > 0
      BY <1>1, <3>1, ProcessCarries
    <3>3. handling' + handled' <= 1 + buffer' /\ (handled' > 0 \/ handling' > 0)
      <4>1. handling' \in Nat /\ handled' \in Nat
        BY <3>2
      <4>2. handling' + handled' = handling + handled + 1 /\ buffer' = n
        BY <2>1, <3>2, Zenon
      <4>3. handling' + handled' <= 1 + buffer' /\ handling' + handled' > 0
        BY <1>1, <2>1, <2>2, <4>2
      <4> QED
        BY <4>1, <4>3, PositiveSum
    <3> QED
      BY <2>1, <3>2, <3>3 DEF CarriedInv, OpenIsAttended, LineIsNotLost
  <2> QED
    BY <2>3, <2>4
<1>5. CASE HandlerRuns
  BY <1>1, <1>5 DEF HandlerRuns, CarriedInv, OpenIsAttended, LineIsNotLost
<1>6. CASE HandlerDone
  <2>1. transport' # "open"
    BY <1>6 DEF HandlerDone, Send
  <2> QED
    BY <1>6, <2>1 DEF HandlerDone, CarriedInv, OpenIsAttended, LineIsNotLost
<1>7. CASE TimerFires
  <2>1. transport' # "open"
    BY <1>7 DEF TimerFires, TimeoutCloses
  <2> QED
    BY <1>7, <2>1 DEF TimerFires, CarriedInv, OpenIsAttended, LineIsNotLost, tasks
<1>8. CASE ConnectionLost
  BY <1>8 DEF ConnectionLost, CarriedInv, OpenIsAttended, LineIsNotLost, tasks
<1>9. CASE UNCHANGED vars
  BY <1>9 DEF vars, tasks, CarriedInv, OpenIsAttended, LineIsNotLost
<1> QED
  BY <1>2, <1>3, <1>4, <1>5, <1>6, <1>7, <1>8, <1>9 DEF Next

\* It holds of every connection.
LEMMA CarriedInvariant == Spec => [](ConnInv /\ CarriedInv)
<1>1. Init => CarriedInv
  BY DEF Init, CarriedInv, OpenIsAttended, LineIsNotLost
<1>2. ConnInv /\ CarriedInv /\ [Next]_vars => CarriedInv'
  BY CarriedStep
<1> QED
  BY <1>1, <1>2, ConnInvariant, PTL DEF Spec

\* An open connection has its timer or a task to come: it cannot wait for
\* nothing, whatever the peer does or leaves undone.
THEOREM NoConnectionHangs == Spec => []OpenIsAttended
<1>1. CarriedInv => OpenIsAttended
  BY DEF CarriedInv
<1> QED
  BY <1>1, CarriedInvariant, PTL

\* A request whose line has come has been handled or has its task, and no
\* timer, loss or later chunk takes that away.
THEOREM NoLineLost == Spec => []LineIsNotLost
<1>1. CarriedInv => LineIsNotLost
  BY DEF CarriedInv
<1> QED
  BY <1>1, CarriedInvariant, PTL

\* A request is handled once, and once more for each byte too many at the worst.
THEOREM OneMorePerExcessByte == Spec => []RepeatsNeedExcess
<1>1. ConnInv /\ CarriedInv => RepeatsNeedExcess
  <2>1. ASSUME ConnInv, CarriedInv
        PROVE  handled <= 1 + wire.excess
    <3>1. /\ handling \in Nat /\ handled \in Nat /\ buffer \in Nat /\ wire.excess \in Nat
      BY <2>1, GmapConnectionAssumption DEF ConnInv, TypeOK
    <3>2. CASE crlf
      <4>1. handling + handled <= 1 + buffer /\ buffer <= wire.excess
        BY <2>1, <3>2 DEF CarriedInv
      <4> QED
        BY <3>1, <4>1
    <3>3. CASE ~crlf
      BY <2>1, <3>1, <3>3 DEF ConnInv, WorkInv
    <3> QED
      BY <3>2, <3>3
  <2> QED
    BY <2>1 DEF RepeatsNeedExcess
<1> QED
  BY <1>1, CarriedInvariant, PTL
-----------------------------------------------------------------------------
(* A connection is a Service *)

\* Each callback is a step of Service, or none.
LEMMA ServiceStep ==
    ASSUME ConnInv, CarriedInv, [Next]_vars
    PROVE  [Promise!Next]_(Promise!vars)
<1>1. ASSUME UNCHANGED <<wire, handled, written, transport>>
      PROVE  [Promise!Next]_(Promise!vars)
  BY <1>1 DEF Promise!vars, Reply
<1>2. TypeOK /\ ReplyInv /\ WorkInv /\ ServeInv
  BY DEF ConnInv
<1>3. ASSUME NEW reply \in Replies \ {"answer"}, Send(reply), UNCHANGED <<wire, handled>>,
             wire.excess = 0 => handled = 0
      PROVE  [Promise!Next]_(Promise!vars)
  <2>1. CASE transport = "open"
    <3>1. transport' # "open" /\ Reply' = reply
      BY <1>2, <1>3, <2>1, SendReply
    <3>2. Promise!Reply(reply)
      BY <1>3, <2>1, <3>1 DEF Promise!Reply, Promise!Fits
    <3>3. reply \in Promise!Replies
      BY DEF Replies, Promise!Replies, Promise!Refusals
    <3> QED
      BY <3>2, <3>3 DEF Promise!Next
  <2>2. CASE transport # "open"
    BY <1>1, <1>2, <1>3, <2>2, SendReply
  <2> QED
    BY <2>1, <2>2
<1>4. CASE ReceivePart
  BY <1>1, <1>4 DEF ReceivePart
<1>5. CASE ReceiveTooMuch
  <2>1. handled = 0 /\ "bad request" \in Replies \ {"answer"}
    BY <1>2, <1>5 DEF ReceiveTooMuch, WorkInv, Replies
  <2> QED
    BY <1>3, <1>5, <2>1 DEF ReceiveTooMuch
<1>6. ASSUME NEW n \in 0 .. wire.excess, ReceiveLine(n)
      PROVE  [Promise!Next]_(Promise!vars)
  <2>1. transport = "open" /\ wire' = wire /\ written = <<>>
    BY <1>2, <1>6 DEF ReceiveLine, ReplyInv
  <2>2. handled <= wire.excess /\ handled \in Nat /\ wire.excess \in Nat
    <3>1. /\ n \in Nat /\ n <= wire.excess /\ buffer \in Nat /\ wire.excess \in Nat
          /\ handled \in Nat /\ handling \in Nat
      BY <1>2, GmapConnectionAssumption DEF TypeOK
    <3>2. crlf => n > buffer /\ handling + handled <= 1 + buffer
      BY <1>6 DEF ReceiveLine, CarriedInv
    <3>3. ~crlf => handled = 0
      BY <1>2 DEF WorkInv
    <3> QED
      BY <3>1, <3>2, <3>3
  <2>3. Promise!MayHandle
    BY <2>1, <2>2 DEF Promise!MayHandle, Reply
  <2>4. CASE wire.line = "bad"
    <3>1. Send("bad request") /\ handled' = handled
      BY <1>6, <2>4 DEF ReceiveLine
    <3>2. "bad request" \in Replies \ {"answer"}
      BY DEF Replies
    <3>3. wire.excess = 0 => handled = 0
      BY <2>2
    <3> QED
      BY <1>3, <2>1, <3>1, <3>2, <3>3
  <2>5. CASE wire.line # "bad" /\ async
    BY <1>1, <1>6, <2>1, <2>5 DEF ReceiveLine, ProcessRequest
  <2>6. CASE wire.line # "bad" /\ ~async
    <3>1. PICK reply \in {"answer", "failure"} : Send(reply)
      BY <1>6, <2>6 DEF ReceiveLine, ProcessRequest
    <3>2. handled' = handled + 1 /\ handled \in Nat
      BY <1>2, <1>6, <2>6 DEF ReceiveLine, ProcessRequest, TypeOK
    <3>3. reply \in Replies /\ reply \in Promise!Replies /\ reply \notin Promise!Refusals
      BY DEF Replies, Promise!Replies, Promise!Refusals
    <3>4. transport' # "open" /\ Reply' = reply
      BY <1>2, <2>1, <3>1, <3>3, SendReply
    <3>5. Promise!HandleAndReply(reply)
      BY <2>1, <2>3, <3>2, <3>3, <3>4 DEF Promise!HandleAndReply, Promise!Fits
    <3> QED
      BY <3>3, <3>5 DEF Promise!Next
  <2> QED
    BY <2>4, <2>5, <2>6
<1>7. CASE HandlerRuns
  <2>1. handling > 0 /\ handled' = handled + 1 /\ UNCHANGED <<wire, transport, written>>
    BY <1>7 DEF HandlerRuns
  <2>2. wire.excess = 0 => written = <<>>
    BY <1>2, <2>1 DEF ServeInv
  <2>3. handled <= wire.excess
    <3>1. crlf
      BY <1>2, <2>1 DEF WorkInv
    <3>2. handling + handled <= 1 + buffer /\ buffer <= wire.excess
      BY <3>1 DEF CarriedInv
    <3>3. /\ handling \in Nat /\ handled \in Nat /\ buffer \in Nat /\ wire.excess \in Nat
      BY <1>2, GmapConnectionAssumption DEF TypeOK
    <3> QED
      BY <2>1, <3>2, <3>3
  <2> QED
    BY <2>1, <2>2, <2>3 DEF Promise!MayHandle, Promise!Handle, Promise!Next, Reply
<1>8. CASE HandlerDone
  <2>1. PICK reply \in {"answer", "failure"} : Send(reply)
    BY <1>8 DEF HandlerDone
  <2>2. handled' = handled /\ wire' = wire /\ handled' > 0
    BY <1>2, <1>8 DEF HandlerDone, TypeOK, ServeInv
  <2>3. reply \in Replies /\ reply \in Promise!Replies /\ reply \notin Promise!Refusals
    BY DEF Replies, Promise!Replies, Promise!Refusals
  <2>4. CASE transport = "open"
    <3>1. transport' # "open" /\ Reply' = reply
      BY <1>2, <2>1, <2>3, <2>4, SendReply
    <3>2. Promise!Reply(reply)
      BY <2>2, <2>3, <2>4, <3>1 DEF Promise!Reply, Promise!Fits
    <3> QED
      BY <2>3, <3>2 DEF Promise!Next
  <2>5. CASE transport # "open"
    BY <1>1, <1>2, <2>1, <2>2, <2>3, <2>5, SendReply
  <2> QED
    BY <2>4, <2>5
<1>9. CASE TimerFires
  <2>1. handled = 0 /\ handled' = handled /\ wire' = wire
    BY <1>2, <1>9 DEF TimerFires, WorkInv
  <2>2. CASE transport = "open" /\ received_first_byte
    <3>1. Send("timeout")
      BY <1>9, <2>2 DEF TimerFires, TimeoutCloses, Send
    <3>2. "timeout" \in Replies \ {"answer"}
      BY DEF Replies
    <3> QED
      BY <1>3, <2>1, <3>1, <3>2
  <2>3. CASE transport = "open" /\ ~received_first_byte
    <3>1. written' = written /\ transport' # "open"
      BY <1>9, <2>3 DEF TimerFires, TimeoutCloses
    <3> QED
      BY <2>1, <3>1 DEF Promise!GiveUp, Promise!Next, Reply
  <2>4. CASE transport # "open"
    BY <1>1, <1>9, <2>1, <2>4 DEF TimerFires
  <2> QED
    BY <2>2, <2>3, <2>4
<1>10. CASE ConnectionLost
  BY <1>10 DEF ConnectionLost, Promise!GiveUp, Promise!Next, Reply
<1>11. CASE UNCHANGED vars
  BY <1>1, <1>11 DEF vars
<1> QED
  BY <1>4, <1>5, <1>6, <1>7, <1>8, <1>9, <1>10, <1>11 DEF Next

\* A connection of the GMAP server is a Service: a peer that sends its request
\* and no more has it handled once at most, and not after its one reply; each
\* byte more has it handled once more at the worst.
THEOREM ConnectionIsService == Spec => ImplementsService
<1>1. Init => Promise!Init
  BY GmapConnectionAssumption DEF Init, Promise!Init, Reply
<1>2. ConnInv /\ CarriedInv /\ [Next]_vars => [Promise!Next]_(Promise!vars)
  BY ServiceStep
<1> QED
  BY <1>1, <1>2, CarriedInvariant, PTL DEF Spec, ImplementsService, Promise!Spec
=============================================================================
