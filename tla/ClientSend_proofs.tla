--------------------------- MODULE ClientSend_proofs ---------------------------
(***************************************************************************)
(* Proofs about ClientSend, for any number of hosts, retries and           *)
(* redirects: how often a send connects, that its steps run out, how many  *)
(* copies of the message it leaves, what a refusal says of them, and that  *)
(* it is a OneSend: what it returns stays true.                            *)
(***************************************************************************)
EXTENDS ClientSend, TLAPS

\* The connections that d redirects may have used up.
Budget(d) == d * (max_retries + 1)

\* The connections made beside those of redirects and retries: the first one,
\* once it is made, and the fallback's.
Beside == (IF pc = "connect" THEN 0 ELSE 1) + (IF request.version = "B" THEN 1 ELSE 0)

\* Every connection is charged to a redirect or a retry, or is beside them.
AttemptInv ==
    /\ attempts <= Budget(request.depth) + request.retries + Beside
    /\ pc = "sleep" => request.version = "C" /\ request.retries < max_retries

\* A copy more than there are "temporary failure" answers is the copy of the
\* host that has answered "success"; another request follows only after the
\* last one was answered, and a Misfin(C) request never follows a failure.
CopyInv ==
    /\ copies <= failures + 1
    /\ copies > failures => conn = "success"
    /\ pc \in {"connect", "sleep"} => conn \notin {"sent", "success"}
    /\ request.version = "C" =>
         /\ failures > 0 => failures = 1 /\ conn = "failure"
         /\ copies <= 1
         /\ pc \in {"connect", "sleep"} => conn # "failure"
    /\ request.version = "B" =>
         /\ copies <= 2
         /\ pc = "connect" \/ conn = "sent" => copies <= 1

\* A refusal is only returned when the last request has been refused.
Refusals == {"rejected", "slow down", "redirect", "other"}

ResultInv ==
    /\ pc # "done" => result = "none"
    /\ result \in Refusals => conn \notin {"sent", "success"}

SendInv == TypeOK /\ AttemptInv /\ CopyInv /\ ResultInv

\* What the budget of one redirect more is.
LEMMA BudgetStep ==
    ASSUME NEW d \in Nat
    PROVE  Budget(d) \in Nat /\ Budget(d + 1) = Budget(d) + max_retries + 1
  BY ClientSendAssumption DEF Budget

\* The budget grows with the number of redirects.
LEMMA BudgetGrows ==
    ASSUME NEW d \in Nat, NEW e \in Nat, d <= e
    PROVE  Budget(d) <= Budget(e)
<1> DEFINE k == max_retries + 1
<1>1. k \in Nat /\ e - d \in Nat
  BY ClientSendAssumption
<1>2. (e - d) * k \in Nat /\ e * k = d * k + (e - d) * k /\ d * k \in Nat
  BY <1>1
<1> QED
  BY <1>2 DEF Budget

\* The fields of the request, and the answers, in a form the provers can use.
LEMMA RequestType ==
    ASSUME TypeOK
    PROVE  /\ request.host \in Hosts /\ request.version \in {"C", "B"}
           /\ request.retries \in Nat /\ request.retries <= max_retries
           /\ request.depth \in Nat /\ request.depth <= MAX_REDIRECTS
           /\ attempts \in Nat /\ copies \in Nat /\ failures \in Nat
           /\ Budget(request.depth) \in Nat
<1>1. request \in Request
  BY DEF TypeOK
<1>2. request.depth \in Nat /\ request.depth <= MAX_REDIRECTS
  BY <1>1, ClientSendAssumption DEF Request
<1>3. request.retries \in Nat /\ request.retries <= max_retries
  BY <1>1, ClientSendAssumption DEF Request
<1> QED
  BY <1>1, <1>2, <1>3, BudgetStep DEF Request, TypeOK

\* The invariant holds when a send begins.
LEMMA SendInit == Init => SendInv
<1> SUFFICES ASSUME Init PROVE SendInv
  OBVIOUS
<1>1. PICK h \in Hosts : request = NewRequest(h, 0)
  BY DEF Init
<1>2. request = [host |-> h, version |-> "C", retries |-> 0, depth |-> 0]
  BY <1>1 DEF NewRequest
<1>3. request \in Request
  BY <1>2, ClientSendAssumption DEF Request
<1>4. TypeOK
  BY <1>3 DEF Init, TypeOK
<1>5. AttemptInv
  <2>1. Budget(0) \in Nat
    BY BudgetStep
  <2>2. Beside = 0 /\ request.depth = 0 /\ request.retries = 0 /\ pc = "connect"
    BY <1>2 DEF Init, Beside
  <2> QED
    BY <2>1, <2>2 DEF Init, AttemptInv
<1>6. CopyInv /\ ResultInv
  BY <1>2 DEF Init, CopyInv, ResultInv, Refusals
<1> QED
  BY <1>4, <1>5, <1>6 DEF SendInv

-----------------------------------------------------------------------------
(* The steps that leave the request as it is *)

\* What the invariants keep through such a step: the connections are counted.
LEMMA SameRequest ==
    ASSUME TypeOK, AttemptInv, request' = request,
           \/ pc = "connect" /\ pc' # "connect" /\ attempts' = attempts + 1
           \/ pc # "connect" /\ pc' # "connect" /\ attempts' = attempts
           \/ pc' = pc /\ attempts' = attempts,
           pc' = "sleep" => request.version = "C" /\ request.retries < max_retries
    PROVE  AttemptInv'
<1>1. Budget(request'.depth) = Budget(request.depth)
  OBVIOUS
<1> QED
  BY <1>1, RequestType DEF AttemptInv, Beside

\* Trying to connect.
LEMMA ConnectStep ==
    ASSUME SendInv, ConnectionFails \/ Connects
    PROVE  SendInv'
<1>1. /\ pc' \in {"await", "done"} /\ conn' \in {conn, "sent"}
      /\ result' \in {result, "exception", "failure"} /\ attempts' = attempts + 1
      /\ UNCHANGED <<config, request, copies, failures>>
      /\ certificate' \in [Hosts -> {"first_use", "ok", "changed"}]
  <2>1. CASE ConnectionFails
    BY <2>1 DEF SendInv, TypeOK, ConnectionFails, TimesOut, Return
  <2>2. CASE Connects
    <3>1. certificate' \in [Hosts -> {"first_use", "ok", "changed"}]
      BY <2>2 DEF SendInv, TypeOK, Connects
    <3> QED
      BY <2>2, <3>1 DEF Connects, Return
  <2> QED
    BY <2>1, <2>2
<1>2. TypeOK'
  <2>1. conn' \in {"none", "sent"} \cup Answers
    BY <1>1 DEF SendInv, TypeOK
  <2>2. result' \in {"none", "exception"} \cup Answers
    BY <1>1 DEF SendInv, TypeOK, Answers
  <2>3. attempts' \in Nat
    BY <1>1, RequestType DEF SendInv
  <2> QED
    BY <1>1, <2>1, <2>2, <2>3 DEF SendInv, TypeOK
<1>3. AttemptInv'
  BY SameRequest DEF SendInv, ConnectionFails, Connects, TimesOut, Return
<1>4. CopyInv' /\ ResultInv'
  BY RequestType
     DEF SendInv, ConnectionFails, Connects, CopyInv, ResultInv, Refusals, TimesOut, Return
<1> QED
  BY <1>2, <1>3, <1>4 DEF SendInv

\* Giving up, or going to sleep.
LEMMA GiveUpStep ==
    ASSUME SendInv, GivesUp \/ SlowsDown
    PROVE  SendInv'
<1>1. TypeOK'
  BY DEF SendInv, GivesUp, SlowsDown, TypeOK, TimesOut, Return, Answers
<1>2. AttemptInv'
  BY SameRequest DEF SendInv, GivesUp, SlowsDown, MayRetry, TimesOut, Return, Answered
<1>3. CopyInv' /\ ResultInv'
  BY RequestType
     DEF SendInv, GivesUp, SlowsDown, CopyInv, ResultInv, Refusals, TimesOut, Return,
         Answered
<1> QED
  BY <1>1, <1>2, <1>3 DEF SendInv

\* Returning what a host has answered.
LEMMA ReturnStep ==
    ASSUME SendInv, EmptyRedirect \/ MalformedRedirect \/ ReturnsAnswer
    PROVE  SendInv'
<1>1. /\ pc = "await" /\ pc' = "done" /\ result' \in {"exception"} \cup Answers
      /\ result' \in Refusals => conn \notin {"sent", "success"}
      /\ UNCHANGED <<config, certificate, request, conn, attempts, copies, failures>>
  BY DEF EmptyRedirect, MalformedRedirect, ReturnsAnswer, Answered, Return, Answers, Refusals
<1>2. TypeOK'
  BY <1>1 DEF SendInv, TypeOK
<1>3. AttemptInv'
  BY <1>1, SameRequest DEF SendInv
<1>4. CopyInv' /\ ResultInv'
  BY <1>1 DEF SendInv, CopyInv, ResultInv
<1> QED
  BY <1>2, <1>3, <1>4 DEF SendInv

\* The environment's steps.
LEMMA HostStep ==
    ASSUME SendInv, NEW a \in Answers, NEW stored \in BOOLEAN, HostHandles(a, stored)
    PROVE  SendInv'
<1>1. TypeOK'
  BY RequestType DEF SendInv, HostHandles, TypeOK
<1>2. AttemptInv'
  BY SameRequest DEF SendInv, HostHandles, AttemptInv
<1>3. ResultInv'
  BY DEF SendInv, HostHandles, ResultInv, CopyInv
<1>4. CopyInv'
  <2>1. copies \in Nat /\ failures \in Nat /\ copies <= failures /\ copies <= 1
    BY RequestType DEF SendInv, HostHandles, CopyInv
  <2>2. CASE request.version = "C"
    <3>1. failures = 0 /\ copies = 0 /\ pc \notin {"connect", "sleep"}
      BY <2>1, <2>2 DEF SendInv, HostHandles, CopyInv
    <3> QED
      BY <2>1, <2>2, <3>1 DEF HostHandles, CopyInv
  <2>3. CASE request.version = "B"
    <3>1. pc \notin {"connect", "sleep"}
      BY DEF SendInv, HostHandles, CopyInv
    <3> QED
      BY <2>1, <2>3, <3>1 DEF HostHandles, CopyInv
  <2> QED
    BY <2>2, <2>3, RequestType DEF SendInv
<1> QED
  BY <1>1, <1>2, <1>3, <1>4 DEF SendInv

\* A host's certificate only matters to later connections.
LEMMA CertificateStep ==
    ASSUME SendInv, NEW h \in Hosts, CertificateChanges(h)
    PROVE  SendInv'
<1>1. TypeOK'
  BY DEF SendInv, CertificateChanges, TypeOK
<1>2. AttemptInv'
  BY SameRequest, RequestType DEF SendInv, CertificateChanges, AttemptInv
<1>3. CopyInv' /\ ResultInv'
  BY DEF SendInv, CertificateChanges, CopyInv, ResultInv
<1> QED
  BY <1>1, <1>2, <1>3 DEF SendInv

-----------------------------------------------------------------------------
(* The steps that make a new request *)

\* A retry is one more connection, and one more retry to charge it to.
LEMMA RetryStep ==
    ASSUME SendInv, Retries
    PROVE  SendInv'
<1>1. /\ request.version = "C" /\ request.retries < max_retries
      /\ request' = [request EXCEPT !.retries = @ + 1]
  BY DEF SendInv, Retries, AttemptInv
<1>2. request \in Request
  BY DEF SendInv, TypeOK
<1>3. /\ request'.retries = request.retries + 1 /\ request'.depth = request.depth
      /\ request'.version = request.version /\ request'.host = request.host
  BY <1>1, <1>2 DEF Request
<1>4. request' \in Request
  BY <1>1, <1>2, RequestType, ClientSendAssumption DEF Request, SendInv
<1>5. TypeOK'
  BY <1>4 DEF SendInv, TypeOK, Retries
<1>6. AttemptInv'
  <2>1. Budget(request'.depth) = Budget(request.depth)
    BY <1>3
  <2> QED
    BY <1>1, <1>3, <2>1, RequestType DEF SendInv, Retries, AttemptInv, Beside
<1>7. CopyInv' /\ ResultInv'
  BY <1>1, <1>3 DEF SendInv, Retries, CopyInv, ResultInv
<1> QED
  BY <1>5, <1>6, <1>7 DEF SendInv

\* A redirect, or its refusal.
LEMMA RedirectStep ==
    ASSUME SendInv, FollowsRedirect
    PROVE  SendInv'
<1>1. CASE request' = request
  <2>1. /\ pc = "await" /\ pc' = "done" /\ result' \in Answers
        /\ conn = "redirect"
        /\ UNCHANGED <<config, certificate, conn, attempts, copies, failures>>
    <3>1. /\ pc = "await" /\ conn = "redirect"
          /\ UNCHANGED <<config, certificate, conn, attempts, copies, failures>>
      BY DEF FollowsRedirect, Answered
    <3>2. \A h \in Hosts : request # Redirected(h)
      BY RequestType DEF SendInv, Redirected, NewRequest
    <3>3. Return("redirect") \/ Return("other")
      BY <1>1, <3>2 DEF FollowsRedirect
    <3> QED
      BY <3>1, <3>3 DEF Return, Answers
  <2>2. TypeOK'
    BY <1>1, <2>1 DEF SendInv, TypeOK
  <2>3. AttemptInv'
    BY <1>1, <2>1, SameRequest DEF SendInv
  <2>4. CopyInv' /\ ResultInv'
    BY <1>1, <2>1 DEF SendInv, CopyInv, ResultInv
  <2> QED
    BY <2>2, <2>3, <2>4 DEF SendInv
<1>2. CASE request' # request
  <2>1. /\ request.version = "C" /\ request.depth < MAX_REDIRECTS
        /\ pc = "await" /\ pc' = "connect" /\ conn = "redirect"
        /\ UNCHANGED <<config, certificate, result, conn, attempts, copies, failures>>
    BY <1>2, RequestType, ClientSendAssumption DEF SendInv, FollowsRedirect, Answered
  <2>2. PICK h \in Hosts : request' = Redirected(h)
    BY <1>2 DEF FollowsRedirect
  <2>3. request' = [host |-> h, version |-> "C", retries |-> 0, depth |-> request.depth + 1]
    BY <2>2 DEF Redirected, NewRequest
  <2>4. request' \in Request
    BY <2>1, <2>3, RequestType, ClientSendAssumption DEF SendInv, Request
  <2>5. TypeOK'
    BY <2>1, <2>4 DEF SendInv, TypeOK
  <2>6. AttemptInv'
    <3>1. Budget(request.depth + 1) = Budget(request.depth) + max_retries + 1
      BY RequestType, BudgetStep DEF SendInv
    <3>2. attempts <= Budget(request.depth) + request.retries + 1
      BY <2>1, RequestType DEF SendInv, AttemptInv, Beside
    <3> QED
      BY <2>1, <2>3, <3>1, <3>2, RequestType, ClientSendAssumption
         DEF SendInv, AttemptInv, Beside
  <2>7. CopyInv' /\ ResultInv'
    BY <2>1, <2>3, RequestType DEF SendInv, CopyInv, ResultInv
  <2> QED
    BY <2>5, <2>6, <2>7 DEF SendInv
<1> QED
  BY <1>1, <1>2

\* The fallback, or its refusal.
LEMMA FallBackStep ==
    ASSUME SendInv, FallsBack
    PROVE  SendInv'
<1>1. /\ request.version = "C" /\ pc = "await" /\ conn \in {"failure", "rejected"}
      /\ UNCHANGED <<config, certificate, conn, attempts, copies, failures>>
  BY DEF FallsBack, MayFallBack, Answered, FallbackAnswers
<1>2. request \in Request /\ attempts \in Nat /\ copies \in Nat /\ failures \in Nat
  BY RequestType DEF SendInv, TypeOK
<1>3. copies <= 1 /\ copies <= failures
  BY <1>1, <1>2 DEF SendInv, CopyInv
<1>4. CASE config.fits
  <2>1. /\ request' = [request EXCEPT !.version = "B"]
        /\ pc' = "connect" /\ result' = result /\ result = "none"
    BY <1>1, <1>4 DEF FallsBack, SendInv, ResultInv
  <2>2. /\ request'.version = "B" /\ request'.retries = request.retries
        /\ request'.depth = request.depth /\ request' \in Request
    BY <1>2, <2>1 DEF Request
  <2>3. TypeOK'
    BY <1>1, <2>1, <2>2 DEF SendInv, TypeOK
  <2>4. AttemptInv'
    <3>1. Budget(request'.depth) = Budget(request.depth)
      BY <2>2
    <3> QED
      BY <1>1, <2>1, <2>2, <3>1, RequestType DEF SendInv, AttemptInv, Beside
  <2>5. CopyInv' /\ ResultInv'
    BY <1>1, <1>2, <1>3, <2>1, <2>2 DEF CopyInv, ResultInv, Refusals
  <2> QED
    BY <2>3, <2>4, <2>5 DEF SendInv
<1>5. CASE ~config.fits
  <2>1. pc' = "done" /\ result' = "rejected" /\ request' = request
    BY <1>5 DEF FallsBack, Return
  <2>2. TypeOK'
    BY <1>1, <2>1 DEF SendInv, TypeOK, Answers
  <2>3. AttemptInv'
    BY <1>1, <2>1, SameRequest DEF SendInv
  <2>4. CopyInv' /\ ResultInv'
    BY <1>1, <2>1 DEF SendInv, CopyInv, ResultInv
  <2> QED
    BY <2>2, <2>3, <2>4 DEF SendInv
<1> QED
  BY <1>4, <1>5

-----------------------------------------------------------------------------

\* The invariant holds of every send.
LEMMA SendInvariant == Spec => []SendInv
<1>1. SendInv /\ [Next]_vars => SendInv'
  <2> SUFFICES ASSUME SendInv, [Next]_vars PROVE SendInv'
    OBVIOUS
  <2>1. CASE UNCHANGED vars
    BY <2>1 DEF vars, SendInv, TypeOK, AttemptInv, Beside, Budget, CopyInv, ResultInv
  <2>2. CASE ClientStep
    BY <2>2, ConnectStep, GiveUpStep, ReturnStep, RetryStep, RedirectStep, FallBackStep
       DEF ClientStep
  <2> QED
    BY <2>1, <2>2, HostStep, CertificateStep DEF Next
<1> QED
  BY <1>1, SendInit, PTL DEF Spec

\* Every variable keeps its type.
THEOREM TypeCorrect == Spec => []TypeOK
<1>1. SendInv => TypeOK
  BY DEF SendInv
<1> QED
  BY <1>1, SendInvariant, PTL

\* A send makes no more connections than one per redirect and retry, and one
\* for the fallback.
THEOREM SendIsBounded == Spec => []AttemptsBounded
<1>1. SendInv => AttemptsBounded
  <2> SUFFICES ASSUME SendInv PROVE AttemptsBounded
    OBVIOUS
  <2>1. attempts <= Budget(request.depth) + request.retries + 2
    BY RequestType DEF SendInv, AttemptInv, Beside
  <2>2. Budget(request.depth) <= Budget(MAX_REDIRECTS)
    BY RequestType, BudgetGrows, ClientSendAssumption DEF SendInv
  <2>3. /\ Budget(MAX_REDIRECTS + 1) = Budget(MAX_REDIRECTS) + max_retries + 1
        /\ Budget(MAX_REDIRECTS) \in Nat
    BY BudgetStep, ClientSendAssumption
  <2>4. attempts <= Budget(MAX_REDIRECTS + 1) + 1
    BY <2>1, <2>2, <2>3, RequestType, ClientSendAssumption DEF SendInv
  <2> QED
    BY <2>4 DEF AttemptsBounded, Budget
<1> QED
  BY <1>1, SendInvariant, PTL

\* No retry, redirect or timeout makes a second copy of a message: only the
\* fallback after "temporary failure" can, and only one.
THEOREM CopiesAreExplained == Spec => []NoUnexplainedCopy
<1>1. SendInv => NoUnexplainedCopy
  BY RequestType DEF SendInv, CopyInv, NoUnexplainedCopy
<1> QED
  BY <1>1, SendInvariant, PTL

\* A refusal that follows no "temporary failure" means that nobody has stored
\* the message.
THEOREM RefusedMeansNotStored == Spec => []RefusedIsNotStored
<1>1. SendInv => RefusedIsNotStored
  <2> SUFFICES ASSUME SendInv, result \in Refusals, failures = 0 PROVE copies = 0
    BY DEF RefusedIsNotStored, Refusals
  <2>1. copies \in Nat
    BY RequestType DEF SendInv
  <2>2. conn # "success"
    BY DEF SendInv, ResultInv
  <2>3. ~(copies > failures)
    BY <2>2 DEF SendInv, CopyInv
  <2> QED
    BY <2>1, <2>3
<1> QED
  BY <1>1, SendInvariant, PTL
-----------------------------------------------------------------------------
(* Every step of a send leaves it fewer *)

\* What is left of a Misfin(C) request's connections, in terms of the budget.
LEMMA LeftType ==
    ASSUME TypeOK
    PROVE  /\ ConnectionsLeft \in Nat
           /\ request.version = "B" => ConnectionsLeft = 0
           /\ request.version = "C" =>
                /\ MAX_REDIRECTS - request.depth \in Nat
                /\ ConnectionsLeft = Budget(MAX_REDIRECTS - request.depth)
                                       + (max_retries - request.retries) + 1
<1>1. /\ MAX_REDIRECTS - request.depth \in Nat /\ max_retries - request.retries \in Nat
  BY RequestType, ClientSendAssumption
<1>2. Budget(MAX_REDIRECTS - request.depth) \in Nat
  BY <1>1, BudgetStep
<1>3. CASE request.version = "B"
  BY <1>3 DEF ConnectionsLeft
<1>4. CASE request.version = "C"
  <2>1. ConnectionsLeft = Budget(MAX_REDIRECTS - request.depth)
                            + (max_retries - request.retries) + 1
    BY <1>4 DEF ConnectionsLeft, Budget
  <2> QED
    BY <1>1, <1>2, <1>4, <2>1
<1> QED
  BY <1>3, <1>4, RequestType

\* The steps left, phase by phase.
LEMMA StepsType ==
    ASSUME TypeOK
    PROVE  /\ pc = "done" => StepsLeft = 0
           /\ pc = "connect" => StepsLeft = 4 * ConnectionsLeft + 3
           /\ pc = "await" => StepsLeft = 4 * ConnectionsLeft + 2
           /\ pc = "sleep" => StepsLeft = 4 * ConnectionsLeft + 1
BY DEF StepsLeft

\* A step that returns, waits or sleeps, for the same request.
LEMMA SameRequestRunsOut ==
    ASSUME TypeOK, TypeOK', request' = request,
           \/ pc = "connect" /\ pc' \in {"await", "done"}
           \/ pc = "await" /\ pc' \in {"sleep", "done"}
    PROVE  0 <= StepsLeft' /\ StepsLeft' < StepsLeft
<1>1. ConnectionsLeft' = ConnectionsLeft /\ ConnectionsLeft \in Nat
  BY LeftType DEF ConnectionsLeft
<1>2. /\ pc' = "done" => StepsLeft' = 0
      /\ pc' = "await" => StepsLeft' = 4 * ConnectionsLeft' + 2
      /\ pc' = "sleep" => StepsLeft' = 4 * ConnectionsLeft' + 1
  BY DEF StepsLeft
<1> QED
  BY <1>1, <1>2, StepsType

\* A connection less is worth more than the steps within one.
LEMMA FewerSteps ==
    ASSUME NEW c \in Nat, NEW d \in Nat, d < c
    PROVE  0 <= 4 * d + 3 /\ 4 * d + 3 < 4 * c + 1 /\ 4 * d + 3 < 4 * c + 2
  OBVIOUS

\* A step that makes a new request with fewer connections left.
LEMMA NewRequestRunsOut ==
    ASSUME TypeOK, TypeOK', pc \in {"await", "sleep"}, pc' = "connect",
           ConnectionsLeft' < ConnectionsLeft, ConnectionsLeft' \in Nat
    PROVE  0 <= StepsLeft' /\ StepsLeft' < StepsLeft
<1>1. ConnectionsLeft \in Nat
  BY LeftType
<1>2. StepsLeft' = 4 * ConnectionsLeft' + 3
  BY DEF StepsLeft
<1>3. StepsLeft = 4 * ConnectionsLeft + 2 \/ StepsLeft = 4 * ConnectionsLeft + 1
  BY StepsType
<1> QED
  BY <1>1, <1>2, <1>3, FewerSteps

\* A retry.
LEMMA RetryRunsOut ==
    ASSUME SendInv, SendInv', Retries
    PROVE  0 <= StepsLeft' /\ StepsLeft' < StepsLeft
<1>1. /\ request.version = "C" /\ request.retries < max_retries
      /\ request' = [request EXCEPT !.retries = @ + 1] /\ request \in Request
      /\ pc = "sleep" /\ pc' = "connect"
  BY DEF SendInv, TypeOK, Retries, AttemptInv
<1>2. /\ request'.retries = request.retries + 1 /\ request'.depth = request.depth
      /\ request'.version = "C"
  BY <1>1 DEF Request
<1>3. ConnectionsLeft = Budget(MAX_REDIRECTS - request.depth)
                          + (max_retries - request.retries) + 1
  BY <1>1, LeftType DEF SendInv
<1>4. ConnectionsLeft' = Budget(MAX_REDIRECTS - request.depth)
                           + (max_retries - (request.retries + 1)) + 1
  BY <1>2 DEF ConnectionsLeft, Budget
<1>5. Budget(MAX_REDIRECTS - request.depth) \in Nat
  BY <1>1, LeftType, BudgetStep DEF SendInv
<1>6. ConnectionsLeft' \in Nat /\ ConnectionsLeft' < ConnectionsLeft
  BY <1>1, <1>3, <1>4, <1>5, RequestType, ClientSendAssumption DEF SendInv
<1> QED
  BY <1>1, <1>6, NewRequestRunsOut DEF SendInv

\* A redirect that is followed: it gives the retries back, but they were paid for.
LEMMA RedirectRunsOut ==
    ASSUME SendInv, SendInv', FollowsRedirect
    PROVE  0 <= StepsLeft' /\ StepsLeft' < StepsLeft
<1>1. CASE request' = request
  <2>1. \A h \in Hosts : request # Redirected(h)
    BY RequestType DEF SendInv, Redirected, NewRequest
  <2>2. pc = "await" /\ pc' = "done"
    BY <1>1, <2>1 DEF FollowsRedirect, Answered, Return
  <2> QED
    BY <1>1, <2>2, SameRequestRunsOut DEF SendInv
<1>2. CASE request' # request
  <2>1. /\ request.version = "C" /\ request.depth < MAX_REDIRECTS
        /\ pc = "await" /\ pc' = "connect"
    BY <1>2, RequestType, ClientSendAssumption DEF SendInv, FollowsRedirect, Answered
  <2>2. PICK h \in Hosts : request' = Redirected(h)
    BY <1>2 DEF FollowsRedirect
  <2>3. /\ request'.retries = 0 /\ request'.depth = request.depth + 1
        /\ request'.version = "C"
    BY <2>2 DEF Redirected, NewRequest
  <2> DEFINE d == MAX_REDIRECTS - (request.depth + 1)
  <2>4. d \in Nat /\ MAX_REDIRECTS - request.depth = d + 1
    BY <2>1, RequestType, ClientSendAssumption DEF SendInv
  <2>5. Budget(d) \in Nat /\ Budget(d + 1) = Budget(d) + max_retries + 1
    BY <2>4, BudgetStep
  <2>6. ConnectionsLeft = Budget(d + 1) + (max_retries - request.retries) + 1
    BY <2>1, <2>4, LeftType DEF SendInv
  <2>7. ConnectionsLeft' = Budget(d) + max_retries + 1
    <3>1. ConnectionsLeft' = d * (max_retries + 1) + (max_retries - 0) + 1
      BY <2>3 DEF ConnectionsLeft
    <3>2. max_retries - 0 = max_retries
      BY ClientSendAssumption
    <3> QED
      BY <3>1, <3>2 DEF Budget
  <2> HIDE DEF d
  <2>8. ConnectionsLeft' \in Nat /\ ConnectionsLeft' < ConnectionsLeft
    BY <2>5, <2>6, <2>7, RequestType, ClientSendAssumption DEF SendInv
  <2> QED
    BY <2>1, <2>8, NewRequestRunsOut DEF SendInv
<1> QED
  BY <1>1, <1>2

\* The fallback is the last connection.
LEMMA FallBackRunsOut ==
    ASSUME SendInv, SendInv', FallsBack
    PROVE  0 <= StepsLeft' /\ StepsLeft' < StepsLeft
<1>1. request.version = "C" /\ pc = "await" /\ request \in Request
  BY DEF FallsBack, MayFallBack, Answered, SendInv, TypeOK
<1>2. CASE config.fits
  <2>1. pc' = "connect" /\ request' = [request EXCEPT !.version = "B"]
    BY <1>2 DEF FallsBack
  <2>2. request'.version = "B"
    BY <1>1, <2>1 DEF Request
  <2>3. ConnectionsLeft' = 0
    BY <2>2 DEF ConnectionsLeft
  <2>4. ConnectionsLeft > 0
    <3>1. MAX_REDIRECTS - request.depth \in Nat
      BY <1>1, LeftType DEF SendInv
    <3>2. Budget(MAX_REDIRECTS - request.depth) \in Nat
      BY <3>1, BudgetStep
    <3>3. ConnectionsLeft = Budget(MAX_REDIRECTS - request.depth)
                              + (max_retries - request.retries) + 1
      BY <1>1, LeftType DEF SendInv
    <3> QED
      BY <3>2, <3>3, RequestType, ClientSendAssumption DEF SendInv
  <2> QED
    BY <1>1, <2>1, <2>3, <2>4, NewRequestRunsOut DEF SendInv
<1>3. CASE ~config.fits
  <2>1. pc' = "done" /\ request' = request
    BY <1>3 DEF FallsBack, Return
  <2> QED
    BY <1>1, <2>1, SameRequestRunsOut DEF SendInv
<1> QED
  BY <1>2, <1>3

\* Every step of a send leaves it fewer steps, and nothing else changes their
\* number: a send stops by itself, for any number of hosts, retries and
\* redirects.
THEOREM SendRunsOut == Spec => StepsRunOut
<1>1. ASSUME SendInv, SendInv', ClientStep
      PROVE  0 <= StepsLeft' /\ StepsLeft' < StepsLeft
  <2>1. CASE ConnectionFails \/ Connects
    <3>1. pc = "connect" /\ pc' \in {"await", "done"} /\ request' = request
      BY <2>1 DEF ConnectionFails, Connects, TimesOut, Return
    <3> QED
      BY <1>1, <3>1, SameRequestRunsOut DEF SendInv
  <2>2. CASE GivesUp \/ SlowsDown \/ EmptyRedirect \/ MalformedRedirect \/ ReturnsAnswer
    <3>1. pc = "await" /\ pc' \in {"sleep", "done"} /\ request' = request
      BY <2>2 DEF GivesUp, SlowsDown, EmptyRedirect, MalformedRedirect, ReturnsAnswer,
                  Answered, TimesOut, Return
    <3> QED
      BY <1>1, <3>1, SameRequestRunsOut DEF SendInv
  <2> QED
    BY <1>1, <2>1, <2>2, RetryRunsOut, RedirectRunsOut, FallBackRunsOut DEF ClientStep
<1>2. ASSUME [Next]_vars, ~ClientStep
      PROVE  StepsLeft' = StepsLeft
  <2>1. pc' = pc /\ request' = request
    BY <1>2 DEF Next, HostHandles, CertificateChanges, vars
  <2> QED
    BY <2>1 DEF StepsLeft, ConnectionsLeft
<1>3. SendInv /\ SendInv' /\ [Next]_vars =>
        [IF ClientStep THEN 0 <= StepsLeft' /\ StepsLeft' < StepsLeft
                       ELSE StepsLeft' = StepsLeft]_vars
  BY <1>1, <1>2
<1> QED
  BY <1>3, SendInvariant, PTL DEF Spec, StepsRunOut

-----------------------------------------------------------------------------
(* A send implements OneSend *)

\* A success that was answered has a copy; a result is the answer to the last
\* request, or there was none; and two hosts at most report a failure.
AnswerInv ==
    /\ conn = "success" => copies > 0
    /\ result = "success" => conn = "success"
    /\ result # "bad redirect"
    /\ failures <= 2
    /\ request.version = "B" /\ (pc = "connect" \/ conn = "sent") => failures <= 1

\* Each step preserves it.
LEMMA AnswerStep ==
    ASSUME SendInv, AnswerInv, [Next]_vars
    PROVE  AnswerInv'
<1>1. copies \in Nat /\ failures \in Nat
  BY RequestType DEF SendInv
<1>2. CASE ConnectionFails \/ Connects
  BY <1>2 DEF ConnectionFails, Connects, TimesOut, Return, SendInv, ResultInv, AnswerInv
<1>3. CASE GivesUp \/ SlowsDown \/ EmptyRedirect \/ MalformedRedirect \/ ReturnsAnswer
  <2>1. /\ pc = "await" /\ pc' # "connect" /\ result = "none"
        /\ result' = "success" => conn = "success"
        /\ result' # "bad redirect"
        /\ UNCHANGED <<request, conn, copies, failures>>
    BY <1>3 DEF GivesUp, SlowsDown, EmptyRedirect, MalformedRedirect, ReturnsAnswer,
                Answered, TimesOut, Return, SendInv, ResultInv
  <2> QED
    BY <2>1 DEF AnswerInv
<1>4. CASE Retries
  <2>1. /\ request.version = "C" /\ request \in Request
        /\ request' = [request EXCEPT !.retries = @ + 1]
    BY <1>4 DEF SendInv, TypeOK, Retries, AttemptInv
  <2>2. request'.version = "C"
    BY <2>1 DEF Request
  <2> QED
    BY <1>4, <2>2 DEF Retries, AnswerInv
<1>5. CASE FollowsRedirect
  <2>1. conn = "redirect" /\ UNCHANGED <<conn, copies, failures>>
    BY <1>5 DEF FollowsRedirect, Answered
  <2>2. \/ request' = request /\ pc' = "done" /\ result' \in {"redirect", "other"}
        \/ request'.version = "C" /\ result' = result
    BY <1>5 DEF FollowsRedirect, Redirected, NewRequest, Return
  <2> QED
    BY <2>1, <2>2 DEF AnswerInv
<1>6. CASE FallsBack
  <2>1. /\ request.version = "C" /\ conn \in {"failure", "rejected"}
        /\ result' \in {result, "rejected"}
        /\ UNCHANGED <<conn, copies, failures>>
    BY <1>6 DEF FallsBack, MayFallBack, Answered, FallbackAnswers, Return
  <2>2. failures <= 1
    BY <1>1, <2>1 DEF SendInv, CopyInv
  <2> QED
    BY <1>1, <2>1, <2>2 DEF AnswerInv
<1>7. ASSUME NEW a \in Answers, NEW stored \in BOOLEAN, HostHandles(a, stored)
      PROVE  AnswerInv'
  <2>1. failures <= 1
    <3>1. conn = "sent"
      BY <1>7 DEF HostHandles
    <3>2. CASE request.version = "C"
      BY <1>1, <3>1, <3>2 DEF SendInv, CopyInv
    <3>3. CASE request.version = "B"
      BY <3>1, <3>3 DEF AnswerInv
    <3> QED
      BY <3>2, <3>3, RequestType DEF SendInv
  <2>2. /\ conn = "sent" /\ conn' = a /\ a # "sent" /\ result' = result /\ request' = request
        /\ failures' \in {failures, failures + 1} /\ copies' \in {copies, copies + 1}
        /\ a = "success" => copies' = copies + 1
    BY <1>7 DEF HostHandles, Answers
  <2>3. pc # "connect" /\ pc' = pc
    BY <1>7 DEF HostHandles, SendInv, CopyInv
  <2>4. conn' = "success" => copies' > 0
    BY <1>1, <2>2
  <2>5. failures' <= 2
    BY <1>1, <2>1, <2>2
  <2>6. result' # "success" /\ result' # "bad redirect"
    BY <2>2 DEF AnswerInv
  <2>7. pc' # "connect" /\ conn' # "sent"
    BY <2>2, <2>3
  <2> QED
    BY <2>4, <2>5, <2>6, <2>7 DEF AnswerInv
<1>8. ASSUME NEW h \in Hosts, CertificateChanges(h)
      PROVE  AnswerInv'
  BY <1>8 DEF CertificateChanges, AnswerInv
<1>9. CASE UNCHANGED vars
  BY <1>9 DEF vars, AnswerInv
<1> QED
  BY <1>2, <1>3, <1>4, <1>5, <1>6, <1>7, <1>8, <1>9 DEF Next, ClientStep

\* A step that leaves the result and the counts alone is none of OneSend.
LEMMA Stutters ==
    ASSUME UNCHANGED <<result, copies, failures>>
    PROVE  [Promise!Next]_(Promise!vars)
BY DEF Promise!vars

\* A step that returns.
LEMMA ReturnsTruth ==
    ASSUME NEW r \in {"exception"} \cup Answers, result = "none", result' = r,
           UNCHANGED <<copies, failures>>,
           r = "success" => copies > 0,
           r \in Refusals => copies <= failures,
           r # "bad redirect"
    PROVE  [Promise!Next]_(Promise!vars)
<1>1. r \in {"success"} \cup Promise!Refusals \cup Promise!Unknown
  BY DEF Answers, Promise!Refusals, Promise!Unknown
<1>2. Promise!Return(r)
  BY DEF Promise!Return, Promise!Refusals, Refusals
<1> QED
  BY <1>1, <1>2 DEF Promise!Next

\* Each step is a step of OneSend, or none.
LEMMA PromiseStep ==
    ASSUME SendInv, AnswerInv, [Next]_vars
    PROVE  [Promise!Next]_(Promise!vars)
<1>1. copies \in Nat /\ failures \in Nat
  BY RequestType DEF SendInv
<1>2. CASE ConnectionFails \/ Connects
  <2>1. result = "none" /\ UNCHANGED <<copies, failures>>
    BY <1>2 DEF ConnectionFails, Connects, SendInv, ResultInv
  <2>2. result' = result \/ result' \in {"exception", "failure"}
    BY <1>2 DEF ConnectionFails, Connects, TimesOut, Return
  <2>3. {"exception", "failure"} \subseteq {"exception"} \cup Answers
    BY DEF Answers
  <2> QED
    BY <2>1, <2>2, <2>3, Stutters, ReturnsTruth DEF Refusals
<1>3. CASE GivesUp \/ SlowsDown \/ EmptyRedirect \/ MalformedRedirect \/ ReturnsAnswer
           \/ FollowsRedirect \/ FallsBack \/ Retries
  <2>1. result = "none" /\ UNCHANGED <<conn, copies, failures>>
    BY <1>3 DEF GivesUp, SlowsDown, EmptyRedirect, MalformedRedirect, ReturnsAnswer,
                FollowsRedirect, FallsBack, Retries, Answered, SendInv, ResultInv
  <2>2. \/ result' = result
        \/ result' = "success" /\ conn = "success"
        \/ result' \in Refusals /\ conn \notin {"sent", "success"}
        \/ result' \in {"exception", "failure"}
    <3>1. CASE GivesUp \/ SlowsDown \/ Retries
      BY <3>1 DEF GivesUp, SlowsDown, Retries, Answered, TimesOut, Return, Refusals
    <3>2. CASE EmptyRedirect \/ MalformedRedirect \/ FollowsRedirect
      BY <3>2 DEF EmptyRedirect, MalformedRedirect, FollowsRedirect, Answered, Return,
                  Refusals
    <3>3. CASE FallsBack
      BY <3>3 DEF FallsBack, FallbackAnswers, Answered, Return, Refusals
    <3>4. CASE ReturnsAnswer
      BY <3>4 DEF ReturnsAnswer, Answers, Answered, Return, Refusals
    <3> QED
      BY <1>3, <3>1, <3>2, <3>3, <3>4
  <2>3. conn \notin {"sent", "success"} => copies <= failures
    BY <1>1 DEF SendInv, CopyInv
  <2>4. conn = "success" => copies > 0
    BY DEF AnswerInv
  <2>5. /\ {"exception", "failure", "success"} \cup Refusals
             \subseteq {"exception"} \cup Answers
        /\ "bad redirect" \notin {"exception", "failure", "success"} \cup Refusals
        /\ "success" \notin Refusals /\ "failure" \notin Refusals
        /\ "exception" \notin Refusals
    BY DEF Answers, Refusals
  <2>6. CASE result' = result
    BY <2>1, <2>6, Stutters
  <2>7. CASE result' = "success" /\ conn = "success"
    BY <2>1, <2>4, <2>5, <2>7, ReturnsTruth
  <2>8. CASE result' \in Refusals /\ conn \notin {"sent", "success"}
    BY <2>1, <2>3, <2>5, <2>8, ReturnsTruth
  <2>9. CASE result' \in {"exception", "failure"}
    BY <2>1, <2>5, <2>9, ReturnsTruth
  <2> QED
    BY <2>2, <2>6, <2>7, <2>8, <2>9
<1>4. ASSUME NEW a \in Answers, NEW stored \in BOOLEAN, HostHandles(a, stored)
      PROVE  [Promise!Next]_(Promise!vars)
  <2>1. /\ conn = "sent" /\ result' = result
        /\ copies' = IF stored THEN copies + 1 ELSE copies
        /\ failures' = IF a = "failure" THEN failures + 1 ELSE failures
    BY <1>4 DEF HostHandles
  <2>2. copies <= failures /\ copies < 2
    <3>1. copies <= failures
      BY <1>1, <2>1 DEF SendInv, CopyInv
    <3>2. copies <= 1
      BY <1>1, <2>1, RequestType DEF SendInv, CopyInv
    <3> QED
      BY <1>1, <3>1, <3>2
  <2>3. failures < 2
    <3>1. CASE request.version = "C"
      BY <1>1, <2>1, <3>1 DEF SendInv, CopyInv
    <3>2. CASE request.version = "B"
      <4>1. failures <= 1
        BY <2>1, <3>2 DEF AnswerInv
      <4> QED
        BY <1>1, <4>1
    <3> QED
      BY <3>1, <3>2, RequestType DEF SendInv
  <2>4. result \in {"none"} \cup Promise!Unknown
    <3>1. result # "success" /\ result \notin Refusals /\ result # "bad redirect"
      BY <2>1 DEF SendInv, ResultInv, AnswerInv
    <3>2. result \in {"none", "exception"} \cup Answers
      BY DEF SendInv, TypeOK
    <3> QED
      BY <3>1, <3>2 DEF Answers, Refusals, Promise!Unknown
  <2>5. CASE stored \/ a = "failure"
    <3> DEFINE failed == a = "failure"
    <3>1. failed \in BOOLEAN
      OBVIOUS
    <3>2. Promise!Handle(stored, failed)
      BY <2>1, <2>2, <2>3, <2>4, <2>5 DEF Promise!Handle
    <3> QED
      BY <3>1, <3>2 DEF Promise!Next
  <2>6. CASE ~stored /\ a # "failure"
    BY <2>1, <2>6, Stutters
  <2> QED
    BY <2>5, <2>6
<1>5. ASSUME NEW h \in Hosts, CertificateChanges(h)
      PROVE  [Promise!Next]_(Promise!vars)
  BY <1>5, Stutters DEF CertificateChanges
<1>6. CASE UNCHANGED vars
  BY <1>6, Stutters DEF vars
<1> QED
  BY <1>2, <1>3, <1>4, <1>5, <1>6 DEF Next, ClientStep

\* What a send tells its caller about the copies of the message is true when it
\* returns and stays true, whatever its hosts do later.
THEOREM SendIsOneSend == Spec => ImplementsOneSend
<1>1. Init => Promise!Init
  BY DEF Init, Promise!Init
<1>2. Init => AnswerInv
  <2>1. ASSUME Init
        PROVE  AnswerInv
    BY <2>1 DEF Init, AnswerInv
  <2> QED
    BY <2>1
<1>3. SendInv /\ AnswerInv /\ [Next]_vars => AnswerInv'
  BY AnswerStep
<1>4. SendInv /\ AnswerInv /\ [Next]_vars => [Promise!Next]_(Promise!vars)
  BY PromiseStep
<1> QED
  BY <1>1, <1>2, <1>3, <1>4, SendInvariant, PTL DEF Spec, ImplementsOneSend, Promise!Spec
=============================================================================
