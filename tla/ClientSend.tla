------------------------------ MODULE ClientSend ------------------------------
(***************************************************************************)
(* One call of MisfinClient.send (client/session.py): the connections it   *)
(* makes to deliver a message, and what it makes of the answers.  The CLI, *)
(* list forwarding, auto-replies and confirmations all send this way.      *)
(*                                                                         *)
(* The hosts are the environment: they may be down, silent, slow, redirect *)
(* the message in a circle, or answer "temporary failure" for a message    *)
(* they have stored (the server does, if an exception follows the write).  *)
(* A host that has a request handles it whether or not the client waits.   *)
(***************************************************************************)
EXTENDS Integers

CONSTANTS
    Hosts,          \* names of hosts
    max_retries,    \* retries of a request that is answered "slow down"
    MAX_REDIRECTS   \* protocol/constants.py

ASSUME ClientSendAssumption == max_retries \in Nat /\ MAX_REDIRECTS \in Nat

VARIABLES
    config,     \* misfin_b_fallback; is there a TOFU database; does the
                \* message fit into a Misfin(B) request (to_bytes_b)?
    certificate,\* certificate[h]: what the TOFU database would say of the
                \* certificate h has now: "first_use", "ok" or "changed"
    pc,         \* what the call does next: "connect", "await", "sleep", "done"
    request,    \* the request being sent
    conn,       \* the last connection: "none", "sent" (the request is
                \* written) or the answer to it
    result,     \* what the call returned or raised
    \* Of these the client keeps no record.
    attempts,   \* connections made or tried
    copies,     \* number of times a host has stored the message
    failures    \* number of "temporary failure" answers given by hosts

vars == <<config, certificate, pc, request, conn, result, attempts, copies, failures>>

\* The statuses send tells apart: 20; 30 and 31 with and without a usable
\* address; 44; 40; 59 and 60; and all others.
Answers == {"success", "redirect", "bad redirect", "slow down", "failure", "rejected",
            "other"}

\* _B_FALLBACK_STATUSES
FallbackAnswers == {"failure", "rejected"}

Request == [host : Hosts, version : {"C", "B"}, retries : 0..max_retries,
            depth : 0..MAX_REDIRECTS]

NewRequest(h, depth) == [host |-> h, version |-> "C", retries |-> 0, depth |-> depth]

Init ==
    /\ config \in [fallback : BOOLEAN, tofu : BOOLEAN, fits : BOOLEAN]
    /\ certificate \in [Hosts -> {"first_use", "ok", "changed"}]
    /\ pc = "connect"
    /\ request \in {NewRequest(h, 0) : h \in Hosts}
    /\ conn = "none"
    /\ result = "none"
    /\ attempts = 0 /\ copies = 0 /\ failures = 0

Return(r) == pc' = "done" /\ result' = r

\* Faulty fallback: no answer in time is taken for a refusal.
TimesOut_Rejected == Return(IF request.version = "C" THEN "exception" ELSE "rejected")

\* A request that gets no connection, or no answer in time: an exception for
\* Misfin(C), the status 40 for the Misfin(B) fallback.
TimesOut == Return(IF request.version = "C" THEN "exception" ELSE "failure")

-----------------------------------------------------------------------------
(* _send_request_once and _send_request_b *)

\* create_connection fails or times out.
ConnectionFails ==
    /\ pc = "connect"
    /\ attempts' = attempts + 1
    /\ TimesOut
    /\ UNCHANGED <<config, certificate, request, conn, copies, failures>>

\* The request is written as soon as the connection is made, and only then
\* the certificate is looked up; the fallback does not look it up.
Connects ==
    /\ pc = "connect"
    /\ attempts' = attempts + 1
    /\ conn' = "sent"
    /\ IF config.tofu /\ request.version = "C"
         THEN /\ IF certificate[request.host] = "changed"
                   THEN Return("exception")
                   ELSE pc' = "await" /\ UNCHANGED result
              /\ certificate' = [certificate EXCEPT ![request.host] =
                                   IF @ = "first_use" THEN "ok" ELSE @]
         ELSE pc' = "await" /\ UNCHANGED <<result, certificate>>
    /\ UNCHANGED <<config, request, copies, failures>>

\* Faulty timeout: the answer to the fallback is awaited for ever.
GivesUp_OnlyC ==
    /\ pc = "await"
    /\ request.version = "C"
    /\ TimesOut \/ Return("exception")
    /\ UNCHANGED <<config, certificate, request, conn, attempts, copies, failures>>

\* The timeout; or the connection is lost before an answer, or the answer
\* cannot be parsed, which raises an exception in either format.
GivesUp ==
    /\ pc = "await"
    /\ TimesOut \/ Return("exception")
    /\ UNCHANGED <<config, certificate, request, conn, attempts, copies, failures>>

-----------------------------------------------------------------------------
(* _send_request: what is done with an answer *)

Answered(a) == pc = "await" /\ conn = a

\* Faulty limit: the count of retries is never exceeded.
MayRetry_Always == TRUE

MayRetry == request.retries < max_retries

\* Wait, and try the same host again; in the end return the 44.
SlowsDown ==
    /\ Answered("slow down")
    /\ IF request.version = "C" /\ MayRetry
         THEN pc' = "sleep" /\ UNCHANGED result
         ELSE Return("slow down")
    /\ UNCHANGED <<config, certificate, request, conn, attempts, copies, failures>>

\* Faulty retry: it is not counted.
Retries_Uncounted ==
    /\ pc = "sleep"
    /\ pc' = "connect"
    /\ UNCHANGED <<config, certificate, request, conn, result, attempts, copies, failures>>

Retries ==
    /\ pc = "sleep"
    /\ pc' = "connect"
    /\ request' = [request EXCEPT !.retries = @ + 1]
    /\ UNCHANGED <<config, certificate, conn, result, attempts, copies, failures>>

\* Faulty redirect: the new request starts to count from nought.
Redirected_Afresh(h) == NewRequest(h, 0)

Redirected(h) == NewRequest(h, request.depth + 1)

FollowsRedirect ==
    /\ Answered("redirect")
    /\ IF request.version = "B"
         THEN Return("redirect") /\ UNCHANGED request
         ELSE IF request.depth >= MAX_REDIRECTS
           THEN Return("other") /\ UNCHANGED request
           ELSE /\ \E h \in Hosts : request' = Redirected(h)
                /\ pc' = "connect" /\ UNCHANGED result
    /\ UNCHANGED <<config, certificate, conn, attempts, copies, failures>>

\* Without an address the redirect is the result.
EmptyRedirect ==
    /\ Answered("bad redirect")
    /\ Return("redirect")
    /\ UNCHANGED <<config, certificate, request, conn, attempts, copies, failures>>

\* With something that is no address, send_raw raises ValueError.
MalformedRedirect ==
    /\ Answered("bad redirect")
    /\ request.version = "C"
    /\ Return(IF request.depth >= MAX_REDIRECTS THEN "other" ELSE "exception")
    /\ UNCHANGED <<config, certificate, request, conn, attempts, copies, failures>>

MayFallBack == config.fallback /\ request.version = "C"

\* Send it again, once, as Misfin(B).
FallsBack ==
    /\ \E a \in FallbackAnswers : Answered(a)
    /\ MayFallBack
    /\ IF config.fits
         THEN /\ pc' = "connect"
              /\ request' = [request EXCEPT !.version = "B"]
              /\ UNCHANGED result
         ELSE Return("rejected") /\ UNCHANGED request
    /\ UNCHANGED <<config, certificate, conn, attempts, copies, failures>>

ReturnsAnswer ==
    /\ \E a \in Answers \ {"redirect", "bad redirect", "slow down"} :
         /\ Answered(a)
         /\ a \in FallbackAnswers => ~MayFallBack
         /\ Return(a)
    /\ UNCHANGED <<config, certificate, request, conn, attempts, copies, failures>>

-----------------------------------------------------------------------------
(* The environment *)

\* A host that answers "success" has stored the message, one that answers
\* "failure" may have; others have not.
HostHandles(a, stored) ==
    /\ conn = "sent"
    /\ a = "success" => stored
    /\ a \notin {"success", "failure"} => ~stored
    /\ conn' = a
    /\ copies' = IF stored THEN copies + 1 ELSE copies
    /\ failures' = IF a = "failure" THEN failures + 1 ELSE failures
    /\ UNCHANGED <<config, certificate, pc, request, result, attempts>>

\* A host has a new certificate.
CertificateChanges(h) ==
    /\ certificate[h] = "ok"
    /\ certificate' = [certificate EXCEPT ![h] = "changed"]
    /\ UNCHANGED <<config, pc, request, conn, result, attempts, copies, failures>>

-----------------------------------------------------------------------------

ClientStep ==
    \/ ConnectionFails \/ Connects \/ GivesUp
    \/ SlowsDown \/ Retries
    \/ FollowsRedirect \/ EmptyRedirect \/ MalformedRedirect
    \/ FallsBack \/ ReturnsAnswer

Next ==
    \/ ClientStep
    \/ \E a \in Answers, stored \in BOOLEAN : HostHandles(a, stored)
    \/ \E h \in Hosts : CertificateChanges(h)

Spec == Init /\ [][Next]_vars

\* The event loop runs the call; every await of it has a timeout.  Nothing
\* is asked of the hosts.
FairSpec == Spec /\ WF_vars(ClientStep)

-----------------------------------------------------------------------------
(* Properties *)

TypeOK ==
    /\ config \in [fallback : BOOLEAN, tofu : BOOLEAN, fits : BOOLEAN]
    /\ certificate \in [Hosts -> {"first_use", "ok", "changed"}]
    /\ pc \in {"connect", "await", "sleep", "done"}
    /\ request \in Request
    /\ conn \in {"none", "sent"} \cup Answers
    /\ result \in {"none", "exception"} \cup Answers
    /\ attempts \in Nat /\ copies \in Nat /\ failures \in Nat

\* However hosts mix redirects, "slow down" and failures, a send makes no
\* more connections than one per redirect and retry, and one for the fallback.
AttemptsBounded == attempts <= (MAX_REDIRECTS + 1) * (max_retries + 1) + 1

\* A message is stored twice only if a host that had stored it answered
\* "temporary failure", and then once more at most: no retry, redirect or
\* timeout makes a second copy.
NoUnexplainedCopy == copies <= 1 + failures /\ copies <= 2

\* A send that is reported as refused has stored nothing, unless a host gave
\* a "temporary failure" on the way.
RefusedIsNotStored ==
    result \in {"rejected", "slow down", "redirect", "other"} /\ failures = 0 => copies = 0

Promise == INSTANCE OneSend

\* What a send tells its caller is true and stays true: after a success there
\* is a copy, after a refusal none but those a host misreported, and after
\* either no host stores the message any more, however late it answers; only
\* an exception or a failure leaves that open.
ImplementsOneSend == Promise!Spec

\* The connections a send may still make, after the one it is at.
ConnectionsLeft ==
    IF request.version = "B" THEN 0
      ELSE (MAX_REDIRECTS - request.depth) * (max_retries + 1)
             + (max_retries - request.retries) + 1

\* The steps a send may still take: each connection is made, awaited, and
\* slept after.
StepsLeft ==
    IF pc = "done" THEN 0
      ELSE 4 * ConnectionsLeft
             + CASE pc = "connect" -> 3 [] pc = "await" -> 2 [] pc = "sleep" -> 1

\* No send goes on for ever: each of its steps leaves it fewer, however hosts
\* mix redirects, "slow down" and failures, and nothing that hosts do gives it
\* more.
StepsRunOut ==
    [][IF ClientStep THEN 0 <= StepsLeft' /\ StepsLeft' < StepsLeft
                     ELSE StepsLeft' = StepsLeft]_vars

\* Every send ends, also with silent hosts, and redirects in a circle.
SendEnds == <>(pc = "done")
=============================================================================
