-------------------------------- MODULE OneSend --------------------------------
(***************************************************************************)
(* What one call of MisfinClient.send promises its caller, who forwards    *)
(* mail, answers it or records a delivery by the result: how many copies of *)
(* the message there are, and whether that may still change.  ClientSend   *)
(* implements it.                                                          *)
(***************************************************************************)
EXTENDS Integers

VARIABLES
    result,     \* "none" while the call runs
    copies,     \* number of times a host has stored the message
    failures    \* number of "temporary failure" answers given by hosts

vars == <<result, copies, failures>>

\* Results that say that the message was not taken.
Refusals == {"rejected", "slow down", "redirect", "other"}

\* Results that say nothing of the message: a host may have it, or store it yet.
Unknown == {"exception", "failure"}

Init == result = "none" /\ copies = 0 /\ failures = 0

\* A host handles the message, as long as the caller has no definite result.
\* It stores it if all copies so far were reported as failures; a call asks
\* two hosts at most that can store it, the second by the fallback.
Handle(stored, failed) ==
    /\ result \in {"none"} \cup Unknown
    /\ stored \/ failed
    /\ stored => copies <= failures /\ copies < 2
    /\ failed => failures < 2
    /\ copies' = IF stored THEN copies + 1 ELSE copies
    /\ failures' = IF failed THEN failures + 1 ELSE failures
    /\ UNCHANGED result

\* A success means that there is a copy, a refusal that there is none but those
\* that were reported as failures.
Return(r) ==
    /\ result = "none"
    /\ r = "success" => copies > 0
    /\ r \in Refusals => copies <= failures
    /\ result' = r
    /\ UNCHANGED <<copies, failures>>

Next ==
    \/ \E stored, failed \in BOOLEAN : Handle(stored, failed)
    \/ \E r \in {"success"} \cup Refusals \cup Unknown : Return(r)

Spec == Init /\ [][Next]_vars
=============================================================================
