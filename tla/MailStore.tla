------------------------------- MODULE MailStore -------------------------------
(***************************************************************************)
(* What a mailbox promises the senders and the user of it, whatever files  *)
(* it is made of: a message goes through its phases in one direction, and  *)
(* its sender is told once, of the phase it had reached.  A crash of the   *)
(* server leaves the message it was delivering as it is, and its sender    *)
(* waiting, for good.  Mailbox implements it.                              *)
(***************************************************************************)
CONSTANTS Names     \* names of messages

VARIABLES
    phase,      \* phase[n]: "none", "partial", "new", "read" or "gone"
    told,       \* told[n]: "nothing", "wait", "stored" or "failed"
    current     \* the message being delivered, or none

vars == <<phase, told, current>>

Init ==
    /\ phase = [n \in Names |-> "none"]
    /\ told = [n \in Names |-> "nothing"]
    /\ current = {}

\* A message comes, one at a time.
Create(n) ==
    /\ current = {}
    /\ phase[n] = "none" /\ told[n] = "nothing"
    /\ phase' = [phase EXCEPT ![n] = "partial"]
    /\ told' = [told EXCEPT ![n] = "wait"]
    /\ current' = {n}

\* Only the server completes it, while it is at it.
Fill(n) ==
    /\ n \in current
    /\ phase[n] = "partial"
    /\ phase' = [phase EXCEPT ![n] = "new"]
    /\ UNCHANGED <<told, current>>

\* The user reads it: only when it is whole.
Read(n) ==
    /\ phase[n] = "new"
    /\ phase' = [phase EXCEPT ![n] = "read"]
    /\ UNCHANGED <<told, current>>

\* The user deletes it, at any time; it does not come back.
Delete(n) ==
    /\ phase[n] \in {"partial", "new", "read"}
    /\ phase' = [phase EXCEPT ![n] = "gone"]
    /\ UNCHANGED <<told, current>>

\* The sender is told, once: of success only if the message was stored whole
\* or the user has deleted it, of a failure only if nobody will find it unread.
Tell(n, outcome) ==
    /\ n \in current
    /\ told[n] = "wait"
    /\ outcome = "stored" => phase[n] \in {"new", "read", "gone"}
    /\ outcome = "failed" => phase[n] \in {"read", "gone"}
    /\ told' = [told EXCEPT ![n] = outcome]
    /\ current' = {}
    /\ UNCHANGED phase

Crash ==
    /\ current' = {}
    /\ UNCHANGED <<phase, told>>

Next ==
    \/ \E n \in Names :
         \/ Create(n) \/ Fill(n) \/ Read(n) \/ Delete(n)
         \/ \E outcome \in {"stored", "failed"} : Tell(n, outcome)
    \/ Crash

Spec == Init /\ [][Next]_vars
===============================================================================
