------------------------------- MODULE Service --------------------------------
(***************************************************************************)
(* What a server promises the peer of one connection, whatever its         *)
(* protocol: abstract specification of ServerConnection and GmapConnection.*)
(*                                                                         *)
(* A peer that sends one request and not a byte more has it handled once   *)
(* at most, and not any more once it has been answered: if it is told of a *)
(* refusal, a failure or a timeout it can send the request again and have  *)
(* it handled only once.  A peer that sends more is promised less: one     *)
(* reply, no answer before its request has been handled, and that each     *)
(* byte too many has it handled once more at the worst.                    *)
(***************************************************************************)
EXTENDS Naturals

VARIABLES
    excess,     \* how many bytes the peer sends behind its one request
    handled,    \* how often its request has been handled
    reply,      \* what it has been sent: "none" or one of Replies
    over        \* nothing more will be sent

vars == <<excess, handled, reply, over>>

\* Those that say the request was not handled.
Refusals == {"denied", "bad request", "timeout"}

Replies == {"answer", "failure"} \cup Refusals

Init ==
    /\ excess \in Nat
    /\ handled = 0
    /\ reply = "none"
    /\ over = FALSE

MayHandle ==
    /\ handled <= excess
    /\ excess = 0 => reply = "none"

\* The request is handled, whether or not the peer still waits for it.
Handle ==
    /\ MayHandle
    /\ handled' = handled + 1
    /\ UNCHANGED <<excess, reply, over>>

Fits(r) ==
    /\ r = "answer" => handled' > 0
    /\ r \in Refusals /\ excess = 0 => handled' = 0

\* The one reply.
Reply(r) ==
    /\ ~over
    /\ reply' = r
    /\ Fits(r)
    /\ over' = TRUE
    /\ UNCHANGED <<excess, handled>>

\* The request is handled and answered at once.
HandleAndReply(r) ==
    /\ MayHandle
    /\ ~over
    /\ handled' = handled + 1
    /\ reply' = r
    /\ Fits(r)
    /\ over' = TRUE
    /\ UNCHANGED excess

\* It is handled when the reply cannot be sent any more, or the connection
\* ends without one.
GiveUp ==
    /\ over' = TRUE
    /\ UNCHANGED <<excess, handled, reply>>

Next ==
    \/ Handle
    \/ \E r \in Replies : Reply(r) \/ HandleAndReply(r)
    \/ GiveUp

Spec == Init /\ [][Next]_vars
===============================================================================
