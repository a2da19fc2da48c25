--------------------------- MODULE ListMembership ----------------------------
(***************************************************************************)
(* What a mailing list promises about who is on it: abstract specification *)
(* of Subscription.  Every operation takes effect at once.  An invitation  *)
(* is what a confirmation token stands for; it is used up when its address *)
(* joins, and lost only to a confirmation that somebody else sent or to a  *)
(* crash.  The promise is for operations that run one after the other; it  *)
(* says nothing of a list whose operations have overlapped.                *)
(***************************************************************************)
EXTENDS Naturals

CONSTANTS Lists, Addresses

VARIABLES
    members,    \* members[l]: the addresses that get l's messages
    invited,    \* pairs of a list and an address that may confirm
    refused,    \* how many invitations somebody else has used up
    crashes,    \* how many operations have been cut short
    overlaps    \* 0 as long as no two operations ran at the same time

vars == <<members, invited, refused, crashes, overlaps>>

Init ==
    /\ members = [l \in Lists |-> {}]
    /\ invited = {}
    /\ refused = 0
    /\ crashes = 0
    /\ overlaps = 0

Enters(l, a) == members' = [members EXCEPT ![l] = @ \cup {a}]

Goes(l, a) == members' = [members EXCEPT ![l] = @ \ {a}]

\* Only somebody who is not on the list is invited.
Invite(l, a) ==
    /\ a \notin members[l]
    /\ invited' = invited \cup {<<l, a>>}
    /\ UNCHANGED <<members, refused, crashes>>

\* An invitation is answered.
Join(l, a) ==
    /\ <<l, a>> \in invited
    /\ invited' = invited \ {<<l, a>>}
    /\ Enters(l, a)
    /\ UNCHANGED <<refused, crashes>>

\* Somebody else shows the invitation: nobody joins, and it is used up.
Spend(l, a) ==
    /\ <<l, a>> \in invited
    /\ invited' = invited \ {<<l, a>>}
    /\ refused' = refused + 1
    /\ UNCHANGED <<members, crashes>>

\* The administrator puts an address on the list; its invitation stays.
Grant(l, a) ==
    /\ a \notin members[l]
    /\ Enters(l, a)
    /\ UNCHANGED <<invited, refused, crashes>>

\* A member leaves; an invitation it was sent meanwhile stays.
Leave(l, a) ==
    /\ a \in members[l]
    /\ Goes(l, a)
    /\ UNCHANGED <<invited, refused, crashes>>

\* The administrator takes an address off, and its invitation with it.
Remove(l, a) ==
    /\ invited' = invited \ {<<l, a>>}
    /\ Goes(l, a)
    /\ UNCHANGED <<refused, crashes>>

\* What an operation cut short may leave: all as it was, an invitation used
\* up, a member taken off whose invitation is still good, or an empty list.
Cut(l, a) ==
    /\ crashes' = crashes + 1
    /\ \/ UNCHANGED <<members, invited>>
       \/ invited' = invited \ {<<l, a>>} /\ UNCHANGED members
       \/ Goes(l, a) /\ UNCHANGED invited
       \/ members' = [members EXCEPT ![l] = {}] /\ UNCHANGED invited
    /\ UNCHANGED refused

OneAtATime ==
    \E l \in Lists, a \in Addresses :
        /\ \/ Invite(l, a) \/ Join(l, a) \/ Spend(l, a) \/ Grant(l, a)
           \/ Leave(l, a) \/ Remove(l, a) \/ Cut(l, a)
        /\ UNCHANGED overlaps

Overlapped == overlaps' > 0

Next == Overlapped \/ OneAtATime

Spec == Init /\ [][Next]_vars
===============================================================================
