------------------------------ MODULE MCMailFlow ------------------------------
(* Small instances of MailFlow: two servers, on each a list and a person.    *)
(* The first server's own address has a mailbox, the second one's has none.  *)
EXTENDS MailFlow

CONSTANTS s1, s2, alice, bob, dev, news, post1, post2

TwoServers == {s1, s2}
TheLists == {dev, news}
TheMailboxes == {alice, bob, dev, news, post1}
TheAddresses == TheMailboxes \cup {post2}
ServerOfAddress == [a \in TheAddresses |-> IF a \in {alice, dev, post1} THEN s1 ELSE s2]
IdentityOf == [s \in TwoServers |-> IF s = s1 THEN post1 ELSE post2]
NobodyBlocked == [b \in TheMailboxes |-> {}]
AliceBlocksNews == [NobodyBlocked EXCEPT ![alice] = {news}]

\* Bob is on both lists, the lists are on each other, and Alice may join.
Crossed == {[l \in TheLists |-> IF l = dev THEN {bob, news} ELSE {bob, dev}]}

\* The people are away, and the server's own mailbox, or a list.
SomeAway == {{alice, bob, post1}, {news}}

Text(to, from, named, text, version) ==
    [to |-> to, from |-> from, senders |-> {from, bob}, named |-> named, auto |-> FALSE,
     text |-> text, version |-> version]

\* Alice and Bob post to a list, and Bob writes to Alice.
ByOthers ==
    {Text(dev, alice, FALSE, "split", "C"), Text(dev, bob, FALSE, "metadata", "C"),
     Text(alice, bob, TRUE, "plain", "B")}
=============================================================================
