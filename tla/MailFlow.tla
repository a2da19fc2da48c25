------------------------------- MODULE MailFlow -------------------------------
(***************************************************************************)
(* What one message sets off: FileMailboxHandler.handle_message            *)
(* (server/handler.py) stores it, forwards it to the subscribers of a      *)
(* list and answers it for somebody who is away; what it sends arrives at  *)
(* a server that does the same.                                            *)
(*                                                                         *)
(* handle_message has no await, so a message is handled in one step; the   *)
(* sending is left to tasks.  A task waits for each of its sends, but as a *)
(* send may time out before the host handles the message, the next may     *)
(* follow at any time.  A client that is answered 40, 59 or 60 sends the   *)
(* message once more as Misfin(B), whose text is one line and all there is *)
(* (MisfinClient._send_request).  What is lost, or not sent after all, is  *)
(* on its way and never handled.                                           *)
(* Verification, connections, probes and messages without a certificate    *)
(* are left out, and of the subscription commands all but "unsubscribe".   *)
(***************************************************************************)
EXTENDS Integers

CONSTANTS
    Servers,
    Addresses,      \* all addresses, of people, lists and servers
    Mailboxes,      \* those that have a mailbox directory
    Lists,          \* those of the mailboxes with a subscribers.txt
    ServerOf,       \* the server of each address
    Identity,       \* address in the identity certificate of each server
    Blocked,        \* addresses in the .blocked file of each mailbox
    Archives,       \* servers with lists_archive
    Interval,       \* auto_reply_interval, in ticks
    Posts,          \* what people may send; see Message
    Subscriptions,  \* what the subscribers.txt files may be at first
    Absences,       \* which mailboxes may have an .auto-reply file at first
    Changing,       \* whose subscriptions and .auto-reply file change
    MaxTime, MaxPosts,
    MaxEvents       \* bounds; events are edits, failures and crashes

\* What a text does, or what it does once Misfin(B) has joined its lines to
\* one: "command" is just "unsubscribe", "split" becomes that ("#" and the
\* word on a line of its own), "metadata" begins like a metadata line of
\* Misfin(B) and is read as one, and "plain" stays what it is.
Texts == {"plain", "command", "split", "metadata", "empty"}

ASSUME MailFlowAssumption ==
    /\ Mailboxes \subseteq Addresses /\ Lists \subseteq Mailboxes
    /\ ServerOf \in [Addresses -> Servers]
    /\ Identity \in [Servers -> Addresses]
    /\ Blocked \in [Mailboxes -> SUBSET Addresses]
    /\ Archives \subseteq Servers
    /\ Interval \in Nat
    /\ Changing \subseteq Addresses
    /\ Posts \subseteq [to : Addresses, from : Addresses, senders : SUBSET Addresses,
                       named : BOOLEAN, auto : BOOLEAN, text : Texts, version : {"C", "B"}]
    /\ \A p \in Posts : p.from \in p.senders
    /\ Subscriptions \subseteq [Lists -> SUBSET Addresses]
    /\ Absences \subseteq SUBSET Mailboxes
    /\ {MaxTime, MaxPosts, MaxEvents} \subseteq Nat

VARIABLES
    now,
    subs,       \* subs[l]: addresses in l's subscribers.txt
    away,       \* mailboxes that have an .auto-reply file
    lastSent,   \* lastSent[s][a]: s's _auto_reply_last_sent for a, or Never
    mail,       \* messages on their way
    tasks,      \* forwards and replies that are being sent
    stored,     \* messages written to their mailboxes
    sends,      \* sends[a][b]: how often a has sent something to b
    count,      \* posts, and edits, failures and crashes, so far
    run,        \* run[s]: how often s has been started again
    \* This no server knows.
    accepted    \* messages answered 20, with what was decided about them

vars == <<now, subs, away, lastSent, mail, tasks, stored, sends, count, run, accepted>>

Never == -1

\* "from" is the certificate's address, the first of the senders.  "named": is
\* the addressee in the recipients; "auto": is "[Auto-Reply]" in the subject,
\* which a heading at the beginning is; "post" and "hops": which post the
\* message goes back to, and over how many messages; "id": which send it is,
\* and "of": which send it passes on or answers (for a post, itself).
\* A send has two messages at most, which differ in their version.
Send == [by : Addresses, to : Addresses, nr : Nat]

Message == [kind : {"post", "forward", "reply"}, to : Addresses, from : Addresses,
            senders : SUBSET Addresses, named : BOOLEAN, auto : BOOLEAN,
            text : Texts, version : {"C", "B"}, post : Nat, hops : Nat, id : Send, of : Send]

Task == [kind : {"forward", "reply"}, msg : Message, left : (SUBSET Addresses) \ {{}}]

Acceptance == [msg : Message, subs : SUBSET Addresses, at : Nat, run : Nat, replied : BOOLEAN]

Init ==
    /\ now = 0
    /\ subs \in Subscriptions
    /\ away \in Absences
    /\ lastSent = [s \in Servers |-> [a \in Addresses |-> Never]]
    /\ mail = {} /\ tasks = {} /\ stored = {}
    /\ sends = [a \in Addresses |-> [b \in Addresses |-> 0]]
    /\ count = [posts |-> 0, events |-> 0]
    /\ run = [s \in Servers |-> 0]
    /\ accepted = {}

-----------------------------------------------------------------------------
(* FileMailboxHandler.handle_message *)

IsList(m) == m.to \in Lists

IsBlocked(m) == m.senders \cap Blocked[m.to] # {}

\* Faulty posting check: the loop prevention is gone.
MayPost_Loops(m) == m.senders \cap subs[m.to] # {}

\* _check_list_posting: no loop, and one of the senders is a subscriber.
MayPost(m) == ~m.named /\ m.senders \cap subs[m.to] # {}

\* Nothing is a command outside a list.
IsCommand(m) == IsList(m) /\ m.text = "command"

Accepted(m) ==
    /\ m.to \in Mailboxes
    /\ ~IsBlocked(m)
    /\ ~IsCommand(m)
    /\ IsList(m) => MayPost(m)

Unsubscribes(m) ==
    /\ m.to \in Mailboxes
    /\ ~IsBlocked(m)
    /\ IsCommand(m)
    /\ m.from \in subs[m.to]

\* _should_auto_reply
ShouldAutoReply(m) ==
    /\ m.to \in away
    /\ ~m.auto
    /\ LET last == lastSent[ServerOf[m.to]][m.from]
       IN  last = Never \/ now - last >= Interval

ReplyTasks(m) ==
    IF ShouldAutoReply(m) THEN {[kind |-> "reply", msg |-> m, left |-> {m.from}]} ELSE {}

\* The subscribers are read once; the first sender is passed over.
ForwardTasks(m) ==
    IF IsList(m) /\ subs[m.to] \ {m.from} # {}
      THEN {[kind |-> "forward", msg |-> m, left |-> subs[m.to] \ {m.from}]}
      ELSE {}

\* A list's message is only stored in its archive.
Stores(m) == IsList(m) => ServerOf[m.to] \in Archives

\* Faulty accounting: the time of a reply is not taken when it is decided on.
Accept_RecordsLate(m) ==
    /\ m \in mail /\ Accepted(m)
    /\ mail' = mail \ {m}
    /\ stored' = IF Stores(m) THEN stored \cup {m} ELSE stored
    /\ tasks' = tasks \cup ReplyTasks(m) \cup ForwardTasks(m)
    /\ accepted' = accepted \cup
         {[msg |-> m, subs |-> IF IsList(m) THEN subs[m.to] ELSE {}, at |-> now,
           run |-> run[ServerOf[m.to]], replied |-> ReplyTasks(m) # {}]}
    /\ UNCHANGED <<now, subs, away, lastSent, sends, count, run>>

\* Store the message and start what it sets off.  The time of a reply is
\* taken now, before it is sent.
Accept(m) ==
    /\ m \in mail /\ Accepted(m)
    /\ mail' = mail \ {m}
    /\ stored' = IF Stores(m) THEN stored \cup {m} ELSE stored
    /\ tasks' = tasks \cup ReplyTasks(m) \cup ForwardTasks(m)
    /\ lastSent' = IF ShouldAutoReply(m)
                     THEN [lastSent EXCEPT ![ServerOf[m.to]][m.from] = now]
                     ELSE lastSent
    /\ accepted' = accepted \cup
         {[msg |-> m, subs |-> IF IsList(m) THEN subs[m.to] ELSE {}, at |-> now,
           run |-> run[ServerOf[m.to]], replied |-> ReplyTasks(m) # {}]}
    /\ UNCHANGED <<now, subs, away, sends, count, run>>

\* _handle_unsubscribe
HandleUnsubscribe(m) ==
    /\ m \in mail /\ Unsubscribes(m)
    /\ mail' = mail \ {m}
    /\ subs' = [subs EXCEPT ![m.to] = @ \ {m.from}]
    /\ UNCHANGED <<now, away, lastSent, tasks, stored, sends, count, run, accepted>>

\* Faulty Misfin(B): a line read as metadata stays in the text.
InB_KeepsLine(m) ==
    IF m.version = "B" \/ m.text = "empty" THEN {}
      ELSE {[m EXCEPT !.version = "B", !.senders = {m.from}, !.named = named,
                      !.text = IF @ = "split" THEN "command" ELSE @] :
              named \in IF m.text = "metadata" THEN BOOLEAN ELSE {TRUE}}

\* MisfinRequest.to_bytes_b drops the metadata; the text that is left may say
\* who the recipients are, or else the server names the addressee; an empty
\* one is refused whatever it is.  (A text that begins like a line of senders
\* adds one, for whom the message may be blocked.)
InB(m) ==
    IF m.version = "B" \/ m.text = "empty" THEN {}
      ELSE {[m EXCEPT !.version = "B", !.senders = {m.from}, !.named = named,
                      !.auto = @ /\ m.text # "metadata",
                      !.text = CASE @ = "metadata" -> "empty"
                                 [] @ = "split"    -> "command"
                                 [] OTHER          -> @] :
              named \in IF m.text = "metadata" THEN BOOLEAN ELSE {TRUE}}

\* The message has been answered 40, 59 or 60.
SentAgain(m) ==
    IF InB(m) = {} THEN mail' = mail \ {m}
                   ELSE \E b \in InB(m) : mail' = (mail \ {m}) \cup {b}

\* Answered 59: a loop, or "Not subscribed".
BadRequest(m) ==
    /\ m.to \in Mailboxes /\ ~IsBlocked(m) /\ IsList(m)
    /\ IsCommand(m) \/ m.named

\* Any other answer.
Refuse(m) ==
    /\ m \in mail /\ ~Accepted(m) /\ ~Unsubscribes(m)
    /\ IF BadRequest(m) THEN SentAgain(m) ELSE mail' = mail \ {m}
    /\ UNCHANGED <<now, subs, away, lastSent, tasks, stored, sends, count, run, accepted>>

\* Answered 40, 59 or 60 for another reason: the connection was slow, the text
\* is ill-formed, a file could not be written, or it was, and then renamed by
\* its owner before its mode was set, or the verdict could not be noted.
Fails(m) ==
    /\ m \in mail /\ count.events < MaxEvents
    /\ \/ UNCHANGED stored
       \/ Accepted(m) /\ Stores(m) /\ stored' = stored \cup {m}
    /\ SentAgain(m)
    /\ count' = [count EXCEPT !.events = @ + 1]
    /\ UNCHANGED <<now, subs, away, lastSent, tasks, sends, run, accepted>>

-----------------------------------------------------------------------------
(* _forward_to_list and _send_auto_reply *)

\* A list has an identity of its own, a reply has the server's.
SenderOf(t) == IF t.kind = "forward" THEN t.msg.to ELSE Identity[ServerOf[t.msg.to]]

\* The next send of one address to another.
NextSend(from, to) == [by |-> from, to |-> to, nr |-> sends[from][to]]

\* What MisfinClient.send makes of it: the sender is the certificate's, and
\* the recipient is named.  A forward keeps the subject, in a heading.
Sent(t, a) ==
    LET from == SenderOf(t)
        auto == t.kind = "reply" \/ t.msg.auto
    IN  [kind |-> t.kind, to |-> a, from |-> from, senders |-> {from}, named |-> TRUE,
         auto |-> auto, text |-> IF auto THEN "plain" ELSE t.msg.text, version |-> "C",
         post |-> t.msg.post, hops |-> t.msg.hops + 1,
         id |-> NextSend(from, a), of |-> t.msg.id]

\* Faulty bookkeeping: a task that has sent everything goes on.
SendNext_KeepsTask(t, a) ==
    /\ t \in tasks /\ a \in t.left
    /\ t.kind = "reply" => t.msg.to \in away
    /\ mail' = mail \cup {Sent(t, a)}
    /\ tasks' = (tasks \ {t}) \cup {[t EXCEPT !.left = @ \ {a}]}
    /\ sends' = [sends EXCEPT ![SenderOf(t)][a] = @ + 1]
    /\ UNCHANGED <<now, subs, away, lastSent, stored, count, run, accepted>>

\* Faulty: the subscribers are read again before each send.
SendNext_Rereads(t, a) ==
    /\ t \in tasks
    /\ IF t.kind = "reply" THEN t.msg.to \in away /\ a \in t.left
                           ELSE a \in subs[t.msg.to] \ {t.msg.from}
    /\ mail' = mail \cup {Sent(t, a)}
    /\ tasks' = (tasks \ {t}) \cup
                {r \in {[t EXCEPT !.left = @ \ {a}]} : r.left # {}}
    /\ sends' = [sends EXCEPT ![SenderOf(t)][a] = @ + 1]
    /\ UNCHANGED <<now, subs, away, lastSent, stored, count, run, accepted>>

\* One send of a task.  A reply reads the file again for its text.
SendNext(t, a) ==
    /\ t \in tasks /\ a \in t.left
    /\ t.kind = "reply" => t.msg.to \in away
    /\ mail' = mail \cup {Sent(t, a)}
    /\ tasks' = (tasks \ {t}) \cup
                {r \in {[t EXCEPT !.left = @ \ {a}]} : r.left # {}}
    /\ sends' = [sends EXCEPT ![SenderOf(t)][a] = @ + 1]
    /\ UNCHANGED <<now, subs, away, lastSent, stored, count, run, accepted>>

\* A reply without the file is not sent.
ReplyFails(t) ==
    /\ t \in tasks /\ t.kind = "reply" /\ t.msg.to \notin away
    /\ tasks' = tasks \ {t}
    /\ UNCHANGED <<now, subs, away, lastSent, mail, stored, sends, count, run, accepted>>

-----------------------------------------------------------------------------
(* The environment *)

\* Somebody sends a message, with whatever client.
Post(p) ==
    /\ count.posts < MaxPosts
    /\ mail' = mail \cup
         {[kind |-> "post", to |-> p.to, from |-> p.from, senders |-> p.senders,
           named |-> p.named, auto |-> p.auto, text |-> p.text, version |-> p.version,
           post |-> count.posts, hops |-> 0,
           id |-> NextSend(p.from, p.to), of |-> NextSend(p.from, p.to)]}
    /\ sends' = [sends EXCEPT ![p.from][p.to] = @ + 1]
    /\ count' = [count EXCEPT !.posts = @ + 1]
    /\ UNCHANGED <<now, subs, away, lastSent, tasks, stored, run, accepted>>

\* A subscription is confirmed, or an administrator edits the list.
EditSubscribers(l, a) ==
    /\ count.events < MaxEvents
    /\ subs' = [subs EXCEPT ![l] = IF a \in @ THEN @ \ {a} ELSE @ \cup {a}]
    /\ count' = [count EXCEPT !.events = @ + 1]
    /\ UNCHANGED <<now, away, lastSent, mail, tasks, stored, sends, run, accepted>>

\* Somebody writes or removes an .auto-reply file.
EditAutoReply(b) ==
    /\ count.events < MaxEvents
    /\ away' = IF b \in away THEN away \ {b} ELSE away \cup {b}
    /\ count' = [count EXCEPT !.events = @ + 1]
    /\ UNCHANGED <<now, subs, lastSent, mail, tasks, stored, sends, run, accepted>>

Tick ==
    /\ now < MaxTime
    /\ now' = now + 1
    /\ UNCHANGED <<subs, away, lastSent, mail, tasks, stored, sends, count, run, accepted>>

\* A server stops and starts again: its tasks, and whom it has replied to,
\* are forgotten.
Crash(s) ==
    /\ count.events < MaxEvents
    /\ count' = [count EXCEPT !.events = @ + 1]
    /\ run' = [run EXCEPT ![s] = @ + 1]
    /\ tasks' = {t \in tasks : ServerOf[t.msg.to] # s}
    /\ lastSent' = [lastSent EXCEPT ![s] = [a \in Addresses |-> Never]]
    /\ UNCHANGED <<now, subs, away, mail, stored, sends, accepted>>

-----------------------------------------------------------------------------

Next ==
    \/ \E m \in mail : Accept(m) \/ HandleUnsubscribe(m) \/ Refuse(m) \/ Fails(m)
    \/ \E t \in tasks : (\E a \in Addresses : SendNext(t, a)) \/ ReplyFails(t)
    \/ \E p \in Posts : Post(p)
    \/ \E l \in Lists, a \in Changing : EditSubscribers(l, a)
    \/ \E b \in Changing \cap Mailboxes : EditAutoReply(b)
    \/ Tick
    \/ \E s \in Servers : Crash(s)

Spec == Init /\ [][Next]_vars

-----------------------------------------------------------------------------
(* Properties *)

TypeOK ==
    /\ now \in Nat
    /\ subs \in [Lists -> SUBSET Addresses]
    /\ away \in SUBSET Mailboxes
    /\ lastSent \in [Servers -> [Addresses -> Nat \cup {Never}]]
    /\ mail \subseteq Message /\ stored \subseteq Message
    /\ tasks \subseteq Task
    /\ sends \in [Addresses -> [Addresses -> Nat]]
    /\ count \in [{"posts", "events"} -> Nat]
    /\ run \in [Servers -> Nat]
    /\ accepted \subseteq Acceptance

\* No loop of lists, of people who are away, or of both, on one server or two,
\* whoever subscribes to what meanwhile, however servers restart and whatever
\* is sent again: a list passes on a post, a list that gets this as Misfin(B),
\* with its text read as metadata, passes on a message that is empty now, and
\* nothing but a reply can follow.
ChainsAreShort ==
    \A m \in mail :
        /\ m.kind = "forward" => (m.hops = 1 \/ (m.hops = 2 /\ m.text = "empty"))
        /\ m.kind = "reply" => m.hops <= 3

AcceptedMessages == {e.msg : e \in accepted}

\* A mailbox has no second copy of a post, whatever lists carry it to others:
\* only of one send both messages can be stored, when the first of them was
\* answered with a failure.  Not counted are replies and what comes without
\* its text, passed on by a second list.
OneCopyEach ==
    \A m, n \in stored :
        /\ m.to = n.to /\ m.post = n.post /\ m # n
        /\ "reply" \notin {m.kind, n.kind} /\ "empty" \notin {m.text, n.text}
        => /\ m.id = n.id /\ m.version # n.version
           /\ ~({m, n} \subseteq AcceptedMessages)

\* While a server runs it decides to reply to the same sender only once in an
\* interval, also when messages arrive before the first reply is sent, for
\* different mailboxes, or over lists.
RepliesAreSpaced ==
    \A e, f \in accepted :
        /\ e.replied /\ f.replied /\ e # f
        /\ e.msg.from = f.msg.from
        /\ ServerOf[e.msg.to] = ServerOf[f.msg.to] /\ e.run = f.run
        => e.at - f.at >= Interval \/ f.at - e.at >= Interval

\* What a list sends out goes to those who were subscribed when the post was
\* accepted, except to its first sender, however long the sending takes; and
\* one of the senders was a subscriber.
ForwardsGoToSubscribers ==
    \A m \in mail \cup stored : m.kind = "forward" =>
        \E e \in accepted :
            /\ e.msg.post = m.post /\ e.msg.to = m.from
            /\ m.to \in e.subs \ {e.msg.from}
            /\ e.msg.senders \cap e.subs # {}
=============================================================================
