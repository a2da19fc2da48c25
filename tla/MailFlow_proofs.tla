---------------------------- MODULE MailFlow_proofs ----------------------------
(***************************************************************************)
(* Proofs about MailFlow, for any servers, lists, subscriptions and posts. *)
(* Every message goes back to a post: a forward to a post that a list      *)
(* accepted, or to a forward of one that came as Misfin(B) with an empty   *)
(* text; a reply to a post or a forward.  What is sent names its recipient *)
(* or is empty, and replies carry the tag, so nothing goes on from there.  *)
(* Each send has a number of its own, so that copies can be told apart.    *)
(***************************************************************************)
EXTENDS MailFlow, TLAPS

Messages == mail \cup AcceptedMessages \cup stored

LEMMA SentIsAMessage ==
    ASSUME TypeOK, NEW t, t.kind \in {"forward", "reply"}, t.msg \in Message, NEW a \in Addresses
    PROVE  /\ Sent(t, a) \in Message
           /\ SenderOf(t) \in Addresses
<1> USE MailFlowAssumption
<1> DEFINE auto == t.kind = "reply" \/ t.msg.auto
           text == IF auto THEN "plain" ELSE t.msg.text
<1>1. SenderOf(t) \in Addresses
  BY DEF SenderOf, Message
<1>2. /\ t.msg.post \in Nat /\ t.msg.hops + 1 \in Nat /\ t.msg.id \in Send
      /\ auto \in BOOLEAN /\ text \in Texts
  BY DEF Message, Texts
<1>3. NextSend(SenderOf(t), a) \in Send
  BY <1>1 DEF NextSend, Send, TypeOK
<1>4. {SenderOf(t)} \in SUBSET Addresses
  BY <1>1
<1>5. Sent(t, a) = [kind |-> t.kind, to |-> a, from |-> SenderOf(t), senders |-> {SenderOf(t)},
                    named |-> TRUE, auto |-> auto, text |-> text, version |-> "C",
                    post |-> t.msg.post, hops |-> t.msg.hops + 1,
                    id |-> NextSend(SenderOf(t), a), of |-> t.msg.id]
  BY DEF Sent
<1> HIDE DEF auto, text
<1> QED BY <1>1, <1>2, <1>3, <1>4, <1>5 DEF Message

\* What is the same in both messages of a send.
Alike(x, y) ==
    /\ x.kind = y.kind /\ x.to = y.to /\ x.from = y.from
    /\ x.post = y.post /\ x.hops = y.hops /\ x.id = y.id /\ x.of = y.of

\* b is what a message m becomes as Misfin(B).
Again(b, m) ==
    /\ Alike(b, m) /\ m.version = "C" /\ b.version = "B" /\ m.text # "empty"
    /\ b.named \/ (b.text = "empty" /\ ~b.auto)
    /\ m.text = "plain" => b.named /\ b.auto = m.auto /\ b.text = "plain"

LEMMA SentAgainIsAlike ==
    ASSUME NEW m \in Message, SentAgain(m)
    PROVE  \/ mail' = mail \ {m}
           \/ \E b \in Message : mail' = (mail \ {m}) \cup {b} /\ Again(b, m)
<1>1. CASE InB(m) = {}
  BY <1>1 DEF SentAgain
<1>2. CASE InB(m) # {}
  <2>1. PICK b \in InB(m) : mail' = (mail \ {m}) \cup {b}
    BY <1>2 DEF SentAgain
  <2>2. m.version # "B" /\ m.text # "empty"
    BY <1>2 DEF InB
  <2> DEFINE text == CASE m.text = "metadata" -> "empty"
                       [] m.text = "split"    -> "command"
                       [] OTHER               -> m.text
  <2>3. PICK named \in BOOLEAN :
           /\ named \in IF m.text = "metadata" THEN BOOLEAN ELSE {TRUE}
           /\ b = [m EXCEPT !.version = "B", !.senders = {m.from}, !.named = named,
                            !.auto = m.auto /\ m.text # "metadata", !.text = text]
    BY <2>1, <2>2 DEF InB
  <2>4. m.text # "metadata" => named
    BY <2>3
  <2>5. /\ text \in Texts /\ (m.text = "plain" => text = "plain")
        /\ (m.text = "metadata" => text = "empty")
    BY DEF Message, Texts
  <2>6. (m.auto /\ m.text # "metadata") \in BOOLEAN /\ {m.from} \in SUBSET Addresses
    BY DEF Message
  <2> HIDE DEF text
  <2>7. /\ b \in Message /\ Alike(b, m) /\ b.version = "B" /\ b.named = named
        /\ b.auto = (m.auto /\ m.text # "metadata") /\ b.text = text
    BY <2>3, <2>5, <2>6 DEF Message, Alike
  <2>8. m.version = "C"
    BY <2>2 DEF Message
  <2>9. /\ m.text = "metadata" => ~b.auto
        /\ m.text # "metadata" => b.auto = m.auto
    <3>1. m.auto \in BOOLEAN
      BY DEF Message
    <3> QED BY <2>7, <3>1
  <2>10. b.named \/ (b.text = "empty" /\ ~b.auto)
    BY <2>4, <2>5, <2>7, <2>9
  <2>11. m.text = "plain" => b.named /\ b.auto = m.auto /\ b.text = "plain"
    BY <2>4, <2>5, <2>7, <2>9
  <2>12. Again(b, m)
    BY <2>2, <2>7, <2>8, <2>10, <2>11 DEF Again
  <2> QED BY <2>1, <2>7, <2>12
<1> QED BY <1>1, <1>2

\* The tasks that a message gives rise to.
LEMMA TasksOfMessage ==
    ASSUME TypeOK, NEW m \in Message
    PROVE  /\ ReplyTasks(m) \subseteq Task
           /\ \A t \in ReplyTasks(m) : t.kind = "reply" /\ t.msg = m /\ ~m.auto
           /\ ForwardTasks(m) \subseteq Task
           /\ \A t \in ForwardTasks(m) :
                 t.kind = "forward" /\ t.msg = m /\ IsList(m) /\ t.left = subs[m.to] \ {m.from}
<1>1. m.to \in Addresses /\ m.from \in Addresses
  BY DEF Message
<1>2. \A left \in SUBSET Addresses : left # {} => left \in (SUBSET Addresses) \ {{}}
  OBVIOUS
<1>3. ASSUME ShouldAutoReply(m)
      PROVE  /\ ReplyTasks(m) = {[kind |-> "reply", msg |-> m, left |-> {m.from}]}
             /\ ~m.auto
  BY <1>3 DEF ReplyTasks, ShouldAutoReply
<1>4. {m.from} \in (SUBSET Addresses) \ {{}}
  BY <1>1
<1>5. [kind |-> "reply", msg |-> m, left |-> {m.from}] \in Task
  BY <1>4 DEF Task
<1>6. ~ShouldAutoReply(m) => ReplyTasks(m) = {}
  BY DEF ReplyTasks
<1>7. /\ ReplyTasks(m) \subseteq Task
      /\ \A t \in ReplyTasks(m) : t.kind = "reply" /\ t.msg = m /\ ~m.auto
  <2>1. CASE ShouldAutoReply(m)
    BY <1>3, <1>5, <2>1
  <2>2. CASE ~ShouldAutoReply(m)
    BY <1>6, <2>2
  <2> QED BY <2>1, <2>2
<1>8. /\ ForwardTasks(m) \subseteq Task
      /\ \A t \in ForwardTasks(m) :
            t.kind = "forward" /\ t.msg = m /\ IsList(m) /\ t.left = subs[m.to] \ {m.from}
  <2> DEFINE left == subs[m.to] \ {m.from}
  <2>1. CASE IsList(m) /\ left # {}
    <3>1. left \in (SUBSET Addresses) \ {{}}
      BY <1>1, <2>1 DEF IsList, TypeOK
    <3>2. ForwardTasks(m) = {[kind |-> "forward", msg |-> m, left |-> left]}
      BY <2>1 DEF ForwardTasks
    <3> HIDE DEF left
    <3>3. [kind |-> "forward", msg |-> m, left |-> left] \in Task
      BY <3>1 DEF Task
    <3>4. /\ ForwardTasks(m) \subseteq Task
          /\ \A t \in ForwardTasks(m) : t.kind = "forward" /\ t.msg = m /\ t.left = left
      BY <3>2, <3>3
    <3> QED BY <2>1, <3>4 DEF left
  <2>2. CASE ~(IsList(m) /\ left # {})
    <3>1. ForwardTasks(m) = {}
      BY <2>2 DEF ForwardTasks
    <3> QED BY <3>1
  <2> QED BY <2>1, <2>2
<1> QED BY <1>7, <1>8

-----------------------------------------------------------------------------
(* Types *)

LEMMA CountIsTyped ==
    ASSUME count \in [{"posts", "events"} -> Nat],
           NEW k \in {"posts", "events"}, count' = [count EXCEPT ![k] = @ + 1]
    PROVE  count' \in [{"posts", "events"} -> Nat]
OBVIOUS

LEMMA SendsAreTyped ==
    ASSUME sends \in [Addresses -> [Addresses -> Nat]], NEW a \in Addresses, NEW b \in Addresses,
           sends' = [sends EXCEPT ![a][b] = @ + 1]
    PROVE  sends' \in [Addresses -> [Addresses -> Nat]]
OBVIOUS

LEMMA TypeStep == TypeOK /\ [Next]_vars => TypeOK'
<1> SUFFICES ASSUME TypeOK, [Next]_vars PROVE TypeOK'
  OBVIOUS
<1> USE MailFlowAssumption DEF TypeOK
<1>1. ASSUME NEW m \in mail, Accept(m) PROVE TypeOK'
  <2>1. m \in Message /\ m.to \in Addresses /\ m.from \in Addresses
    BY DEF Message
  <2>2. Accepted(m) /\ m.to \in Mailboxes /\ ServerOf[m.to] \in Servers
    BY <1>1, <2>1 DEF Accept, Accepted
  <2>3. /\ UNCHANGED <<now, subs, away, sends, count, run>>
        /\ mail' \subseteq mail /\ stored' \subseteq stored \cup {m}
    BY <1>1 DEF Accept
  <2>4. tasks' \subseteq Task
    <3>1. tasks' = tasks \cup ReplyTasks(m) \cup ForwardTasks(m)
      BY <1>1 DEF Accept
    <3> QED BY <2>1, <3>1, TasksOfMessage
  <2>5. lastSent' \in [Servers -> [Addresses -> Nat \cup {Never}]]
    BY <1>1, <2>1, <2>2 DEF Accept
  <2>6. accepted' \subseteq Acceptance
    <3> DEFINE members == IF IsList(m) THEN subs[m.to] ELSE {}
               replied == ReplyTasks(m) # {}
    <3>1. members \in SUBSET Addresses /\ replied \in BOOLEAN /\ run[ServerOf[m.to]] \in Nat
      BY <2>2 DEF IsList
    <3> HIDE DEF members, replied
    <3>2. [msg |-> m, subs |-> members, at |-> now, run |-> run[ServerOf[m.to]],
           replied |-> replied] \in Acceptance
      BY <2>1, <3>1 DEF Acceptance
    <3> QED BY <1>1, <3>2 DEF Accept, members, replied
  <2> QED BY <2>1, <2>3, <2>4, <2>5, <2>6
<1>2. ASSUME NEW m \in mail, HandleUnsubscribe(m) PROVE TypeOK'
  BY <1>2 DEF HandleUnsubscribe, Unsubscribes, IsCommand, IsList
<1>3. ASSUME NEW m \in mail, Refuse(m) PROVE TypeOK'
  <2>1. mail' = mail \ {m} \/ SentAgain(m)
    BY <1>3 DEF Refuse
  <2>2. mail' \subseteq Message
    BY <2>1, SentAgainIsAlike
  <2> QED BY <1>3, <2>2 DEF Refuse
<1>12. ASSUME NEW m \in mail, Fails(m) PROVE TypeOK'
  <2>1. /\ SentAgain(m) /\ count' = [count EXCEPT !.events = @ + 1]
        /\ stored' \subseteq stored \cup {m}
        /\ UNCHANGED <<now, subs, away, lastSent, tasks, sends, run, accepted>>
    BY <1>12 DEF Fails
  <2>2. mail' \subseteq Message
    BY <2>1, SentAgainIsAlike
  <2>3. count' \in [{"posts", "events"} -> Nat]
    BY <2>1, CountIsTyped
  <2> QED BY <2>1, <2>2, <2>3
<1>4. ASSUME NEW t \in tasks, NEW a \in Addresses, SendNext(t, a) PROVE TypeOK'
  <2>1. t \in Task /\ t.kind \in {"forward", "reply"} /\ t.msg \in Message
    BY DEF Task
  <2>2. Sent(t, a) \in Message /\ SenderOf(t) \in Addresses
    BY <2>1, SentIsAMessage
  <2>3. [t EXCEPT !.left = @ \ {a}].left # {} => [t EXCEPT !.left = @ \ {a}] \in Task
    <3> DEFINE Left == (SUBSET Addresses) \ {{}}
               left == t.left \ {a}
    <3>1. t.left \in SUBSET Addresses /\ t \in [kind : {"forward", "reply"}, msg : Message, left : Left]
      BY <2>1 DEF Task
    <3>2. left \in SUBSET Addresses
      BY <3>1
    <3>3. left # {} => left \in Left
      BY <3>2
    <3> HIDE DEF left, Left
    <3>4. [t EXCEPT !.left = left].left = left
      BY <3>1
    <3>5. left \in Left
            => [t EXCEPT !.left = left] \in [kind : {"forward", "reply"}, msg : Message, left : Left]
      BY <3>1
    <3> QED BY <3>3, <3>4, <3>5 DEF left, Left, Task
  <2>4. /\ UNCHANGED <<now, subs, away, lastSent, stored, count, run, accepted>>
        /\ mail' = mail \cup {Sent(t, a)}
        /\ sends' = [sends EXCEPT ![SenderOf(t)][a] = @ + 1]
        /\ tasks' \subseteq tasks \cup {r \in {[t EXCEPT !.left = @ \ {a}]} : r.left # {}}
    BY <1>4 DEF SendNext
  <2>5. sends' \in [Addresses -> [Addresses -> Nat]]
    BY <2>2, <2>4, SendsAreTyped
  <2> QED BY <2>2, <2>3, <2>4, <2>5
<1>5. ASSUME NEW t \in tasks, ReplyFails(t) PROVE TypeOK'
  BY <1>5 DEF ReplyFails
<1>6. ASSUME NEW p \in Posts, Post(p) PROVE TypeOK'
  <2> DEFINE m == [kind |-> "post", to |-> p.to, from |-> p.from, senders |-> p.senders,
                   named |-> p.named, auto |-> p.auto, text |-> p.text, version |-> p.version,
                   post |-> count.posts, hops |-> 0,
                   id |-> NextSend(p.from, p.to), of |-> NextSend(p.from, p.to)]
  <2>5. p.from \in Addresses /\ p.to \in Addresses
    OBVIOUS
  <2>6. NextSend(p.from, p.to) \in Send
    BY <2>5 DEF NextSend, Send
  <2>1. m \in Message
    BY <2>6 DEF Message
  <2>4. sends' \in [Addresses -> [Addresses -> Nat]]
    <3>1. sends' = [sends EXCEPT ![p.from][p.to] = @ + 1]
      BY <1>6 DEF Post
    <3> QED BY <2>5, <3>1, SendsAreTyped
  <2>2. count' \in [{"posts", "events"} -> Nat]
    <3>1. count' = [count EXCEPT !.posts = @ + 1]
      BY <1>6 DEF Post
    <3> QED BY <3>1, CountIsTyped
  <2>3. mail' = mail \cup {m} /\ UNCHANGED <<now, subs, away, lastSent, tasks, stored, run, accepted>>
    BY <1>6 DEF Post
  <2> HIDE DEF m
  <2> QED BY <2>1, <2>2, <2>3, <2>4
<1>7. ASSUME NEW l \in Lists, NEW a \in Changing, EditSubscribers(l, a) PROVE TypeOK'
  <2>1. /\ subs' = [subs EXCEPT ![l] = IF a \in @ THEN @ \ {a} ELSE @ \cup {a}]
        /\ count' = [count EXCEPT !.events = @ + 1]
        /\ UNCHANGED <<now, away, lastSent, mail, tasks, stored, sends, run, accepted>>
    BY <1>7 DEF EditSubscribers
  <2>2. count' \in [{"posts", "events"} -> Nat]
    BY <2>1, CountIsTyped
  <2>3. subs' \in [Lists -> SUBSET Addresses]
    <3>1. a \in Addresses /\ subs[l] \ {a} \in SUBSET Addresses
          /\ subs[l] \cup {a} \in SUBSET Addresses
      OBVIOUS
    <3>2. CASE a \in subs[l]
      <4>1. subs' = [subs EXCEPT ![l] = subs[l] \ {a}]
        BY <2>1, <3>2
      <4> QED BY <3>1, <4>1
    <3>3. CASE a \notin subs[l]
      <4>1. subs' = [subs EXCEPT ![l] = subs[l] \cup {a}]
        BY <2>1, <3>3
      <4> QED BY <3>1, <4>1
    <3> QED BY <3>2, <3>3
  <2> QED BY <2>1, <2>2, <2>3
<1>8. ASSUME NEW b \in Changing \cap Mailboxes, EditAutoReply(b) PROVE TypeOK'
  <2>1. /\ count' = [count EXCEPT !.events = @ + 1]
        /\ UNCHANGED <<now, subs, lastSent, mail, tasks, stored, sends, run, accepted>>
        /\ away' \in SUBSET Mailboxes
    BY <1>8 DEF EditAutoReply
  <2>2. count' \in [{"posts", "events"} -> Nat]
    BY <2>1, CountIsTyped
  <2> QED BY <2>1, <2>2
<1>9. CASE Tick
  BY <1>9 DEF Tick
<1>10. ASSUME NEW s \in Servers, Crash(s) PROVE TypeOK'
  <2>1. /\ count' = [count EXCEPT !.events = @ + 1]
        /\ run' = [run EXCEPT ![s] = @ + 1]
        /\ tasks' \subseteq tasks
        /\ lastSent' = [lastSent EXCEPT ![s] = [a \in Addresses |-> Never]]
        /\ UNCHANGED <<now, subs, away, mail, stored, sends, accepted>>
    BY <1>10 DEF Crash
  <2>2. count' \in [{"posts", "events"} -> Nat]
    BY <2>1, CountIsTyped
  <2>3. run' \in [Servers -> Nat]
    BY <2>1
  <2>4. [a \in Addresses |-> Never] \in [Addresses -> Nat \cup {Never}]
    OBVIOUS
  <2>5. lastSent' \in [Servers -> [Addresses -> Nat \cup {Never}]]
    BY <2>1, <2>4
  <2> QED BY <2>1, <2>2, <2>3, <2>5
<1>11. CASE UNCHANGED vars
  BY <1>11 DEF vars
<1> QED BY <1>1, <1>2, <1>3, <1>4, <1>5, <1>6, <1>7, <1>8, <1>9, <1>10, <1>11, <1>12 DEF Next

LEMMA TypeStarts == Init => TypeOK
BY MailFlowAssumption DEF Init, TypeOK

-----------------------------------------------------------------------------
(* Where messages come from *)

\* Nothing is in it, nor who it is for.
Blind(m) == m.text = "empty" /\ ~m.auto

\* The list that accepted e sent m to one of the subscribers.
ForwardOf(m, e) ==
    /\ e.msg.to \in Lists /\ e.msg.senders \cap e.subs # {}
    /\ m.from = e.msg.to /\ m.to \in e.subs \ {e.msg.from}
    /\ m.post = e.msg.post /\ m.of = e.msg.id
    /\ \/ e.msg.kind = "post" /\ m.hops = 1 /\ (m.named \/ Blind(m))
       \/ e.msg.kind = "forward" /\ m.hops = 2 /\ m.named /\ Blind(m)

IsPost(m) == m.kind = "post" /\ m.hops = 0 /\ m.post < count.posts

IsForward(m) == m.kind = "forward" /\ \E e \in accepted : ForwardOf(m, e)

IsReply(m) ==
    m.kind = "reply" /\ m.hops \in 1..3 /\ m.named /\ m.auto /\ m.text = "plain"

\* A task of forwarding is about a post that a list accepted, or about the
\* first forward of one; one of replying is about a message that is no reply.
TaskOf(t, e) ==
    /\ e.msg = t.msg
    /\ t.kind = "forward" =>
         /\ t.msg.to \in Lists /\ t.msg.senders \cap e.subs # {}
         /\ t.left \subseteq e.subs \ {t.msg.from}
         /\ \/ t.msg.kind = "post"
            \/ t.msg.kind = "forward" /\ t.msg.hops = 1 /\ Blind(t.msg)
    /\ t.kind = "reply" => ~t.msg.auto

OriginInv ==
    /\ \A m \in Messages : IsPost(m) \/ IsForward(m) \/ IsReply(m)
    /\ \A t \in tasks : \E e \in accepted : TaskOf(t, e)
    /\ \A m \in AcceptedMessages \cup stored : m.to \in Lists => ~m.named

\* What stays true of a message when "accepted" and the number of posts grow.
LEMMA OriginsStay ==
    ASSUME TypeOK, accepted \subseteq accepted', count'.posts \in Nat,
           count.posts <= count'.posts,
           NEW m \in Message, IsPost(m) \/ IsForward(m) \/ IsReply(m)
    PROVE  (IsPost(m) \/ IsForward(m) \/ IsReply(m))'
<1>1. CASE IsPost(m)
  BY <1>1 DEF IsPost, TypeOK, Message
<1>2. CASE IsForward(m)
  <2>1. PICK e \in accepted : ForwardOf(m, e)
    BY <1>2 DEF IsForward
  <2>2. ForwardOf(m, e)'
    BY <2>1 DEF ForwardOf, Blind
  <2> QED BY <1>2, <2>2 DEF IsForward
<1>3. CASE IsReply(m)
  BY <1>3 DEF IsReply
<1> QED BY <1>1, <1>2, <1>3

\* The second message of a send comes from where the first did.
LEMMA AgainHasOrigin ==
    ASSUME NEW m, NEW b, IsPost(m) \/ IsForward(m) \/ IsReply(m), Again(b, m)
    PROVE  IsPost(b) \/ IsForward(b) \/ IsReply(b)
<1>1. CASE IsPost(m)
  BY <1>1 DEF IsPost, Again, Alike
<1>2. CASE IsForward(m)
  <2>1. PICK e \in accepted : ForwardOf(m, e)
    BY <1>2 DEF IsForward
  <2>2. ForwardOf(b, e)
    BY <2>1 DEF ForwardOf, Again, Alike, Blind
  <2> QED BY <1>2, <2>2 DEF IsForward, Again, Alike
<1>3. CASE IsReply(m)
  BY <1>3 DEF IsReply, Again, Alike
<1> QED BY <1>1, <1>2, <1>3

LEMMA MessagesAreTyped ==
    ASSUME TypeOK
    PROVE  /\ Messages \subseteq Message /\ AcceptedMessages \subseteq Message
           /\ \A e \in accepted : e.msg \in Messages /\ e.msg \in AcceptedMessages
           /\ \A t \in tasks : t.msg \in Message
BY DEF Messages, AcceptedMessages, TypeOK, Acceptance, Task

\* A step that adds no message, task or acceptance.
LEMMA OriginsShrink ==
    ASSUME TypeOK, OriginInv, mail' \subseteq mail, tasks' \subseteq tasks,
           UNCHANGED <<stored, accepted>>, count'.posts = count.posts
    PROVE  OriginInv'
<1>1. AcceptedMessages' = AcceptedMessages /\ Messages' \subseteq Messages
  BY DEF Messages, AcceptedMessages
<1>2. \A m \in Messages' : (IsPost(m) \/ IsForward(m) \/ IsReply(m))'
  BY <1>1, OriginsStay, MessagesAreTyped DEF OriginInv, TypeOK
<1>3. \A t \in tasks' : \E e \in accepted' : TaskOf(t, e)'
  BY DEF OriginInv, TaskOf, Blind
<1> QED BY <1>1, <1>2, <1>3 DEF OriginInv

\* A message is refused, or handled and answered with a failure.
LEMMA OriginsAgain ==
    ASSUME TypeOK, OriginInv, NEW m \in mail, mail' = mail \ {m} \/ SentAgain(m),
           stored' = stored \/ (Accepted(m) /\ stored' = stored \cup {m}),
           UNCHANGED <<accepted, tasks>>, count'.posts = count.posts
    PROVE  OriginInv'
<1>1. m \in Message /\ m \in Messages /\ (IsPost(m) \/ IsForward(m) \/ IsReply(m))
  BY MessagesAreTyped DEF Messages, OriginInv
<1>2. AcceptedMessages' = AcceptedMessages
  BY DEF AcceptedMessages
<1>3. ASSUME NEW x \in Messages' PROVE (IsPost(x) \/ IsForward(x) \/ IsReply(x))'
  <2>1. CASE x \in Messages
    BY <2>1, OriginsStay, MessagesAreTyped DEF OriginInv, TypeOK
  <2>2. CASE x \notin Messages
    <3>1. PICK b \in Message : mail' = (mail \ {m}) \cup {b} /\ Again(b, m)
      BY <1>1, <1>2, <2>2, SentAgainIsAlike DEF Messages
    <3>2. x = b
      BY <1>1, <1>2, <2>2, <3>1 DEF Messages
    <3> QED BY <1>1, <3>1, <3>2, AgainHasOrigin, OriginsStay DEF TypeOK
  <2> QED BY <2>1, <2>2
<1>4. \A t \in tasks' : \E e \in accepted' : TaskOf(t, e)'
  BY DEF OriginInv, TaskOf, Blind
<1>5. Accepted(m) => (m.to \in Lists => ~m.named)
  BY DEF Accepted, IsList, MayPost
<1> QED BY <1>2, <1>3, <1>4, <1>5 DEF OriginInv

\* What somebody sends is a new message.
LEMMA PostIsNew ==
    ASSUME TypeOK, NEW p \in Posts, Post(p)
    PROVE  /\ p.from \in Addresses /\ p.to \in Addresses
           /\ \E new \in Message :
                 /\ mail' = mail \cup {new} /\ new.kind = "post" /\ new.hops = 0
                 /\ new.post = count.posts /\ new.id = NextSend(p.from, p.to)
           /\ sends' = [sends EXCEPT ![p.from][p.to] = @ + 1]
           /\ count'.posts = count.posts + 1
           /\ UNCHANGED <<stored, tasks, accepted>>
<1> USE MailFlowAssumption
<1>1. p.from \in Addresses /\ p.to \in Addresses
  OBVIOUS
<1>2. NextSend(p.from, p.to) \in Send
  BY <1>1 DEF NextSend, Send, TypeOK
<1> DEFINE new == [kind |-> "post", to |-> p.to, from |-> p.from, senders |-> p.senders,
                   named |-> p.named, auto |-> p.auto, text |-> p.text, version |-> p.version,
                   post |-> count.posts, hops |-> 0,
                   id |-> NextSend(p.from, p.to), of |-> NextSend(p.from, p.to)]
<1>3. new \in Message
  BY <1>1, <1>2 DEF Message, TypeOK
<1>4. mail' = mail \cup {new}
  BY DEF Post
<1>5. new.kind = "post" /\ new.hops = 0 /\ new.post = count.posts
      /\ new.id = NextSend(p.from, p.to)
  OBVIOUS
<1> HIDE DEF new
<1>6. count'.posts = count.posts + 1
  BY DEF Post, TypeOK
<1> QED BY <1>1, <1>3, <1>4, <1>5, <1>6 DEF Post

LEMMA OriginStep == TypeOK /\ OriginInv /\ [Next]_vars => OriginInv'
<1> SUFFICES ASSUME TypeOK, OriginInv, [Next]_vars PROVE OriginInv'
  OBVIOUS
<1> USE MailFlowAssumption
<1>1. /\ mail \subseteq Message /\ accepted \subseteq Acceptance /\ tasks \subseteq Task
      /\ count.posts \in Nat /\ Messages \subseteq Message
  BY MessagesAreTyped DEF TypeOK
<1>2. ASSUME NEW m \in mail, Accept(m) PROVE OriginInv'
  <2> DEFINE e == [msg |-> m, subs |-> IF IsList(m) THEN subs[m.to] ELSE {}, at |-> now,
                   run |-> run[ServerOf[m.to]], replied |-> ReplyTasks(m) # {}]
  <2>1. /\ mail' = mail \ {m} /\ accepted' = accepted \cup {e}
        /\ stored' \subseteq stored \cup {m} /\ UNCHANGED count
        /\ tasks' = tasks \cup ReplyTasks(m) \cup ForwardTasks(m)
        /\ Accepted(m)
    BY <1>2 DEF Accept
  <2>2. e.msg = m /\ (IsList(m) => e.subs = subs[m.to])
    OBVIOUS
  <2> HIDE DEF e
  <2>3. AcceptedMessages' = AcceptedMessages \cup {m}
    BY <2>1, <2>2 DEF AcceptedMessages
  <2>4. Messages' \subseteq Messages
    BY <2>1, <2>3 DEF Messages
  <2>5. \A x \in Messages' : (IsPost(x) \/ IsForward(x) \/ IsReply(x))'
    BY <1>1, <2>1, <2>4, OriginsStay DEF OriginInv
  <2>6. m \in Message /\ (IsPost(m) \/ IsForward(m) \/ IsReply(m))
    BY <1>1 DEF OriginInv, Messages
  <2>7. IsList(m) => ~m.named /\ m.senders \cap subs[m.to] # {}
    BY <2>1 DEF Accepted, MayPost
  <2>8. IsList(m) => m.kind = "post" \/ (m.kind = "forward" /\ m.hops = 1 /\ Blind(m))
    BY <2>6, <2>7 DEF IsPost, IsForward, IsReply, ForwardOf
  <2>9. ASSUME NEW t \in tasks' PROVE \E f \in accepted' : TaskOf(t, f)'
    <3>1. CASE t \in tasks
      BY <2>1, <3>1 DEF OriginInv, TaskOf, Blind
    <3>2. CASE t \in ReplyTasks(m)
      <4>1. t.msg = m /\ t.kind = "reply" /\ ~m.auto
        BY <2>6, <3>2, TasksOfMessage
      <4>2. TaskOf(t, e)
        BY <2>2, <4>1 DEF TaskOf
      <4> QED BY <2>1, <4>2 DEF TaskOf
    <3>3. CASE t \in ForwardTasks(m)
      <4>1. t.msg = m /\ t.kind = "forward" /\ IsList(m) /\ t.left = subs[m.to] \ {m.from}
        BY <2>6, <3>3, TasksOfMessage
      <4>2. e.msg = t.msg /\ e.subs = subs[m.to]
        BY <2>2, <4>1
      <4>3. TaskOf(t, e)
        BY <2>7, <2>8, <4>1, <4>2 DEF TaskOf, IsList
      <4> QED BY <2>1, <4>3 DEF TaskOf
    <3> QED BY <2>1, <3>1, <3>2, <3>3
  <2>10. \A x \in (AcceptedMessages \cup stored)' : x.to \in Lists => ~x.named
    BY <2>1, <2>3, <2>7 DEF OriginInv, IsList
  <2> QED BY <2>5, <2>9, <2>10 DEF OriginInv
<1>3. ASSUME NEW m \in mail, HandleUnsubscribe(m) PROVE OriginInv'
  <2>1. mail' \subseteq mail /\ UNCHANGED <<accepted, tasks, stored, count>>
    BY <1>3 DEF HandleUnsubscribe
  <2> QED BY <2>1, OriginsShrink
<1>4. ASSUME NEW m \in mail, Refuse(m) PROVE OriginInv'
  BY <1>4, OriginsAgain DEF Refuse
<1>5. ASSUME NEW m \in mail, Fails(m) PROVE OriginInv'
  <2>1. count'.posts = count.posts
    BY <1>5 DEF Fails, TypeOK
  <2> QED BY <1>5, <2>1, OriginsAgain DEF Fails
<1>6. ASSUME NEW t \in tasks, NEW a \in Addresses, SendNext(t, a) PROVE OriginInv'
  <2>1. /\ mail' = mail \cup {Sent(t, a)} /\ UNCHANGED <<accepted, stored, count>>
        /\ tasks' = (tasks \ {t}) \cup {r \in {[t EXCEPT !.left = @ \ {a}]} : r.left # {}}
        /\ a \in t.left
    BY <1>6 DEF SendNext
  <2>2. t.kind \in {"forward", "reply"} /\ t.msg \in Message /\ t \in Task
    BY <1>1 DEF Task
  <2> DEFINE new == Sent(t, a)
  <2>3. /\ new.kind = t.kind /\ new.to = a /\ new.named
        /\ new.hops = t.msg.hops + 1 /\ new.post = t.msg.post /\ new.of = t.msg.id
        /\ t.kind = "forward" => new.from = t.msg.to
        /\ t.kind = "reply" => new.auto /\ new.text = "plain"
        /\ t.kind = "forward" /\ Blind(t.msg) => Blind(new)
    BY <2>2 DEF Sent, SenderOf, Blind
  <2>4. new \in Message
    BY <2>2, SentIsAMessage
  <2>5. PICK e \in accepted : TaskOf(t, e)
    BY DEF OriginInv
  <2>6. IsPost(t.msg) \/ IsForward(t.msg) \/ IsReply(t.msg)
    BY <2>5, MessagesAreTyped DEF TaskOf, OriginInv
  <2> HIDE DEF new
  <2>7. ASSUME t.kind = "forward" PROVE IsForward(new)
    <3>1. t.msg.kind = "post" => new.hops = 1
      BY <2>3, <2>6 DEF IsPost, IsForward, IsReply
    <3>2. t.msg.kind = "forward" => new.hops = 2 /\ Blind(new)
      BY <2>3, <2>5, <2>7 DEF TaskOf
    <3>3. ForwardOf(new, e)
      BY <2>1, <2>3, <2>5, <2>7, <3>1, <3>2 DEF ForwardOf, TaskOf
    <3> QED BY <2>3, <2>7, <3>3 DEF IsForward
  <2>8. ASSUME t.kind = "reply" PROVE IsReply(new)
    <3>1. ~t.msg.auto
      BY <2>5, <2>8 DEF TaskOf
    <3>2. t.msg.hops \in 0..2
      BY <2>6, <3>1 DEF IsPost, IsForward, IsReply, ForwardOf
    <3>3. new.hops \in 1..3
      BY <2>3, <3>2
    <3> QED BY <2>3, <2>8, <3>3 DEF IsReply
  <2>9. IsForward(new) \/ IsReply(new)
    BY <2>2, <2>7, <2>8
  <2>10. Messages' = Messages \cup {new} /\ AcceptedMessages' = AcceptedMessages
    BY <2>1 DEF Messages, AcceptedMessages, new
  <2>11. \A x \in Messages' : (IsPost(x) \/ IsForward(x) \/ IsReply(x))'
    BY <1>1, <2>1, <2>4, <2>9, <2>10, OriginsStay DEF OriginInv
  <2>12. ASSUME NEW r \in tasks' PROVE \E f \in accepted' : TaskOf(r, f)'
    <3>1. CASE r \in tasks
      BY <2>1, <3>1 DEF OriginInv, TaskOf, Blind
    <3>2. CASE r = [t EXCEPT !.left = @ \ {a}]
      <4>1. r.msg = t.msg /\ r.kind = t.kind /\ r.left \subseteq t.left
        BY <2>2, <3>2 DEF Task
      <4>2. TaskOf(r, e)
        BY <2>5, <4>1 DEF TaskOf
      <4> QED BY <2>1, <4>2 DEF TaskOf
    <3> QED BY <2>1, <3>1, <3>2
  <2> QED BY <2>1, <2>10, <2>11, <2>12 DEF OriginInv
<1>7. ASSUME NEW t \in tasks, ReplyFails(t) PROVE OriginInv'
  <2>1. tasks' \subseteq tasks /\ UNCHANGED <<mail, accepted, stored, count>>
    BY <1>7 DEF ReplyFails
  <2> QED BY <2>1, OriginsShrink
<1>8. ASSUME NEW p \in Posts, Post(p) PROVE OriginInv'
  <2>1. PICK new \in Message : /\ mail' = mail \cup {new} /\ new.kind = "post"
                               /\ new.hops = 0 /\ new.post = count.posts
    BY <1>8, PostIsNew
  <2>2. UNCHANGED <<accepted, tasks, stored>> /\ count'.posts = count.posts + 1
    BY <1>8, PostIsNew
  <2>3. Messages' = Messages \cup {new} /\ AcceptedMessages' = AcceptedMessages
    BY <2>1, <2>2 DEF Messages, AcceptedMessages
  <2>4. IsPost(new)'
    BY <1>1, <2>1, <2>2 DEF IsPost
  <2>5. \A x \in Messages : (IsPost(x) \/ IsForward(x) \/ IsReply(x))'
    <3>1. count.posts <= count'.posts /\ count'.posts \in Nat
      BY <1>1, <2>2
    <3> QED BY <1>1, <2>2, <3>1, OriginsStay DEF OriginInv
  <2>6. \A t \in tasks' : \E e \in accepted' : TaskOf(t, e)'
    BY <2>2 DEF OriginInv, TaskOf, Blind
  <2> QED BY <2>2, <2>3, <2>4, <2>5, <2>6 DEF OriginInv
<1>9. ASSUME NEW l, NEW a, EditSubscribers(l, a) PROVE OriginInv'
  <2>1. UNCHANGED <<mail, accepted, tasks, stored>> /\ count'.posts = count.posts
    BY <1>9 DEF EditSubscribers, TypeOK
  <2> QED BY <2>1, OriginsShrink
<1>10. ASSUME NEW b, EditAutoReply(b) PROVE OriginInv'
  <2>1. UNCHANGED <<mail, accepted, tasks, stored>> /\ count'.posts = count.posts
    BY <1>10 DEF EditAutoReply, TypeOK
  <2> QED BY <2>1, OriginsShrink
<1>11. CASE Tick \/ UNCHANGED vars
  <2>1. UNCHANGED <<mail, accepted, tasks, stored, count>>
    BY <1>11 DEF Tick, vars
  <2> QED BY <2>1, OriginsShrink
<1>12. ASSUME NEW s \in Servers, Crash(s) PROVE OriginInv'
  <2>1. /\ UNCHANGED <<mail, accepted, stored>> /\ tasks' \subseteq tasks
        /\ count'.posts = count.posts
    BY <1>12 DEF Crash, TypeOK
  <2> QED BY <2>1, OriginsShrink
<1> QED BY <1>2, <1>3, <1>4, <1>5, <1>6, <1>7, <1>8, <1>9, <1>10, <1>11, <1>12 DEF Next

LEMMA OriginStarts == Init => OriginInv
BY DEF Init, OriginInv, Messages, AcceptedMessages

LEMMA ShortChains == OriginInv => ChainsAreShort
<1> SUFFICES ASSUME OriginInv, NEW m \in mail
             PROVE  /\ m.kind = "forward" => (m.hops = 1 \/ (m.hops = 2 /\ m.text = "empty"))
                    /\ m.kind = "reply" => m.hops <= 3
  BY DEF ChainsAreShort
<1>1. IsPost(m) \/ IsForward(m) \/ IsReply(m)
  BY DEF OriginInv, Messages
<1>2. CASE IsPost(m)
  BY <1>2 DEF IsPost
<1>3. CASE IsForward(m)
  BY <1>3 DEF IsForward, ForwardOf, Blind
<1>4. CASE IsReply(m)
  BY <1>4 DEF IsReply
<1> QED BY <1>1, <1>2, <1>3, <1>4

LEMMA ForwardsReach == OriginInv => ForwardsGoToSubscribers
<1> SUFFICES ASSUME OriginInv, NEW m \in mail \cup stored, m.kind = "forward"
             PROVE  \E e \in accepted :
                        /\ e.msg.post = m.post /\ e.msg.to = m.from
                        /\ m.to \in e.subs \ {e.msg.from}
                        /\ e.msg.senders \cap e.subs # {}
  BY DEF ForwardsGoToSubscribers
<1>1. IsForward(m)
  BY DEF OriginInv, Messages, IsPost, IsReply
<1> QED BY <1>1 DEF IsForward, ForwardOf

-----------------------------------------------------------------------------
(* Which send a message is *)

\* Messages of one send differ in their version at most.
SendsApart ==
    \A x, y \in Messages : x.id = y.id => Alike(x, y) /\ (x.version = y.version => x = y)

\* A message on its way has not been accepted, in neither version; what is on
\* its way as Misfin(C) is all there is of its send.
NotYetAccepted ==
    \A m \in mail, x \in Messages :
        m.id = x.id => x \notin AcceptedMessages /\ (m.version = "C" => x = m)

AcceptedOnce == \A x, y \in AcceptedMessages : x.id = y.id => x = y

Numbered == \A x \in Messages : x.id.nr < sends[x.id.by][x.id.to]

PostsApart ==
    \A x, y \in Messages : x.kind = "post" /\ y.kind = "post" /\ x.post = y.post => x.id = y.id

\* A message is forwarded by one task, which sends to everybody once.
TasksApart ==
    \A t, u \in tasks :
        t.kind = "forward" /\ u.kind = "forward" /\ t.msg.id = u.msg.id => t = u

NotYetSent ==
    \A t \in tasks, x \in Messages :
        t.kind = "forward" /\ x.kind = "forward" /\ x.of = t.msg.id => x.to \notin t.left

ForwardsApart ==
    \A x, y \in Messages :
        x.kind = "forward" /\ y.kind = "forward" /\ x.of = y.of /\ x.to = y.to => x.id = y.id

SendInv ==
    /\ SendsApart /\ NotYetAccepted /\ AcceptedOnce /\ Numbered
    /\ PostsApart /\ TasksApart /\ NotYetSent /\ ForwardsApart

LEMMA SendsStart == Init => SendInv
BY DEF Init, SendInv, SendsApart, NotYetAccepted, AcceptedOnce, Numbered, PostsApart,
       TasksApart, NotYetSent, ForwardsApart, Messages, AcceptedMessages

\* A step that adds no message, task or acceptance.
LEMMA SendsShrink ==
    ASSUME SendInv, mail' \subseteq mail, tasks' \subseteq tasks,
           UNCHANGED <<stored, accepted, sends>>
    PROVE  SendInv'
<1>1. AcceptedMessages' = AcceptedMessages /\ Messages' \subseteq Messages
  BY DEF Messages, AcceptedMessages
<1>2. SendsApart' /\ AcceptedOnce' /\ Numbered' /\ PostsApart' /\ ForwardsApart'
  BY <1>1 DEF SendInv, SendsApart, AcceptedOnce, Numbered, PostsApart, ForwardsApart, Alike
<1>3. NotYetAccepted'
  BY <1>1 DEF SendInv, NotYetAccepted
<1>4. TasksApart' /\ NotYetSent'
  BY <1>1 DEF SendInv, TasksApart, NotYetSent
<1> QED BY <1>2, <1>3, <1>4 DEF SendInv

\* The second message takes the place of the first.
LEMMA SendsAgain ==
    ASSUME TypeOK, SendInv, NEW m \in mail, mail' = mail \ {m} \/ SentAgain(m),
           stored' \subseteq stored \cup {m}, UNCHANGED <<accepted, tasks, sends>>
    PROVE  SendInv'
<1>1. m \in Message /\ m \in Messages
  BY MessagesAreTyped DEF Messages
<1>2. AcceptedMessages' = AcceptedMessages
  BY DEF AcceptedMessages
<1>3. CASE mail' = mail \ {m}
  <2>1. Messages' \subseteq Messages /\ mail' \subseteq mail
    BY <1>2, <1>3 DEF Messages
  <2>2. SendsApart' /\ AcceptedOnce' /\ Numbered' /\ PostsApart' /\ ForwardsApart'
    BY <1>2, <2>1
       DEF SendInv, SendsApart, AcceptedOnce, Numbered, PostsApart, ForwardsApart, Alike
  <2>3. NotYetAccepted' /\ TasksApart' /\ NotYetSent'
    BY <1>2, <2>1 DEF SendInv, NotYetAccepted, TasksApart, NotYetSent
  <2> QED BY <2>2, <2>3 DEF SendInv
<1>4. ASSUME NEW b \in Message, mail' = (mail \ {m}) \cup {b}, Again(b, m)
      PROVE  SendInv'
  <2>1. Messages' \subseteq Messages \cup {b}
    BY <1>2, <1>4 DEF Messages
  <2>2. /\ b.id = m.id /\ b.kind = m.kind /\ b.post = m.post /\ b.of = m.of /\ b.to = m.to
        /\ b.version # m.version /\ m.version = "C" /\ b.version = "B"
        /\ Alike(b, m) /\ Alike(m, b)
    BY <1>4 DEF Again, Alike
  <2>3. \A x \in Messages : x.id = m.id => x = m /\ x \notin AcceptedMessages
    BY <2>2 DEF SendInv, NotYetAccepted
  <2>4. SendsApart'
    <3> SUFFICES ASSUME NEW x \in Messages \cup {b}, NEW y \in Messages \cup {b}, x.id = y.id
                 PROVE  Alike(x, y) /\ (x.version = y.version => x = y)
      BY <2>1 DEF SendsApart, Alike
    <3>1. CASE x \in Messages /\ y \in Messages
      BY <3>1 DEF SendInv, SendsApart
    <3>2. CASE x = b /\ y = b
      BY <3>2 DEF Alike
    <3>3. CASE x = b /\ y \in Messages
      BY <2>2, <2>3, <3>3
    <3>4. CASE x \in Messages /\ y = b
      BY <2>2, <2>3, <3>4
    <3> QED BY <3>1, <3>2, <3>3, <3>4
  <2>5. NotYetAccepted'
    <3> SUFFICES ASSUME NEW n \in mail', NEW x \in Messages \cup {b}, n.id = x.id
                 PROVE  x \notin AcceptedMessages /\ (n.version = "C" => x = n)
      BY <1>2, <2>1 DEF NotYetAccepted
    <3>1. AcceptedMessages \subseteq Messages
      BY DEF Messages
    <3>2. CASE n = b
      BY <2>2, <2>3, <3>1, <3>2
    <3>3. CASE n \in mail \ {m} /\ x = b
      BY <2>2, <2>3, <3>3 DEF Messages
    <3>4. CASE n \in mail \ {m} /\ x \in Messages
      BY <3>4 DEF SendInv, NotYetAccepted
    <3> QED BY <1>4, <3>2, <3>3, <3>4
  <2>6. AcceptedOnce' /\ TasksApart'
    BY <1>2 DEF SendInv, AcceptedOnce, TasksApart
  <2>7. Numbered' /\ NotYetSent'
    BY <1>1, <2>1, <2>2 DEF SendInv, Numbered, NotYetSent
  <2>8. PostsApart'
    BY <1>1, <2>1, <2>2 DEF SendInv, PostsApart
  <2>9. ForwardsApart'
    BY <1>1, <2>1, <2>2 DEF SendInv, ForwardsApart
  <2> QED BY <2>4, <2>5, <2>6, <2>7, <2>8, <2>9 DEF SendInv
<1> QED BY <1>1, <1>3, <1>4, SentAgainIsAlike

\* A new send has a number that no message has.
LEMMA NewSend ==
    ASSUME TypeOK, SendInv, NEW a \in Addresses, NEW b \in Addresses, NEW new \in Message,
           mail' = mail \cup {new}, new.id = NextSend(a, b),
           sends' = [sends EXCEPT ![a][b] = @ + 1], UNCHANGED <<stored, accepted>>
    PROVE  /\ SendsApart' /\ NotYetAccepted' /\ AcceptedOnce' /\ Numbered'
           /\ Messages' = Messages \cup {new} /\ AcceptedMessages' = AcceptedMessages
           /\ \A x \in Messages : x.id # new.id
<1>1. Messages' = Messages \cup {new} /\ AcceptedMessages' = AcceptedMessages
  BY DEF Messages, AcceptedMessages
<1>2. new.id.by = a /\ new.id.to = b /\ new.id.nr = sends[a][b]
  BY DEF NextSend
<1>3. \A x \in Messages : x.id # new.id
  <2> SUFFICES ASSUME NEW x \in Messages, x.id = new.id PROVE FALSE
    OBVIOUS
  <2>1. sends[a][b] < sends[a][b]
    BY <1>2 DEF SendInv, Numbered
  <2>2. sends[a][b] \in Nat
    BY DEF TypeOK
  <2> QED BY <2>1, <2>2
<1>4. SendsApart'
  BY <1>1, <1>3 DEF SendInv, SendsApart, Alike
<1>5. AcceptedMessages \subseteq Messages /\ mail \subseteq Messages
  BY DEF Messages
<1>6. NotYetAccepted'
  BY <1>1, <1>3, <1>5 DEF SendInv, NotYetAccepted
<1>7. AcceptedOnce'
  BY <1>1 DEF SendInv, AcceptedOnce
<1>8. Numbered'
  <2> SUFFICES ASSUME NEW x \in Messages \cup {new}
               PROVE  x.id.nr < sends'[x.id.by][x.id.to]
    BY <1>1 DEF Numbered
  <2>1. x \in Message
    BY MessagesAreTyped
  <2>2. x.id.by \in Addresses /\ x.id.to \in Addresses /\ x.id.nr \in Nat
    BY <2>1 DEF Message, Send
  <2>3. /\ sends'[a][b] = sends[a][b] + 1 /\ sends[a][b] \in Nat
        /\ sends[x.id.by][x.id.to] \in Nat
        /\ sends'[x.id.by][x.id.to] >= sends[x.id.by][x.id.to]
    BY <2>2 DEF TypeOK
  <2>4. CASE x = new
    BY <1>2, <2>3, <2>4
  <2>5. CASE x \in Messages
    <3>1. x.id.nr < sends[x.id.by][x.id.to]
      BY <2>5 DEF SendInv, Numbered
    <3>2. sends'[x.id.by][x.id.to] \in Nat
      BY <2>2 DEF TypeOK
    <3> QED BY <2>2, <2>3, <3>1, <3>2
  <2> QED BY <2>4, <2>5
<1> QED BY <1>1, <1>3, <1>4, <1>6, <1>7, <1>8

LEMMA AcceptanceIsNew ==
    ASSUME TypeOK, NEW m \in mail, Accept(m)
    PROVE  \E e \in Acceptance : e.msg = m /\ accepted' = accepted \cup {e}
<1> DEFINE e == [msg |-> m, subs |-> IF IsList(m) THEN subs[m.to] ELSE {}, at |-> now,
                 run |-> run[ServerOf[m.to]], replied |-> ReplyTasks(m) # {}]
<1>1. e.msg = m /\ accepted' = accepted \cup {e}
  BY DEF Accept
<1>2. e \in accepted'
  BY <1>1
<1>3. e \in Acceptance
  BY <1>2, TypeStep DEF TypeOK, Next
<1> QED BY <1>1, <1>3

LEMMA SendStep == TypeOK /\ OriginInv /\ SendInv /\ [Next]_vars => SendInv'
<1> SUFFICES ASSUME TypeOK, OriginInv, SendInv, [Next]_vars PROVE SendInv'
  OBVIOUS
<1>1. /\ AcceptedMessages \subseteq Messages /\ mail \subseteq Messages
      /\ Messages \subseteq Message
      /\ \A t \in tasks : t.msg \in AcceptedMessages
  BY MessagesAreTyped DEF OriginInv, TaskOf, AcceptedMessages, Messages
<1>2. ASSUME NEW m \in mail, Accept(m) PROVE SendInv'
  <2>1. m \in Message /\ m \in Messages /\ m.version \in {"C", "B"}
    BY <1>1 DEF Message
  <2>2. \E e \in Acceptance : e.msg = m /\ accepted' = accepted \cup {e}
    BY <1>2, AcceptanceIsNew
  <2>3. /\ mail' = mail \ {m} /\ stored' \subseteq stored \cup {m} /\ UNCHANGED sends
        /\ tasks' = tasks \cup ReplyTasks(m) \cup ForwardTasks(m)
    BY <1>2 DEF Accept
  <2>4. AcceptedMessages' = AcceptedMessages \cup {m}
    BY <2>2 DEF AcceptedMessages
  <2>5. Messages' \subseteq Messages
    BY <2>3, <2>4 DEF Messages
  <2>6. \A x \in AcceptedMessages : x.id # m.id
    BY <1>1 DEF SendInv, NotYetAccepted
  <2>7. \A n \in mail : n.id = m.id => n = m
    <3> SUFFICES ASSUME NEW n \in mail, n.id = m.id PROVE n = m
      OBVIOUS
    <3>1. n \in Messages /\ n.version \in {"C", "B"}
      BY <1>1 DEF Message
    <3>2. CASE m.version = "C" \/ n.version = "C"
      BY <2>1, <3>1, <3>2 DEF SendInv, NotYetAccepted
    <3>3. CASE m.version = "B" /\ n.version = "B"
      BY <2>1, <3>1, <3>3 DEF SendInv, SendsApart
    <3> QED BY <2>1, <3>1, <3>2, <3>3
  <2>8. SendsApart' /\ Numbered' /\ PostsApart' /\ ForwardsApart'
    BY <2>3, <2>5 DEF SendInv, SendsApart, Numbered, PostsApart, ForwardsApart, Alike
  <2>9. NotYetAccepted'
    BY <2>3, <2>4, <2>5, <2>7 DEF SendInv, NotYetAccepted
  <2>10. AcceptedOnce'
    BY <2>4, <2>6 DEF SendInv, AcceptedOnce
  <2>11. \A t \in tasks' : t.kind = "forward" => t \in tasks \/ t \in ForwardTasks(m)
    BY <2>1, <2>3, TasksOfMessage
  <2>12. /\ \A t \in ForwardTasks(m) : t.msg = m
         /\ \A t, u \in ForwardTasks(m) : t = u
    BY DEF ForwardTasks
  <2>13. TasksApart'
    BY <1>1, <2>6, <2>11, <2>12 DEF SendInv, TasksApart
  <2>14. NotYetSent'
    <3> SUFFICES ASSUME NEW t \in tasks', NEW x \in Messages, t.kind = "forward",
                        x.kind = "forward", x.of = t.msg.id
                 PROVE  x.to \notin t.left
      BY <2>5 DEF NotYetSent
    <3>1. CASE t \in tasks
      BY <3>1 DEF SendInv, NotYetSent
    <3>2. CASE t \in ForwardTasks(m)
      <4>1. PICK f \in accepted : ForwardOf(x, f)
        BY DEF OriginInv, IsPost, IsForward, IsReply
      <4>2. f.msg \in AcceptedMessages /\ f.msg.id = m.id
        BY <2>12, <3>2, <4>1 DEF ForwardOf, AcceptedMessages
      <4> QED BY <2>6, <4>2
    <3> QED BY <2>11, <3>1, <3>2
  <2> QED BY <2>8, <2>9, <2>10, <2>13, <2>14 DEF SendInv
<1>3. ASSUME NEW m \in mail, HandleUnsubscribe(m) PROVE SendInv'
  <2>1. mail' \subseteq mail /\ UNCHANGED <<accepted, tasks, stored, sends>>
    BY <1>3 DEF HandleUnsubscribe
  <2> QED BY <2>1, SendsShrink
<1>4. ASSUME NEW m \in mail, Refuse(m) \/ Fails(m) PROVE SendInv'
  <2>1. /\ mail' = mail \ {m} \/ SentAgain(m)
        /\ stored' \subseteq stored \cup {m} /\ UNCHANGED <<accepted, tasks, sends>>
    BY <1>4 DEF Refuse, Fails
  <2> QED BY <2>1, SendsAgain
<1>5. ASSUME NEW t \in tasks, NEW a \in Addresses, SendNext(t, a) PROVE SendInv'
  <2>1. /\ mail' = mail \cup {Sent(t, a)} /\ UNCHANGED <<accepted, stored>>
        /\ tasks' = (tasks \ {t}) \cup {r \in {[t EXCEPT !.left = @ \ {a}]} : r.left # {}}
        /\ sends' = [sends EXCEPT ![SenderOf(t)][a] = @ + 1]
        /\ a \in t.left
    BY <1>5 DEF SendNext
  <2>2. t.kind \in {"forward", "reply"} /\ t.msg \in Message /\ t \in Task
    BY DEF TypeOK, Task
  <2> DEFINE new == Sent(t, a)
  <2>3. /\ new.kind = t.kind /\ new.to = a /\ new.of = t.msg.id
        /\ new.id = NextSend(SenderOf(t), a)
    BY DEF Sent
  <2>4. new \in Message /\ SenderOf(t) \in Addresses
    BY <2>2, SentIsAMessage
  <2> HIDE DEF new
  <2>5. mail' = mail \cup {new}
    BY <2>1 DEF new
  <2>6. /\ SendsApart' /\ NotYetAccepted' /\ AcceptedOnce' /\ Numbered'
        /\ Messages' = Messages \cup {new}
        /\ \A x \in Messages : x.id # new.id
    BY <2>1, <2>3, <2>4, <2>5, NewSend
  <2>7. PostsApart'
    BY <2>2, <2>3, <2>6 DEF SendInv, PostsApart
  <2>8. \A r \in tasks' : r \in tasks \ {t}
                            \/ (r.msg = t.msg /\ r.kind = t.kind /\ r.left = t.left \ {a}
                                /\ r = [t EXCEPT !.left = @ \ {a}])
    BY <2>1, <2>2 DEF Task
  <2>9. TasksApart'
    BY <2>8 DEF SendInv, TasksApart
  <2>10. NotYetSent'
    <3> SUFFICES ASSUME NEW r \in tasks', NEW x \in Messages', r.kind = "forward",
                        x.kind = "forward", x.of = r.msg.id
                 PROVE  x.to \notin r.left
      BY DEF NotYetSent
    <3>1. CASE x \in Messages
      BY <2>8, <3>1 DEF SendInv, NotYetSent
    <3>2. CASE x = new
      <4>1. t.kind = "forward" /\ r.msg.id = t.msg.id /\ x.to = a
        BY <2>3, <3>2
      <4>2. r \notin tasks \ {t}
        BY <4>1 DEF SendInv, TasksApart
      <4> QED BY <2>8, <4>1, <4>2
    <3> QED BY <2>6, <3>1, <3>2
  <2>11. ForwardsApart'
    <3>1. \A x \in Messages : ~(new.kind = "forward" /\ x.kind = "forward"
                                /\ x.of = new.of /\ x.to = new.to)
      BY <2>1, <2>3 DEF SendInv, NotYetSent
    <3> QED BY <2>6, <3>1 DEF SendInv, ForwardsApart
  <2> QED BY <2>6, <2>7, <2>9, <2>10, <2>11 DEF SendInv
<1>6. ASSUME NEW t \in tasks, ReplyFails(t) PROVE SendInv'
  <2>1. tasks' \subseteq tasks /\ UNCHANGED <<mail, accepted, stored, sends>>
    BY <1>6 DEF ReplyFails
  <2> QED BY <2>1, SendsShrink
<1>7. ASSUME NEW p \in Posts, Post(p) PROVE SendInv'
  <2>1. p.from \in Addresses /\ p.to \in Addresses
    BY <1>7, PostIsNew
  <2>2. PICK new \in Message : /\ mail' = mail \cup {new} /\ new.kind = "post"
                               /\ new.post = count.posts /\ new.id = NextSend(p.from, p.to)
    BY <1>7, PostIsNew
  <2>3. /\ UNCHANGED <<accepted, tasks, stored>>
        /\ sends' = [sends EXCEPT ![p.from][p.to] = @ + 1]
    BY <1>7, PostIsNew
  <2>4. /\ SendsApart' /\ NotYetAccepted' /\ AcceptedOnce' /\ Numbered'
        /\ Messages' = Messages \cup {new}
    BY <2>1, <2>2, <2>3, NewSend
  <2>5. \A x \in Messages : x.kind = "post" => x.post # new.post
    <3> SUFFICES ASSUME NEW x \in Messages, x.kind = "post" PROVE x.post # count.posts
      BY <2>2
    <3>1. x.post < count.posts /\ x.post \in Nat /\ count.posts \in Nat
      BY <1>1 DEF OriginInv, IsPost, IsForward, IsReply, Message, TypeOK
    <3> QED BY <3>1
  <2>6. PostsApart'
    BY <2>2, <2>4, <2>5 DEF SendInv, PostsApart
  <2>7. TasksApart' /\ NotYetSent' /\ ForwardsApart'
    BY <2>2, <2>3, <2>4 DEF SendInv, TasksApart, NotYetSent, ForwardsApart
  <2> QED BY <2>4, <2>6, <2>7 DEF SendInv
<1>8. ASSUME NEW l, NEW a, EditSubscribers(l, a) PROVE SendInv'
  BY <1>8, SendsShrink DEF EditSubscribers
<1>9. ASSUME NEW b, EditAutoReply(b) PROVE SendInv'
  BY <1>9, SendsShrink DEF EditAutoReply
<1>10. CASE Tick \/ UNCHANGED vars
  BY <1>10, SendsShrink DEF Tick, vars
<1>11. ASSUME NEW s \in Servers, Crash(s) PROVE SendInv'
  BY <1>11, SendsShrink DEF Crash
<1> QED BY <1>2, <1>3, <1>4, <1>5, <1>6, <1>7, <1>8, <1>9, <1>10, <1>11 DEF Next

LEMMA CopiesAreOne == OriginInv /\ SendInv => OneCopyEach
<1> SUFFICES ASSUME OriginInv, SendInv, NEW m \in stored, NEW n \in stored,
                    m.to = n.to, m.post = n.post, m # n, m.kind # "reply", n.kind # "reply",
                    m.text # "empty", n.text # "empty"
             PROVE  /\ m.id = n.id /\ m.version # n.version
                    /\ ~({m, n} \subseteq AcceptedMessages)
  BY DEF OneCopyEach
<1>1. m \in Messages /\ n \in Messages
  BY DEF Messages
\* A forward with a text is one of a post.
<1>2. ASSUME NEW x \in stored, x.kind = "forward", x.text # "empty"
      PROVE  \E e \in accepted : ForwardOf(x, e) /\ e.msg.kind = "post" /\ e.msg \in Messages
  <2>1. PICK e \in accepted : ForwardOf(x, e)
    BY <1>2 DEF OriginInv, Messages, IsPost, IsForward, IsReply
  <2> QED BY <1>2, <2>1 DEF ForwardOf, Blind, Messages, AcceptedMessages
\* The list that it went over does not get it back.
<1>3. ASSUME NEW x \in stored, NEW y \in stored, x.to = y.to, x.post = y.post,
             x.kind = "forward", y.kind = "post", x.text # "empty"
      PROVE  FALSE
  <2>1. PICK e \in accepted : ForwardOf(x, e) /\ e.msg.kind = "post" /\ e.msg \in Messages
    BY <1>2, <1>3
  <2>2. y \in Messages
    BY DEF Messages
  <2>3. e.msg.id = y.id
    BY <1>3, <2>1, <2>2 DEF ForwardOf, SendInv, PostsApart
  <2>4. e.msg.to = y.to
    BY <2>1, <2>2, <2>3 DEF SendInv, SendsApart, Alike
  <2>5. ~x.named
    BY <1>3, <2>1, <2>4 DEF ForwardOf, OriginInv
  <2> QED BY <1>3, <2>1, <2>5 DEF ForwardOf, Blind
<1>4. m.id = n.id
  <2>1. m.kind \in {"post", "forward"} /\ n.kind \in {"post", "forward"}
    BY <1>1 DEF OriginInv, IsPost, IsForward, IsReply
  <2>2. CASE m.kind = "post" /\ n.kind = "post"
    BY <1>1, <2>2 DEF SendInv, PostsApart
  <2>3. CASE m.kind = "forward" /\ n.kind = "forward"
    <3>1. PICK e \in accepted : ForwardOf(m, e) /\ e.msg.kind = "post" /\ e.msg \in Messages
      BY <1>2, <2>3
    <3>2. PICK f \in accepted : ForwardOf(n, f) /\ f.msg.kind = "post" /\ f.msg \in Messages
      BY <1>2, <2>3
    <3>3. e.msg.id = f.msg.id
      BY <3>1, <3>2 DEF ForwardOf, SendInv, PostsApart
    <3>4. m.of = n.of
      BY <3>1, <3>2, <3>3 DEF ForwardOf
    <3> QED BY <1>1, <2>3, <3>4 DEF SendInv, ForwardsApart
  <2> QED BY <1>3, <2>1, <2>2, <2>3
<1>5. m.version # n.version
  BY <1>1, <1>4 DEF SendInv, SendsApart
<1> QED BY <1>4, <1>5 DEF SendInv, AcceptedOnce

-----------------------------------------------------------------------------
(* The times of replies *)

\* What a server that still runs remembers of the replies it decided on.
SpacingInv ==
    /\ \A e \in accepted :
         /\ e.at <= now /\ e.run <= run[ServerOf[e.msg.to]]
         /\ LET last == lastSent[ServerOf[e.msg.to]][e.msg.from]
            IN  e.replied /\ e.run = run[ServerOf[e.msg.to]] => last # Never /\ e.at <= last
    /\ RepliesAreSpaced

LEMMA SpacingStarts == Init => SpacingInv
BY DEF Init, SpacingInv, RepliesAreSpaced

\* A step that leaves the acceptances and the servers alone.
LEMMA SpacingStays ==
    ASSUME TypeOK, SpacingInv, now' \in Nat, now <= now', UNCHANGED <<accepted, run, lastSent>>
    PROVE  SpacingInv'
<1>1. RepliesAreSpaced'
  BY DEF SpacingInv, RepliesAreSpaced
<1>2. \A e \in accepted : e.at \in Nat
  BY DEF TypeOK, Acceptance
<1>3. \A e \in accepted : e.at <= now'
  BY <1>2 DEF TypeOK, SpacingInv
<1> QED BY <1>1, <1>3 DEF SpacingInv

LEMMA SpacingStep == TypeOK /\ SpacingInv /\ [Next]_vars => SpacingInv'
<1> SUFFICES ASSUME TypeOK, SpacingInv, [Next]_vars PROVE SpacingInv'
  OBVIOUS
<1> USE MailFlowAssumption
<1>1. \A e \in accepted : /\ e \in Acceptance /\ e.at \in Nat /\ e.run \in Nat
                          /\ e.replied \in BOOLEAN /\ e.msg \in Message
                          /\ e.msg.from \in Addresses /\ e.msg.to \in Addresses
                          /\ ServerOf[e.msg.to] \in Servers
  BY DEF TypeOK, Acceptance, Message
<1>2. ASSUME NEW m \in mail, Accept(m) PROVE SpacingInv'
  <2> DEFINE s == ServerOf[m.to]
  <2>1. m \in Message /\ m.to \in Addresses /\ m.from \in Addresses /\ s \in Servers
    BY DEF TypeOK, Message
  <2>2. PICK e : /\ e = [msg |-> m, subs |-> IF IsList(m) THEN subs[m.to] ELSE {}, at |-> now,
                        run |-> run[s], replied |-> ReplyTasks(m) # {}]
                 /\ accepted' = accepted \cup {e}
    BY <1>2 DEF Accept
  <2>3. e.msg = m /\ e.at = now /\ e.run = run[s] /\ (e.replied <=> ShouldAutoReply(m))
    BY <2>2 DEF ReplyTasks
  <2>4. UNCHANGED <<now, run>>
    BY <1>2 DEF Accept
  <2>5. CASE ~ShouldAutoReply(m)
    <3>1. UNCHANGED lastSent
      BY <1>2, <2>5 DEF Accept
    <3>2. RepliesAreSpaced'
      BY <2>2, <2>3, <2>5 DEF SpacingInv, RepliesAreSpaced
    <3> QED BY <1>1, <2>1, <2>2, <2>3, <2>4, <2>5, <3>1, <3>2 DEF SpacingInv, TypeOK
  <2>6. CASE ShouldAutoReply(m)
    <3>1. lastSent' = [lastSent EXCEPT ![s][m.from] = now]
      BY <1>2, <2>6 DEF Accept
    <3>2. lastSent[s][m.from] = Never \/ now - lastSent[s][m.from] >= Interval
      BY <2>6 DEF ShouldAutoReply
    <3>3. /\ lastSent'[s][m.from] = now
          /\ \A q \in Servers, a \in Addresses :
                q # s \/ a # m.from => lastSent'[q][a] = lastSent[q][a]
      BY <2>1, <3>1 DEF TypeOK
    <3>4. ASSUME NEW f \in accepted, f.replied, f.msg.from = m.from,
                 ServerOf[f.msg.to] = s, f.run = run[s]
          PROVE  now - f.at >= Interval
      <4>1. lastSent[s][m.from] # Never /\ f.at <= lastSent[s][m.from]
        BY <3>4 DEF SpacingInv
      <4>2. lastSent[s][m.from] \in Nat \cup {Never} /\ now \in Nat /\ f.at \in Nat
        BY <1>1, <2>1 DEF TypeOK
      <4> QED BY <3>2, <4>1, <4>2 DEF Never
    <3>5. RepliesAreSpaced'
      <4> SUFFICES ASSUME NEW f \in accepted', NEW g \in accepted',
                          f.replied, g.replied, f # g, f.msg.from = g.msg.from,
                          ServerOf[f.msg.to] = ServerOf[g.msg.to], f.run = g.run
                   PROVE  f.at - g.at >= Interval \/ g.at - f.at >= Interval
        BY DEF RepliesAreSpaced
      <4>1. CASE f \in accepted /\ g \in accepted
        BY <4>1 DEF SpacingInv, RepliesAreSpaced
      <4>2. CASE f = e /\ g \in accepted
        BY <2>3, <3>4, <4>2
      <4>3. CASE f \in accepted /\ g = e
        BY <2>3, <3>4, <4>3
      <4> QED BY <2>2, <4>1, <4>2, <4>3
    <3>6. ASSUME NEW f \in accepted'
          PROVE  LET last == lastSent'[ServerOf[f.msg.to]][f.msg.from]
                 IN  /\ f.at <= now /\ f.run <= run[ServerOf[f.msg.to]]
                     /\ f.replied /\ f.run = run[ServerOf[f.msg.to]]
                        => last # Never /\ f.at <= last
      <4>1. now \in Nat /\ run[s] \in Nat
        BY <2>1 DEF TypeOK
      <4>2. CASE f = e
        BY <2>3, <3>3, <4>1, <4>2 DEF Never
      <4>3. CASE f \in accepted /\ ServerOf[f.msg.to] = s /\ f.msg.from = m.from
        BY <3>3, <4>1, <4>3 DEF SpacingInv, Never
      <4>4. CASE f \in accepted /\ ~(ServerOf[f.msg.to] = s /\ f.msg.from = m.from)
        BY <1>1, <3>3, <4>4 DEF SpacingInv
      <4> QED BY <2>2, <4>2, <4>3, <4>4
    <3> QED BY <2>4, <3>5, <3>6 DEF SpacingInv
  <2> QED BY <2>5, <2>6
<1>3. ASSUME NEW m \in mail, HandleUnsubscribe(m) \/ Refuse(m) \/ Fails(m) PROVE SpacingInv'
  BY <1>3, SpacingStays DEF HandleUnsubscribe, Refuse, Fails, TypeOK
<1>4. ASSUME NEW t \in tasks, NEW a \in Addresses, SendNext(t, a) PROVE SpacingInv'
  BY <1>4, SpacingStays DEF SendNext, TypeOK
<1>5. ASSUME NEW t \in tasks, ReplyFails(t) PROVE SpacingInv'
  BY <1>5, SpacingStays DEF ReplyFails, TypeOK
<1>6. ASSUME NEW p \in Posts, Post(p) PROVE SpacingInv'
  BY <1>6, SpacingStays DEF Post, TypeOK
<1>7. ASSUME NEW l, NEW a, EditSubscribers(l, a) PROVE SpacingInv'
  BY <1>7, SpacingStays DEF EditSubscribers, TypeOK
<1>8. ASSUME NEW b, EditAutoReply(b) PROVE SpacingInv'
  BY <1>8, SpacingStays DEF EditAutoReply, TypeOK
<1>9. CASE Tick
  BY <1>9, SpacingStays DEF Tick, TypeOK
<1>10. ASSUME NEW s \in Servers, Crash(s) PROVE SpacingInv'
  <2>1. /\ run' = [run EXCEPT ![s] = @ + 1] /\ UNCHANGED <<now, accepted>>
        /\ lastSent' = [lastSent EXCEPT ![s] = [a \in Addresses |-> Never]]
    BY <1>10 DEF Crash
  <2>2. run[s] \in Nat /\ run'[s] = run[s] + 1
    BY <2>1 DEF TypeOK
  <2>3. \A q \in Servers \ {s} : run'[q] = run[q] /\ lastSent'[q] = lastSent[q]
    BY <2>1 DEF TypeOK
  <2>4. RepliesAreSpaced'
    BY <2>1 DEF SpacingInv, RepliesAreSpaced
  <2>5. ASSUME NEW e \in accepted
        PROVE  LET last == lastSent'[ServerOf[e.msg.to]][e.msg.from]
               IN  /\ e.at <= now /\ e.run <= run'[ServerOf[e.msg.to]]
                   /\ e.replied /\ e.run = run'[ServerOf[e.msg.to]]
                      => last # Never /\ e.at <= last
    <3>1. e.run \in Nat /\ ServerOf[e.msg.to] \in Servers
      BY <1>1
    <3>2. CASE ServerOf[e.msg.to] = s
      <4>1. e.run <= run[s] /\ e.at <= now
        BY <3>2 DEF SpacingInv
      <4>2. e.run <= run'[s] /\ e.run # run'[s]
        BY <2>2, <3>1, <4>1
      <4> QED BY <3>2, <4>1, <4>2
    <3>3. CASE ServerOf[e.msg.to] # s
      BY <2>3, <3>1, <3>3 DEF SpacingInv
    <3> QED BY <3>2, <3>3
  <2> QED BY <2>1, <2>4, <2>5 DEF SpacingInv
<1>11. CASE UNCHANGED vars
  BY <1>11, SpacingStays DEF vars, TypeOK
<1> QED BY <1>2, <1>3, <1>4, <1>5, <1>6, <1>7, <1>8, <1>9, <1>10, <1>11 DEF Next

-----------------------------------------------------------------------------
(* The theorems *)

\* Every variable keeps its type, whatever is posted, edited or restarted.
THEOREM TypeCorrect == Spec => []TypeOK
<1>1. Init => TypeOK
  BY TypeStarts
<1>2. TypeOK /\ [Next]_vars => TypeOK'
  BY TypeStep
<1> QED BY <1>1, <1>2, PTL DEF Spec

LEMMA Origins == Spec => [](TypeOK /\ OriginInv /\ SendInv)
<1>1. Init => TypeOK /\ OriginInv /\ SendInv
  BY TypeStarts, OriginStarts, SendsStart
<1>2. TypeOK /\ OriginInv /\ SendInv /\ [Next]_vars => TypeOK' /\ OriginInv' /\ SendInv'
  BY TypeStep, OriginStep, SendStep
<1> QED BY <1>1, <1>2, PTL DEF Spec

\* _check_list_posting and _should_auto_reply together end every chain: what
\* a post sets off is at most a forward, an empty one of what is left of this
\* as Misfin(B), and a reply, for any lists that subscribe to each other, any
\* mailboxes that are away, and whatever is answered with a failure.
THEOREM NoLoops == Spec => []ChainsAreShort
<1>1. TypeOK /\ OriginInv /\ SendInv => ChainsAreShort
  BY ShortChains
<1> QED BY <1>1, Origins, PTL

\* No mailbox stores the text of a post twice, for any lists that its owner
\* is on, unless the client had to send the same message as Misfin(B) again.
THEOREM NoSecondCopy == Spec => []OneCopyEach
<1>1. TypeOK /\ OriginInv /\ SendInv => OneCopyEach
  BY CopiesAreOne
<1> QED BY <1>1, Origins, PTL

\* _forward_to_list sends to the subscribers of the time the post was accepted.
THEOREM ForwardsAreForSubscribers == Spec => []ForwardsGoToSubscribers
<1>1. TypeOK /\ OriginInv /\ SendInv => ForwardsGoToSubscribers
  BY ForwardsReach
<1> QED BY <1>1, Origins, PTL

\* _auto_reply_last_sent keeps replies apart while a server runs.
THEOREM OneReplyAnInterval == Spec => []RepliesAreSpaced
<1>1. Init => TypeOK /\ SpacingInv
  BY TypeStarts, SpacingStarts
<1>2. TypeOK /\ SpacingInv /\ [Next]_vars => TypeOK' /\ SpacingInv'
  BY TypeStep, SpacingStep
<1>3. SpacingInv => RepliesAreSpaced
  BY DEF SpacingInv
<1> QED BY <1>1, <1>2, <1>3, PTL DEF Spec
==============================================================================
