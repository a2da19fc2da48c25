----------------------------- MODULE Subscription -----------------------------
(***************************************************************************)
(* Who is on a mailing list.  Two stores decide it: subscribers.txt in the *)
(* list's mailbox (server/lists.py) and the table of pending tokens in     *)
(* subscription_pending.db (server/subscription.py).  Two kinds of process *)
(* change them: the server, whose handlers for "subscribe", "confirm" and  *)
(* "unsubscribe" (server/handler.py) run one at a time in one event loop,  *)
(* and the administrators' "titlani list add/remove" commands              *)
(* (cli/commands/list.py), each a process of its own.                      *)
(*                                                                         *)
(* One action is one operation on a file or one SQL statement with its     *)
(* commit: that is what another process can come between, and where a      *)
(* crash can stop a process.  Sending the confirmation message changes     *)
(* neither store (its failures are only logged) and is left out; a token   *)
(* may be presented by anyone, whether or not it was mailed to them.       *)
(***************************************************************************)
EXTENDS Integers

CONSTANTS
    Lists,          \* names of the mailing lists
    Addresses,      \* addresses of people, in lower case
    Tokens,         \* the values secrets.token_hex(3) may return
    Server,         \* the server process
    Admins,         \* processes running a "titlani list" command
    TTL,            \* ttl_seconds of the token store, in ticks of the clock
    MaxTime, MaxTokens, MaxRequests, MaxCommands, MaxCrashes   \* bounds

ASSUME SubscriptionAssumption ==
    /\ Server \notin Admins
    /\ TTL \in Nat
    /\ {MaxTime, MaxTokens, MaxRequests, MaxCommands, MaxCrashes} \subseteq Nat

Procs == {Server} \cup Admins

VARIABLES
    file,       \* file[l][a]: number of lines of l's subscribers.txt naming a
    pending,    \* rows of pending_subscriptions, "id" being their age rank
    now,        \* datetime.now(UTC)
    proc,       \* what each process is doing
    \* What has happened, which the program does not keep but properties do.
    issued,     \* every row create_token ever wrote
    presented,  \* every confirm received: which sender showed which token when
    granted,    \* granted[l]: addresses "list add --no-verify" was run for
    promised,   \* promised[l]: members by the operations that reported success
    count       \* how many tokens, requests, commands and crashes so far, how
                \* many tokens were shown by somebody else, and whether any
                \* operation has begun during another

vars == <<file, pending, now, proc, issued, presented, granted, promised, count>>

-----------------------------------------------------------------------------
(* State *)

NoLines == [a \in Addresses |-> 0]

Row == [list : Lists, addr : Addresses, token : Tokens, at : Nat, id : Nat]

\* The steps a busy process may be at, named for the operation it does next.
Steps == {"create", "consume", "addLoad", "append", "removeLoad",
          "removeRead", "truncate", "rewrite", "unpend"}

\* "who" is the senders of the request (empty for a command), "read" the
\* content of subscribers.txt that remove_subscriber has read.
IdleProcess == [pc |-> "idle"]

Busy == [pc : Steps, list : Lists, addr : Addresses, who : SUBSET Addresses,
         read : [Addresses -> Nat]]

Process == {IdleProcess} \cup Busy

Counters == {"tokens", "requests", "commands", "crashes", "refused", "overlaps"}

Init ==
    /\ file = [l \in Lists |-> NoLines]
    /\ pending = {}
    /\ now = 0
    /\ proc = [p \in Procs |-> IdleProcess]
    /\ issued = {}
    /\ presented = {}
    /\ granted = [l \in Lists |-> {}]
    /\ promised = [l \in Lists |-> {}]
    /\ count = [tokens |-> 0, requests |-> 0, commands |-> 0, crashes |-> 0,
                refused |-> 0, overlaps |-> 0]

\* load_subscribers, as a set.
Subscribers(l) == {a \in Addresses : file[l][a] > 0}

Idle(p) == proc[p].pc = "idle"

Goto(p, step) == proc' = [proc EXCEPT ![p].pc = step]

Finish(p) == proc' = [proc EXCEPT ![p] = IdleProcess]

Begin(p, step, l, a, who) ==
    proc' = [proc EXCEPT ![p] = [pc |-> step, list |-> l, addr |-> a, who |-> who,
                                 read |-> NoLines]]

Counted(what) == count' = [count EXCEPT ![what] = @ + 1]

\* An operation begins, perhaps while other processes are at theirs.
Starts(p, what) ==
    /\ Idle(p)
    /\ count' = [count EXCEPT ![what] = @ + 1,
                    !.overlaps = IF \A q \in Procs : Idle(q) THEN @ ELSE 1]

-----------------------------------------------------------------------------
(* The token store *)

\* Faulty key: the address alone, whatever the list.
RowsOf_AnyList(l, a) == {r \in pending : r.addr = a}

\* The rows of one primary key.
RowsOf(l, a) == {r \in pending : r.list = l /\ r.addr = a}

\* Faulty upsert: without ON CONFLICT ... DO UPDATE the old token stays good.
Upsert_KeepsOld(r) == pending \cup {r}

Upsert(r) == (pending \ RowsOf(r.list, r.addr)) \cup {r}

\* SubscriptionTokenStore.create_token: any token, even one already in use.
CreateToken(p) ==
    /\ proc[p].pc = "create"
    /\ count.tokens < MaxTokens
    /\ \E t \in Tokens :
         LET r == [list |-> proc[p].list, addr |-> proc[p].addr, token |-> t,
                   at |-> now, id |-> count.tokens]
         IN  pending' = Upsert(r) /\ issued' = issued \cup {r}
    /\ Finish(p)
    /\ Counted("tokens")
    /\ UNCHANGED <<file, now, presented, granted, promised>>

\* Faulty query: the "created_at >= cutoff" condition is gone.
Redeemable_NoExpiry(l, t) == {r \in pending : r.list = l /\ r.token = t}

\* The rows verify_token's SELECT matches; fetchone returns any of them.
Redeemable(l, t) ==
    {r \in pending : r.list = l /\ r.token = t /\ r.at >= now - TTL}

\* verify_token's DELETE, by primary key; then _handle_confirm compares the
\* row's address with the senders.
ConsumeToken(p) ==
    /\ proc[p].pc = "consume"
    /\ pending' = pending \ RowsOf(proc[p].list, proc[p].addr)
    /\ IF proc[p].addr \in proc[p].who
         THEN Goto(p, "addLoad") /\ UNCHANGED count
         ELSE Finish(p) /\ Counted("refused")
    /\ UNCHANGED <<file, now, issued, presented, granted, promised>>

\* remove_pending, the last step of "list remove".
RemovePending(p) ==
    /\ proc[p].pc = "unpend"
    /\ pending' = pending \ RowsOf(proc[p].list, proc[p].addr)
    /\ promised' = [promised EXCEPT ![proc[p].list] = @ \ {proc[p].addr}]
    /\ Finish(p)
    /\ UNCHANGED <<file, now, issued, presented, granted, count>>

-----------------------------------------------------------------------------
(* subscribers.txt *)

\* Faulty add_subscriber: the address is appended without looking for it.
AddLoad_Blind(p) ==
    /\ proc[p].pc = "addLoad"
    /\ Goto(p, "append")
    /\ UNCHANGED <<file, pending, now, issued, presented, granted, promised, count>>

\* add_subscriber: the address is looked for ...
AddLoad(p) ==
    /\ proc[p].pc = "addLoad"
    /\ IF proc[p].addr \in Subscribers(proc[p].list)
         THEN Finish(p) ELSE Goto(p, "append")
    /\ UNCHANGED <<file, pending, now, issued, presented, granted, promised, count>>

\* ... and its line written at the end of the file.
AppendLine(p) ==
    /\ proc[p].pc = "append"
    /\ file' = [file EXCEPT ![proc[p].list][proc[p].addr] = @ + 1]
    /\ promised' = [promised EXCEPT ![proc[p].list] = @ \cup {proc[p].addr}]
    /\ Finish(p)
    /\ UNCHANGED <<pending, now, issued, presented, granted, count>>

\* What follows remove_subscriber: the server's handler is done, the command
\* goes on to the token store.
AfterRemove(p) ==
    IF p = Server
      THEN /\ Finish(p)
           /\ promised' = [promised EXCEPT ![proc[p].list] = @ \ {proc[p].addr}]
      ELSE Goto(p, "unpend") /\ UNCHANGED promised

\* remove_subscriber: the address is looked for, ...
RemoveLoad(p) ==
    /\ proc[p].pc = "removeLoad"
    /\ IF proc[p].addr \in Subscribers(proc[p].list)
         THEN Goto(p, "removeRead") /\ UNCHANGED promised
         ELSE AfterRemove(p)
    /\ UNCHANGED <<file, pending, now, issued, presented, granted, count>>

\* ... the whole file is read, ...
RemoveRead(p) ==
    /\ proc[p].pc = "removeRead"
    /\ proc' = [proc EXCEPT ![p].pc = "truncate", ![p].read = file[proc[p].list]]
    /\ UNCHANGED <<file, pending, now, issued, presented, granted, promised, count>>

\* ... write_text opens it for writing, which empties it, ...
Truncate(p) ==
    /\ proc[p].pc = "truncate"
    /\ file' = [file EXCEPT ![proc[p].list] = NoLines]
    /\ Goto(p, "rewrite")
    /\ UNCHANGED <<pending, now, issued, presented, granted, promised, count>>

\* Faulty rewrite: one line of the address is taken off, not all there are.
Rewrite_OneLine(p) ==
    /\ proc[p].pc = "rewrite"
    /\ file' = [file EXCEPT ![proc[p].list] = [proc[p].read EXCEPT ![proc[p].addr] = @ - 1]]
    /\ AfterRemove(p)
    /\ UNCHANGED <<pending, now, issued, presented, granted, count>>

\* ... and the lines read, without the address, are written from the start,
\* over any line another process has written since.
\* (What reaches beyond their end of a longer text stays; that is left out.)
Rewrite(p) ==
    /\ proc[p].pc = "rewrite"
    /\ file' = [file EXCEPT ![proc[p].list] = [proc[p].read EXCEPT ![proc[p].addr] = 0]]
    /\ AfterRemove(p)
    /\ UNCHANGED <<pending, now, issued, presented, granted, count>>

-----------------------------------------------------------------------------
(* Commands received by the server.  Without senders a "subscribe" or an   *)
(* "unsubscribe" changes nothing (59), so only "confirm" may have none.    *)

\* A handler runs to its end before the server starts another.
Request == count.requests < MaxRequests /\ Starts(Server, "requests")

\* _handle_subscribe: "first" is senders[0].
HandleSubscribe(l, first) ==
    /\ Request
    /\ IF first \in Subscribers(l)
         THEN UNCHANGED proc
         ELSE Begin(Server, "create", l, first, {first})
    /\ UNCHANGED <<file, pending, now, issued, presented, granted, promised>>

\* _handle_confirm up to verify_token's SELECT.
HandleConfirm(l, who, t) ==
    /\ Request
    /\ presented' = presented \cup
          {[list |-> l, addr |-> a, token |-> t, at |-> now] : a \in who}
    /\ IF Redeemable(l, t) = {}
         THEN UNCHANGED proc
         ELSE \E r \in Redeemable(l, t) : Begin(Server, "consume", l, r.addr, who)
    /\ UNCHANGED <<file, pending, now, issued, granted, promised>>

\* _handle_unsubscribe.
HandleUnsubscribe(l, first) ==
    /\ Request
    /\ IF first \in Subscribers(l)
         THEN Begin(Server, "removeLoad", l, first, {first})
         ELSE UNCHANGED proc
    /\ UNCHANGED <<file, pending, now, issued, presented, granted, promised>>

-----------------------------------------------------------------------------
(* Commands run by an administrator *)

\* An administrator's process runs one command.
Command(p) == count.commands < MaxCommands /\ Starts(p, "commands")

\* "list add": the address is looked for before anything else.
ListAdd(p, l, a) ==
    /\ Command(p)
    /\ IF a \in Subscribers(l)
         THEN UNCHANGED proc
         ELSE Begin(p, "create", l, a, {})
    /\ UNCHANGED <<file, pending, now, issued, presented, granted, promised>>

\* "list add --no-verify".
ListAddNoVerify(p, l, a) ==
    /\ Command(p)
    /\ granted' = [granted EXCEPT ![l] = @ \cup {a}]
    /\ IF a \in Subscribers(l)
         THEN UNCHANGED proc
         ELSE Begin(p, "addLoad", l, a, {})
    /\ UNCHANGED <<file, pending, now, issued, presented, promised>>

\* "list remove".
ListRemove(p, l, a) ==
    /\ Command(p)
    /\ Begin(p, "removeLoad", l, a, {})
    /\ UNCHANGED <<file, pending, now, issued, presented, granted, promised>>

-----------------------------------------------------------------------------
(* The environment *)

Tick ==
    /\ now < MaxTime
    /\ now' = now + 1
    /\ UNCHANGED <<file, pending, proc, issued, presented, granted, promised, count>>

\* The process is stopped between two steps and, if it is the server, started
\* again: both stores are on disk, and nothing else of them is kept in memory.
Crash(p) ==
    /\ ~Idle(p)
    /\ count.crashes < MaxCrashes
    /\ Finish(p)
    /\ Counted("crashes")
    /\ UNCHANGED <<file, pending, now, issued, presented, granted, promised>>

-----------------------------------------------------------------------------

Step(p) ==
    \/ CreateToken(p) \/ ConsumeToken(p) \/ RemovePending(p)
    \/ AddLoad(p) \/ AppendLine(p)
    \/ RemoveLoad(p) \/ RemoveRead(p) \/ Truncate(p) \/ Rewrite(p)

Next ==
    \/ \E p \in Procs : Step(p) \/ Crash(p)
    \/ \E l \in Lists, a \in Addresses :
         \/ HandleSubscribe(l, a) \/ HandleUnsubscribe(l, a)
         \/ \E p \in Admins :
              ListAdd(p, l, a) \/ ListAddNoVerify(p, l, a) \/ ListRemove(p, l, a)
    \/ \E l \in Lists, who \in SUBSET Addresses, t \in Tokens : HandleConfirm(l, who, t)
    \/ Tick

Spec == Init /\ [][Next]_vars

-----------------------------------------------------------------------------
(* Properties *)

TypeOK ==
    /\ file \in [Lists -> [Addresses -> Nat]]
    /\ pending \subseteq Row
    /\ now \in Nat
    /\ proc \in [Procs -> Process]
    /\ issued \subseteq Row
    /\ presented \subseteq [list : Lists, addr : Addresses, token : Tokens, at : Nat]
    /\ granted \in [Lists -> SUBSET Addresses]
    /\ promised \in [Lists -> SUBSET Addresses]
    /\ count \in [Counters -> Nat]

\* a was put on l by an administrator, or, as a sender of a message to l,
\* showed a token that had been issued to a for l no longer than TTL before.
Consented(l, a) ==
    \/ a \in granted[l]
    \/ \E r \in issued, c \in presented :
         /\ r.list = l /\ r.addr = a
         /\ c.list = l /\ c.addr = a /\ c.token = r.token
         /\ r.at <= c.at /\ c.at <= r.at + TTL

\* Nobody gets on a list without consent: whatever processes overlap, crash
\* or repeat a request, and however tokens collide, expire or are replaced,
\* each address load_subscribers returns has been confirmed by that address
\* with a live token of that list, or added by "list add --no-verify".
SubscribedByConsent ==
    \A l \in Lists : \A a \in Subscribers(l) : Consented(l, a)

\* The token store never holds a token that a later one for the same list and
\* address has replaced: only the last confirmation mailed can be answered.
OnlyLatestTokenPending ==
    \A r \in pending, s \in issued :
        r.list = s.list /\ r.addr = s.addr => s.id <= r.id

\* As long as operations run one after the other, wherever they are cut short,
\* the file holds, whenever none is running, nobody but the members that the
\* operations which reported success add up to, each on one line: nobody is
\* brought back whose removal was reported, or sent every message twice.  As
\* long as none is cut short either, it holds all of them: nobody is lost.
FileIsWhatWasReported ==
    count.overlaps = 0 /\ (\A p \in Procs : Idle(p)) =>
        \A l \in Lists : /\ Subscribers(l) \subseteq promised[l]
                         /\ \A a \in Addresses : file[l][a] <= 1
                         /\ count.crashes = 0 => Subscribers(l) = promised[l]

\* A list behaves as ListMembership promises.  An operation counts as done at
\* its last step, so a removal under way still shows the members it has read,
\* and a token taken out of the store still shows as an invitation until its
\* address is on the list.
Removing(p, l) == ~Idle(p) /\ proc[p].list = l /\ proc[p].pc \in {"rewrite", "unpend"}
                           /\ proc[p].read[proc[p].addr] > 0

Members == [l \in Lists |->
    {a \in Addresses :
        IF \E p \in Procs : Removing(p, l)
          THEN \E p \in Procs : Removing(p, l) /\ proc[p].read[a] > 0
          ELSE file[l][a] > 0}]

Joining(p) == ~Idle(p) /\ proc[p].pc \in {"addLoad", "append"}
                       /\ proc[p].addr \in proc[p].who

Invited == {<<r.list, r.addr>> : r \in pending}
             \cup {<<proc[p].list, proc[p].addr>> : p \in {q \in Procs : Joining(q)}}

Promise == INSTANCE ListMembership WITH
    members <- Members, invited <- Invited, refused <- count.refused,
    crashes <- count.crashes, overlaps <- count.overlaps

\* Taken one at a time, the operations on the file and on the token store add
\* up to the promise: an invitation is not lost before its address joins, a
\* removal takes off one address and no more, and a crash leaves nothing but
\* one invitation used up, one member gone, or an empty list.
ImplementsMembership == Promise!Spec

\* docs/how-to/mailing-lists.md:71 "Remove a subscriber (also cleans up any
\* pending verification)": when no operation is running, no address is in
\* the file whose removal was the last thing reported of it.
RemovedStaysRemoved ==
    (\A p \in Procs : Idle(p)) => \A l \in Lists : Subscribers(l) \subseteq promised[l]
=============================================================================
