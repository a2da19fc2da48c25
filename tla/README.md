# titlani: TLA+ models, model checks and proofs

titlani is a Misfin mail server and client with mailing lists, sender
verification, auto-replies and GMAP, a protocol for reading a mailbox
remotely. This directory holds TLA+ models of the parts of it whose
correctness depends on the order of events: several processes that share
files, coroutines that share a cache, callbacks of one connection, servers that
send each other mail, and clients that try again.

Every definition is a translation of the Python source under
`src/src/titlani/`; `PROJECT.json` ("map") names the lines of each. Paths below
are relative to that directory.

## 1. Inventory

| Component | State it keeps | Operations | Talks to |
|---|---|---|---|
| Server connection (`server/protocol.py`) | buffer, phase flags, request, timer of one connection | data_received, timer, connection_lost, ends of middleware and handler tasks | peer; middleware; handler |
| Message handler (`server/handler.py`) | mailbox directories, time of the last auto-reply per sender (in memory) | handle_message: validate, block list, list command, list posting, store, auto-reply, forward | files; client (for what it sends); token store |
| Mailing lists (`server/lists.py`, `cli/commands/list.py`) | `subscribers.txt` of each list, the list's certificate and key | add, remove, load; "list create/add/remove" | server and administrator share the file |
| Pending tokens (`server/subscription.py`) | table `pending_subscriptions` | create, verify and consume, remove | the same two processes |
| Sender verification (`verification/`) | cache of verified senders and pinned host keys (SQLite) | verify by probe, by host key, by both; "verification spki clear" | wraps the handler; connects to the senders' hosts |
| Client (`client/`) | one request at a time; TOFU database | send, with retries, redirects and a Misfin(B) fallback | remote servers; used by CLI, handler, verifier |
| GMAP index (`gmap/mailbox.py`, `gmap/handler.py`) | `.gmap.json`: file name and tags of each message | list, get, tag, untag, delete, each after load and sync | files, which the Misfin server adds and the CLI renames and removes |
| GMAP connection (`gmap/protocol.py`) | buffer, timer | data_received, timer, connection_lost | peer; GMAP handler |
| CLI mail commands (`cli/commands/mail.py`) | none of their own | read, delete, block, unblock | mailbox files |
| Verification results (`server/handler.py`) | `.meta.json` of each mailbox | upsert with every verified message | files |
| Identity of a list (`server/lists.py`) | certificate and key in the list's mailbox | made by the first that needs it, loaded by all | server (forwards, confirmations) and "list add" |
| Block lists | `.blocked` | read by the server, rewritten by "mail block/unblock" | files |
| Start-up (`server/server.py`, `server/config.py`) | none after start | configuration, certificates, wiring | all |
| Formats, IDs, encryption, certificates, display | none | pure functions and formatting | all |

What is hard about each, and what makes it correct:

* **Membership of lists.** Two processes read, filter and rewrite one text file
  without a lock; tokens are selected and deleted in two statements; a process
  may stop between any two steps. Correct means: nobody is subscribed without
  having asked and confirmed, a replaced token is dead, and the file is what the
  operations reported.
* **A connection.** Chunks, one timer, tasks and the loss of the connection
  come in any order. Correct means: one reply of a fitting kind, the request
  handled once, and every connection ends.
* **Verification.** Coroutines read the cache before an await and write it
  after; hosts change keys meanwhile. Correct means: nothing is delivered
  unchecked when checks are required, no key older than the cache time passes,
  and no pinned key is replaced in "reject" mode.
* **A send.** Hosts redirect in circles, ask to slow down, fail after they have
  stored, stay silent. Correct means: it ends, in a bounded number of attempts,
  and makes no copy that no failure explains.
* **What a message sets off.** Lists subscribe to lists, people are away,
  servers restart, and the client sends a second time, as Misfin(B), what was refused or
  failed. Correct means: chains of messages end, no second copy that no failure explains,
  spaced replies, forwards to those who were subscribed.
* **A mailbox directory.** The server makes a message file under its final name, writes
  it, sets its mode by that name and then rewrites `.meta.json`; commands of the user
  list, rename and remove files between any two of these steps, rewrite the block list,
  and make the identity of a list while the server does. Correct means: what was
  acknowledged is there, a failure is not reported of mail that lies unread, a number
  means the message that was shown, or is off by no more than was renamed meanwhile, what was blocked is refused, and certificate and
  key are of one pair.
* **GMAP tags.** The CLI renames and removes files while a request lists them.
  Correct means: acknowledged tags persist, only trash is deleted, answers are
  exact for what nobody disturbed.

`PROJECT.json` lists these hazards one by one, at their lines, with the
properties that would catch each, and says why where there is none.

## 2. Modules and how they correspond to the code

Each component's module is `<Name>.tla`; `MC<Name>.tla` and its `.cfg` files give its
constants small values; `<Name>_proofs.tla` holds theorems. Variables that the program
does not keep (histories for the properties) are the last ones declared and are marked
so; no guard reads them, except to keep a name or a pair from being used twice (`told`
in `Mailbox`'s `Used`, `made` in `ListIdentity`). `count` is read only by the bounds,
and `count.tokens` orders the rows of the token table by age. A definition named
`X_Something`, headed "Faulty", is `X` with a plausible bug; nothing uses it. It is
there to show that the property it is paired with in `PROJECT.json` would notice the
bug.

**Subscription** (server/lists.py, server/subscription.py, the command handlers of
server/handler.py, cli/commands/list.py). `file[l][a]` counts the lines of `l`'s
`subscribers.txt` that name `a`; `pending` is the token table; `proc` is what the
server and each administrator's process is doing. One action is one file operation
(`AddLoad`, `AppendLine`, `RemoveLoad`, `RemoveRead`, `Truncate`, `Rewrite`) or one SQL
statement with its commit (`CreateToken`, `HandleConfirm`'s SELECT, `ConsumeToken`,
`RemovePending`). `Truncate` and `Rewrite` are apart because `write_text` empties the
file when it opens it. `count.overlaps` notes whether an operation has begun during another.

**ServerConnection** (server/protocol.py). One action per callback. `wire` is what
the peer is going to send: a Misfin(C) header with a length, a Misfin(B) request, an
unusable header or an endless one, and possibly bytes behind it; the parameter of
`ReceiveHeader` and `ReceiveBody` is how many body bytes a chunk brings, so every way
to cut the bytes is a behaviour. `config` says whether there is a middleware chain
and whether the handler is a coroutine. `TimerFires` and `ConnectionLost` can come
between any two others.

**Verification** (verification/). A `slot` is a message being verified. An action
is what a coroutine does between two awaits: `HandleMessage` (cache look-ups),
`ProbeAnswered`, `KeySeen` (the handshake), `ClosingFails`, `KeyCompared` (the look-up and the pin after
it), `Decide`. `Rotate` is a remote operator, `ClearPins` the CLI, `Crash` a restart, which
keeps the cache and loses the slots.

**ClientSend** (client/session.py, client/protocol.py). One call of `MisfinClient.send`:
`Connects` and `ConnectionFails` (with the TOFU check after the request is written, and
none for the fallback), `GivesUp`, and one action per branch of `_send_request`:
`SlowsDown`/`Retries`, `FollowsRedirect` and its two broken kinds, `FallsBack`,
`ReturnsAnswer`. `HostHandles` is the host, at any time after the request is written,
also when the client has given up.

**MailFlow** (server/handler.py with what client/session.py puts into a message and does
about its answer). Several servers. `handle_message` has no await, so `Accept`,
`HandleUnsubscribe` and `Refuse` are whole calls, with the checks in their order, and
`Fails` is one that ends in a failure, with the message stored or not; what is sent by a
task is `SendNext`, one send at a time. A message answered 40, 59 or 60 is sent once more
as Misfin(B) (`SentAgain`): `to_bytes_b` drops its metadata and joins its lines, so that the
text decides what the message is now (`InB`). A message carries its kind, addressee, senders,
whether the addressee is named among its recipients, whether it is an auto-reply, which of
five kinds its text is of (`Texts`: nothing special, a command, a command once its lines are
joined, metadata once they are, or empty), its version, the post it goes back to, and which
send it is, numbered for each sender and addressee, so that two messages of one send and two
sends of one post are told apart. A failure is reported to the client at once, unless the
message is lost; which servers keep an archive of their lists is the constant `Archives`.

**GmapMailbox** (gmap/mailbox.py, gmap/handler.py, cli/commands/mail.py). One request at
a time (handler and delivery have no await), cut into its directory listings and file
operations: `GlobRead`, `GlobNew`, `RemoveStale`, the routed operation, `Unlink`, `Forget`,
`Answer`. `MailRead` and `MailDelete` are other processes and come between any two.

**GmapConnection** (gmap/protocol.py). As `ServerConnection`, for a protocol whose request is
a line: `DataReceived` parses the line again with every chunk that follows it, since
nothing records that it has come, and starts another task for the handler.

**Mailbox** with **BlockList** and **ListIdentity** (server/handler.py, server/lists.py,
cli/mailbox.py, cli/commands/mail.py, cli/commands/list.py). One mailbox directory and all who work
on it. `BlockList` has the `.blocked` file and the steps of the commands that rewrite it
(`Block` and `Unblock` with their read, `TruncateBlocked`, `WriteBlocked`, `UnlinkBlocked`); `ListIdentity`
has the two files of the identity (`GetIdentity`, `OpenCert`, `WriteCert`, `OpenKey`, `WriteKey`,
`LoadIdentity`). `Mailbox` extends both and adds the message files: the delivery
(`Receive`, which reads the block list, `CreateFile`, `FillFile`, `ChmodFile`, `TruncateMeta`, `WriteMeta`,
`Reply`), the server's tasks that need the identity (`StartTask`), and the commands "mail
list", "mail read" and "mail delete" (`GlobRead`, `GlobNew`, `Parse`, `ReadFile`, `Unlink`), which all
make a list of their own. Its `Next` gives the server one thing at a time and each
shell one command at a time; `ServerCrash` and `KillCommand` stop either between two steps.

**Service**, **ListMembership**, **OneSend**, **MailStore** and **TagStore** are abstract
specifications.

* `Service` is what a server promises the peer of one connection: one reply, of a fitting
  kind, an exact request handled once at most, and never after it has been answered, and
  a request with bytes behind it handled once more for each of them at the worst.
* `ListMembership` is what a list promises about who is on it, with every operation in one
  step: an invitation is used up by joining, and lost only to somebody else's confirmation or
  to a crash.
* `OneSend` is what one call of `MisfinClient.send` promises its caller: after a success there
  is a copy, after a refusal none but those that hosts reported as failures, and after either no
  host stores the message any more; only an exception or a failure leaves that open.
* `MailStore` is what a mailbox promises senders and user: a message is begun, completed, read
  and deleted in that order and never goes back, and its sender is told once, of a phase it had
  reached.
* `TagStore` is what a tagged mailbox promises its clients: a request takes effect once, in one
  step, or not at all, also when the server stops in the middle of it, and nothing else changes
  the tags of a message, except a rename under a request, of whose tags nothing is promised.

How they compose: `Mailbox` composes delivery, block list, identity and commands on one
directory. `ServerConnection` and `GmapConnection` implement one `Service`, `ClientSend` implements
`OneSend`, `Mailbox` implements `MailStore`, `GmapMailbox` implements `TagStore`, and `Subscription`
implements `ListMembership` as long as operations do not overlap (`count.overlaps`). Each mapping
is the `INSTANCE` at the end of the detailed module: the phase of a message is read off the three
sets of files (`Phase`), the tags off the saved index (`KeptTags`), and a request has
taken effect when only its answer is left. `MailFlow` takes from `Subscription` only that a
subscription changes (`EditSubscribers`), from `ClientSend` that a send may be lost or time out
before it is handled and has at most two messages, the second after an answer of failure or
refusal, from `Mailbox` that an acknowledged message is stored and that one answered with a
failure may be, and from `Verification` nothing (an unverified message is one that never arrives).
Retries after 44 and redirects, which store nothing, are in `ClientSend` only.
`ServerConnection.handled` counts what is one `Accept` in `MailFlow` and one run from `Receive`
to `Reply` in `Mailbox`.

## 3. Runs

| Run | Question | Bounds | Result |
|---|---|---|---|
| Subscription | consent, dead tokens, the file as reported, is each list a `ListMembership` | 2 lists, 2 addresses, 2 token values, 1 administrator, TTL 0 in 2 instants, 2 tokens, 3 requests, 1 command, 1 crash | holds; 0.7 million states |
| SubscriptionRace | a removal that was reported stays, with overlap | 1 list, TTL 1 in 3 instants, 3 requests, 2 commands | violated |
| ServerConnection | is it a `Service`, is a complete request kept, what do excess bytes repeat, does it end | body up to 2 bytes, up to 2 bytes too many | holds; 4 thousand |
| ServerConnectionExcess | one request, handled once | 1 byte too many | violated |
| GmapConnection | is it a `Service`, is a complete request kept and handled, what do excess bytes repeat, does it end | up to 3 bytes too many | holds; 662 |
| Verification | checks, pins, age of keys | 1 host, 2 keys, 2 slots, TTL 1 and Delay 1 in 4 instants, 1 key change, 1 clear, 1 restart | holds; 1.7 million |
| ClientSend | attempts, copies, termination, is it a `OneSend` | 2 hosts, 2 retries, 2 redirects | holds; 0.17 million |
| MailFlow | loops, copies, spacing, recipients | 2 servers, 2 lists on each other, 2 people, 2 posts, 2 instants, 1 edit, failure or crash | holds; 1.3 million |
| Mailbox | deliveries, commands, block list, identity, is it a `MailStore` | 2 messages, 2 senders, 2 shells; workloads below | holds; 1.8 million |
| MailboxBlocks | who was reported blocked is blocked, with overlap | 2 shells, 2 block commands | violated |
| GmapMailbox | tags, deletion, answers, is it a `TagStore` | 2 messages, 3 tags, 3 requests, 1 crash | holds; 1.6 million |
| GmapMailboxRename | a rename keeps tags | 1 message, 3 requests | violated |

The bounds (`Max...` constants) occur only in the guards of the actions they
bound. They are enough for what the properties need: two addresses so that a token can
be shared or foreign, two tokens so that one replaces another, two instants and a TTL of 0 so that a
token can be at its limit or expired; a body of two bytes so that it can come in
none, one or two chunks and before or with the rest; two slots of one host so that one
check ends inside another; two hosts so that a redirect can go away and come back;
two lists on each other and two servers so that every loop of lists and replies is
there, with a post whose text becomes a command as Misfin(B), one whose text becomes
metadata, and a failure after storing; three requests so that one can tag, one run into a rename and one look.

`Mailbox` has `Workloads` in place of one bound for each kind of event: `count` starts as one
of them and counts down. One has two messages and three commands on them, so that a list
is shown, mail comes or is read in a second shell, and a number from the first list is
used; one has two messages, a command, a use of the identity and a crash, for a torn
`.meta.json` that a second message meets; one has a message, two commands on the block
list, two uses of the identity by two shells or by a shell and the server, and a
crash. The commands on messages and those on the block list touch no file in common,
which is why no workload has many of both. The two names are of one second, so that a later
message may sort before an earlier one, which also covers messages of two seconds.
`CHECK_DEADLOCK FALSE` in a `.cfg`: in every module the bounds end the behaviours, and a
connection or a send comes to an end anyway.

The four runs that are expected to be violated show where the code does something else
than the repository says; `PROJECT.json` ("findings") quotes the lines. Each is a
separate formula; the properties of the other runs are those that do hold, with the
exception made explicit where the code forces one. What they except:

* `wire.excess = 0`, `raced`, `rough`: what ServerConnectionExcess, GmapMailboxRename and
  MailboxBlocks show.
* `overlaps` in `FileIsWhatWasReported` and `ImplementsMembership`: what SubscriptionRace shows,
  and that a line appended while "list remove" is between its reading and its rewriting of the
  file is lost, so that somebody who has confirmed is not subscribed.
* `clash` in `IdentityIsAPair`: two first users of a list's identity, who leave the certificate
  of one with the key of the other.
* `tears` in `VerdictsKept`: the verdicts that a crash in the middle of writing `.meta.json` takes
  away for good. Deliveries go on, which `ImplementsMailStore` checks.
* The run of the server in `RepliesAreSpaced`: the handler forgets over a restart whom it has
  replied to (docs/how-to/auto-reply.md:62 says "minimum time between replies").
* The second hop in `ChainsAreShort`: docs/how-to/mailing-lists.md:123 says that a message is
  not forwarded again; it is, once and without its text, when the text of a refused forward is
  read as metadata of Misfin(B).
* `stale` in `IndexMeansWhatWasSeen`: lists that were shown before a message came or went, or
  were made while one was renamed. `missed` there is no exception but a bound: by how much
  "mail read" and "mail delete" can be off the message that was shown.

A further disagreement follows from two definitions of `MailFlow` and has no run: `MayPost`
refuses what names the list, and what the project's own client sends names it always, as
Misfin(C) by the client (client/session.py:108-113) and as Misfin(B) by the server
(server/handler.py:329-335), so a subscriber can post to a list with another client only
(docs/how-to/mailing-lists.md:172 says otherwise).

Eight properties that another one implies are no properties of the runs; the bug that breaks
one of them breaks the other too. `RepeatsNeedExcess` of both connections follows from `Service`,
`NoUnexplainedCopy` and `RefusedIsNotStored` from `OneSend`, `AcknowledgedIsStored` and
`FailureMeansTouched` from `MailStore`, `DeletedIsGone` from `TagStore`; `LineIsNotLost` is what
the liveness of a GMAP connection rests on, and so is `OpenIsAttended` for both. Each is stated in its
module, and proved.

**Fairness.** Four liveness properties are checked. `ConnectionEnds` of both
connections assumes weak fairness of the timer, the tasks' ends and of
`connection_lost` after `close()`: asyncio runs due timers and ready tasks, the middleware chain
does no input or output, and every await in the handlers has a timeout; nothing is
assumed of the peer. Under the same fairness `CompleteRequestIsHandled` says that a GMAP request
whose line has come is handled, also when its peer is gone. `SendEnds`
assumes weak fairness of the client's next step: every await in `client/session.py` is
within `wait_for` or a sleep. The sleep after a 44 lasts as long as the host asks, without a
limit (client/session.py:274-278), so the send ends, but no host promises when; nothing else
is assumed of the hosts. `WF` is enough in
all: each of these steps, once possible, stays possible until it is taken or another of
them takes its place.

## 4. Proofs

TLC checks the instances above; the theorems hold for every value of the constants under the
module's named assumption (`SubscriptionAssumption` and so on), which asks for natural numbers
as bounds and limits, and for what the code takes as given: a server that is no administrator
(`Subscription`), a host for each sender (`Verification`), lists that have a mailbox and posts
whose first sender is one of their senders (`MailFlow`), the tags the handler sets
(`GmapMailbox`), finitely many names and the server among those who make an identity
(`Mailbox`). Bounds are constants too, so the theorems do not depend on them. Every invariant,
every action property and every refinement of the passing runs is proved: both connections are a
`Service`, a list is a `ListMembership`, a send a `OneSend`, a mailbox a `MailStore` and a
tagged one a `TagStore`.

* `Subscription_proofs`: `TypeCorrect`, `NobodySubscribedWithoutConsent`,
  `ReplacedTokensAreDead`, `SubscriptionIsMembership`, `FileIsTrue`. Consent is not inductive by
  itself: between the redemption of a token and the line in the file the address is only in
  `proc`, and a rewrite writes back what it read long ago. The invariant says, besides, that
  every pending row has been issued, that a process about to consume, add or append carries an
  address that has consented if it is to get that far, and that the content a process has read
  contains only such addresses. That consent is never withdrawn (`issued`, `presented` and
  `granted` only grow) is a lemma of its own. The refinement and the truth of the file share an
  invariant (`SerialInv`) about operations that do not overlap: what the one busy process has
  read is still in the file, and what it will report is fixed. `ReportedInv` carries the half of
  the file's truth that a crash leaves: nobody is in the file, or about to be written back, whom
  no operation has reported.
* `ServerConnection_proofs`: `TypeCorrect`, `OneReply`, `NoSilentHangUp`,
  `CompleteRequestHasNoTimeout`, `HandledOnceWithoutExcess`, `NoConnectionHangs`,
  `NoRequestDropped`, `OneMorePerExcessByte`, `ConnectionIsService`. The invariants tie
  `written` to the state of the transport (nothing is written to an open one yet), the timer to
  `processed`, and the number of tasks to the number of calls of `_process_request`; without
  excess bytes the second phase cannot be complete twice. `CarriedInv` follows each processing
  to its end: it is being screened or handled, or was handled, or has closed the connection; and
  each after the first had a byte of its own. For the refinement the invariants also say what is
  left to do for an exact peer: its first handling, with nothing written before it.
* `GmapConnection_proofs`: `TypeCorrect`, `CompleteLineHasNoTimeout`, `NoConnectionHangs`,
  `NoLineLost`, `OneMorePerExcessByte`, `ConnectionIsService`, along the same line.
* `ClientSend_proofs`: `TypeCorrect`, `SendIsBounded`, `CopiesAreExplained`,
  `RefusedMeansNotStored`, `SendRunsOut`, `SendIsOneSend`. The measure of the second is `depth *
  (max_retries + 1) + retries`, which each new connection increases, with one more for the
  fallback; copies are tied to the answers that the client has already acted on. `SendRunsOut`
  has a measure that decreases: `StepsLeft` counts the connections that are left, and the steps
  of each. A redirect gives the retries back, and they were paid for. `AnswerInv` ties the
  result to the last request, for `SendIsOneSend`.
* `Verification_proofs`: `TypeCorrect`, `PinsAreKept`, `RequiredIsChecked`,
  `PassedKeysAreRecent`. The last one needs the strongest invariant: a pin's time is never more
  than `Delay` after the host last held the key, and a check that waits or has seen the key
  began no more than `Delay` ago and saw the key after it began; with the lemma that the time at
  which a host last held a key only grows. Here `Delay` is the one thing assumed of the network:
  that the connection of an SPKI check is over in a bounded time, by its `wait_for` and by
  asyncio's limit on the closing handshake.
* `MailFlow_proofs`: `TypeCorrect`, `NoLoops`, `NoSecondCopy`, `ForwardsAreForSubscribers`,
  `OneReplyAnInterval`. `OriginInv` says where every message comes from, in either version: a
  forward goes back to a message that a list accepted, and is what that list sends to one of
  the subscribers it had then; a reply goes back to a post or a forward, never to a reply. What
  is sent names its recipient, so no list accepts it as Misfin(C). As Misfin(B) it names the
  recipient too, or its text was metadata and there is nothing left in it (`Blind`), in which
  case a list may pass it on once: an empty text is refused as Misfin(B). Replies keep their
  tag, and nobody answers them. `SendInv` is about the numbers of sends: a new send has a
  number that no message has; the messages of one send differ in their version only, and the
  second is on its way only when the first is not; a message is accepted once and forwarded by
  one task, which sends to each subscriber once. With `OriginInv` this leaves, of two copies in one
  mailbox, only the two messages of one send, and the first of them was not accepted.
  `SpacingInv` ties the accepted messages to what a server that still runs remembers: the time
  noted for a sender is never before a reply that was decided on.
* `GmapMailbox_proofs`: `TypeCorrect`, `TagsPersist`, `TrashOnly`, `ExactAnswers`,
  `DeletedForGood`, `MailboxIsTagStore`. `TagsInv` compares the index with what is due to be
  told by the next answer (`Due`), so that a change that has been saved and not been answered
  yet is no exception; the copy in memory and the saved index never differ in tags. `NamesInv`
  follows the two listings: which entries have the names of their files after each, for files
  that are not renamed meanwhile. `DeleteInv` says that an entry is only given up when its file
  is gone. In the refinement the save of the index is the moment a request takes effect, an
  unlink removes the message, and a rename that another process makes during a request loses the
  tags of its message from that moment (`Lose`), although the clean-up comes later; the listings
  and the clean-up stutter.
* `Mailbox_proofs`: `TypeCorrect`, `AcknowledgedMailIsThere`, `FailuresAreOfTouchedMail`,
  `VerdictsStay`, `NumbersAreStable`, `IdentityFits`, `BlocksAreObeyed`, `MailboxIsMailStore`.
  Every step is a step of some of three parts that share no variable (lemma `Parts`), and each
  has an invariant: of edits of the block list that overlap no other there is at most one at
  work, and what it will leave in the file is what it will report; a process that makes an
  identity alone has not left a key yet, and from writing the certificate to writing the key the
  certificate is of its pair; and, for the messages, what is true of a delivery at each of its
  steps, and that a list lacks no file but those that were renamed while it was made; a lemma on
  cardinalities (`LostAreFewer`) gets from this by how much a number can differ. The refinement
  takes each message by itself: lemmas say which step changes the phase of a message, and
  `StoreInv` that what is not whole is unread, and what was removed is not there.

What stays with TLC: the four liveness properties (the prover has no backend for `ENABLED` and
fairness here), and that the four expected violations happen. Of each liveness property the part
that needs no fairness is proved: an open connection always has something to come
(`NoConnectionHangs`), a GMAP request whose line has come is handled or has a task
(`NoLineLost`), and a send has fewer steps left after each (`SendRunsOut`). No module uses
RECURSIVE operators.

## 5. Not modelled

* Start-up and configuration: run once, sequential; what they choose are the
  `config` variable, which ranges over all choices, and constants such as `Archives`. The server's own
  certificates are made in the order of `ListIdentity`, by one process before it serves.
* Message texts, headers' syntax, message IDs, encryption at rest, certificates:
  data, of which the models keep what the handlers decide by. Message IDs are taken to
  be unique.
* In `MailFlow`, probes, messages without a certificate, texts that begin like a line of senders,
  and the limit on the length of a Misfin(B) message (one that is too long is not sent, as one that is lost).
* The CLI's output, prompts, search, set-up and configuration commands: they read files or
  write them once, and share no state with a running server but what `Mailbox`,
  `Subscription` and `Verification` have of them.
* tlacacoca (TLS, rate limiting, TOFU database): external, seen only through its answers.
* `cleanup` of both stores and `revoke` of the verification cache: no caller in the program.
* In `Mailbox`, the list's `subscribers.txt` (that is `Subscription`) and `.gmap.json` (that is
  `GmapMailbox`); in `Subscription`, the end of a longer text that stays in a file behind a shorter one
  when two processes write it at once.
* In `GmapMailbox`, listings by one tag, the "List" tag, client certificates and encrypted
  names.
* That the request is on its way before the server's certificate is compared
  (client/session.py:309) is in `ClientSend` and has no property: nothing in the repository says
  what has been sent when the comparison fails.

## 6. Order of the work, and what could follow

`Subscription`, `ServerConnection`, `Verification`, `ClientSend`, `MailFlow` and `GmapMailbox` came first,
each with its properties; then `Service` and `ListMembership` with their refinements,
`GmapConnection`, the composition `Mailbox` of `BlockList` and `ListIdentity` with deliveries and
commands, and the proofs about all modules; then `OneSend`, `MailStore` and `TagStore`, with the
proofs that a send, a mailbox and a tagged mailbox implement them, and the parts of liveness that need no
fairness. Further steps could be: an abstract specification of what a verified sender is, for
`Verification` to implement; `ClientSend` composed with
`ServerConnection` and a delivery, for what a resend after a timeout stores; the number of
probes that one sender can set off at once.
