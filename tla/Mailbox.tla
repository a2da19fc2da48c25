------------------------------- MODULE Mailbox --------------------------------
(***************************************************************************)
(* One mailbox directory and all who work on it at the same time: the      *)
(* server that delivers into it (server/handler.py), and the commands of   *)
(* its user: "mail list", "mail read" and "mail delete" on the messages    *)
(* (cli/commands/mail.py, cli/mailbox.py), "mail block" and "mail unblock" *)
(* on the block list (module BlockList), and "list add" with the server on *)
(* the list's identity (module ListIdentity).                              *)
(*                                                                         *)
(* The server works on one thing at a time: nothing in a delivery waits,   *)
(* so no other handler or task of it runs in between; the commands and a   *)
(* crash may come between any two of its operations on files.  A message   *)
(* is known by the part of its file name that does not change: the second  *)
(* it came in and a hash, by which "mail list" sorts.                      *)
(***************************************************************************)
EXTENDS BlockList, ListIdentity, FiniteSets

CONSTANTS
    Server,         \* the server process
    Names,          \* names of messages: those of one second are 2k and 2k + 1
    Workloads       \* bounds: how much of what may happen, in one run or another

Kinds == {"messages", "mail", "block", "identity", "crashes"}

ASSUME MailboxAssumption ==
    /\ Server \notin Shells
    /\ Makers = Shells \cup {Server}
    /\ Names \subseteq Nat /\ IsFiniteSet(Names) /\ Names # {}
    /\ Workloads \subseteq [Kinds -> Nat]

VARIABLES
    sealed,     \* has the mailbox an encryption key?  Messages are then .enc
    inbox,      \* names of the message files that exist
    unread,     \* those with the suffix .new
    whole,      \* those whose content is written
    meta,       \* .meta.json: is it torn, and the messages it has a verdict on
    serving,    \* the delivery the server is at
    tasks,      \* forwards and confirmations the server has still to send
    reading,    \* what each shell's list, read or delete command is doing
    seen,       \* the list "mail list" last showed in each shell: its numbers
    \* What has happened.
    told,       \* what the sender of each message was told
    verdicts,   \* messages that came with a verification result
    removed,    \* messages deleted by a command
    stale,      \* has a message come or gone since that list was begun, or has
                \* one been marked as read while it was being made?
    missed,     \* messages marked as read while a command made its own list
    tears,      \* has .meta.json been torn by a crash?
    count       \* how many messages, commands and crashes may still come

mailVars == <<sealed, inbox, unread, whole, meta, serving, tasks, reading, seen,
              told, verdicts, removed, stale, missed, tears>>

vars == <<blockVars, identityVars, mailVars, count>>

-----------------------------------------------------------------------------
(* State *)

Used == {n \in Names : told[n] # "nothing"}

\* "index" is what the server has read of .meta.json.
Serving == [pc : {"idle", "refuse", "create", "fill", "chmod", "truncateMeta", "writeMeta",
                  "reply"},
            from : SUBSET Addresses, checked : BOOLEAN, name : Names, index : SUBSET Names]

\* "read" and "new" are the files found, without and with the suffix .new;
\* "name" is the message the command works on.
Reading == [pc : {"idle", "globRead", "globNew", "parse", "readFile", "unlink"},
            what : {"list", "read", "delete"}, index : Nat,
            read : SUBSET Names, new : SUBSET Names, name : Names]

SomeName == CHOOSE n \in Names : TRUE

NotServing == [pc |-> "idle", from |-> {}, checked |-> FALSE, name |-> SomeName, index |-> {}]

NotReading == [pc |-> "idle", what |-> "list", index |-> 0, read |-> {}, new |-> {},
               name |-> SomeName]

Init ==
    /\ BlockInit
    /\ IdentityInit
    /\ sealed \in BOOLEAN
    /\ inbox = {} /\ unread = {} /\ whole = {}
    /\ meta = [torn |-> FALSE, entries |-> {}]
    /\ serving = NotServing
    /\ tasks = 0
    /\ reading = [s \in Shells |-> NotReading]
    /\ seen = [s \in Shells |-> [n \in {} |-> 0]]
    /\ told = [n \in Names |-> "nothing"]
    /\ verdicts = {}
    /\ removed = {}
    /\ stale = [s \in Shells |-> TRUE]
    /\ missed = [s \in Shells |-> {}]
    /\ tears = FALSE
    /\ count \in Workloads

\* Something of a kind that is bounded happens.
Counted(what) == count[what] > 0 /\ count' = [count EXCEPT ![what] = @ - 1]

ServerIdle == serving.pc = "idle" /\ making[Server].pc = "idle"

AllStale == [s \in Shells |-> TRUE]

-----------------------------------------------------------------------------
(* Delivery *)

Serves(step) == serving' = [serving EXCEPT !.pc = step]

\* A file name nobody has used: the second it is now, and a hash.
FreshNames == {n \in Names \ Used : \A m \in Used : m < n \/ m \div 2 = n \div 2}

\* handle_message up to the block list; "checked" is whether the request
\* carries a verification result.
Receive(senders, checked) ==
    /\ ServerIdle
    /\ Counted("messages")
    /\ serving' = [NotServing EXCEPT !.pc = IF IsBlocked(senders) THEN "refuse" ELSE "create",
                                     !.from = senders, !.checked = checked]
    /\ UNCHANGED <<blockVars, identityVars, sealed, inbox, unread, whole, meta, tasks,
                   reading, seen, told, verdicts, removed, stale, missed, tears>>

\* _store_message opens the file, which makes it, ...
CreateFile ==
    /\ serving.pc = "create"
    /\ \E n \in FreshNames :
         /\ inbox' = inbox \cup {n}
         /\ unread' = unread \cup {n}
         /\ told' = [told EXCEPT ![n] = "wait"]
         /\ verdicts' = IF serving.checked THEN verdicts \cup {n} ELSE verdicts
         /\ serving' = [serving EXCEPT !.pc = "fill", !.name = n, !.from = {}]
    /\ stale' = AllStale
    /\ UNCHANGED <<blockVars, identityVars, sealed, whole, meta, tasks, reading, seen,
                   removed, missed, tears, count>>

\* Faulty write: the file is opened by its name once more.
FillFile_Reopens ==
    /\ serving.pc = "fill"
    /\ inbox' = inbox \cup {serving.name}
    /\ unread' = unread \cup {serving.name}
    /\ whole' = whole \cup {serving.name}
    /\ stale' = AllStale
    /\ Serves("chmod")
    /\ UNCHANGED <<blockVars, identityVars, sealed, meta, tasks, reading, seen, told,
                   verdicts, removed, missed, tears, count>>

\* ... writes it, whatever it is called by now, ...
FillFile ==
    /\ serving.pc = "fill"
    /\ whole' = IF serving.name \in inbox THEN whole \cup {serving.name} ELSE whole
    /\ stale' = AllStale
    /\ Serves("chmod")
    /\ UNCHANGED <<blockVars, identityVars, sealed, inbox, unread, meta, tasks, reading,
                   seen, told, verdicts, removed, missed, tears, count>>

\* ... and sets its mode by the name it was made with: the delivery fails if
\* the user has read or deleted the message meanwhile.
ChmodFile ==
    /\ serving.pc = "chmod"
    /\ IF serving.name \in inbox \cap unread
         THEN /\ Serves(IF serving.checked THEN "truncateMeta" ELSE "reply")
              /\ UNCHANGED told
         ELSE /\ serving' = NotServing
              /\ told' = [told EXCEPT ![serving.name] = "failed"]
    /\ UNCHANGED <<blockVars, identityVars, sealed, inbox, unread, whole, meta, tasks,
                   reading, seen, verdicts, removed, stale, missed, tears, count>>

\* Faulty upsert: the index starts anew with every message.
TruncateMeta_Resets ==
    /\ serving.pc = "truncateMeta"
    /\ serving' = [serving EXCEPT !.pc = "writeMeta", !.index = {}]
    /\ meta' = [torn |-> TRUE, entries |-> {}]
    /\ UNCHANGED <<blockVars, identityVars, sealed, inbox, unread, whole, tasks, reading,
                   seen, told, verdicts, removed, stale, missed, tears, count>>

\* _write_message_meta reads the index, starting anew from one it cannot
\* parse, and opens the file to write it, ...
TruncateMeta ==
    /\ serving.pc = "truncateMeta"
    /\ serving' = [serving EXCEPT !.pc = "writeMeta",
                                  !.index = IF meta.torn THEN {} ELSE meta.entries]
    /\ meta' = [torn |-> TRUE, entries |-> {}]
    /\ UNCHANGED <<blockVars, identityVars, sealed, inbox, unread, whole, tasks, reading,
                   seen, told, verdicts, removed, stale, missed, tears, count>>

\* ... and writes it with the new entry.
WriteMeta ==
    /\ serving.pc = "writeMeta"
    /\ meta' = [torn |-> FALSE, entries |-> serving.index \cup {serving.name}]
    /\ serving' = [serving EXCEPT !.pc = "reply", !.index = {}]
    /\ UNCHANGED <<blockVars, identityVars, sealed, inbox, unread, whole, tasks, reading,
                   seen, told, verdicts, removed, stale, missed, tears, count>>

\* The forward is started, and the sender told of success, or of the block.
Reply ==
    /\ serving.pc \in {"reply", "refuse"}
    /\ IF serving.pc = "reply"
         THEN tasks' = tasks + 1 /\ told' = [told EXCEPT ![serving.name] = "stored"]
         ELSE UNCHANGED <<tasks, told>>
    /\ serving' = NotServing
    /\ UNCHANGED <<blockVars, identityVars, sealed, inbox, unread, whole, meta, reading,
                   seen, verdicts, removed, stale, missed, tears, count>>

\* Faulty server: forwards come from nowhere.
StartTask_Twice ==
    /\ ServerIdle
    /\ tasks > 0
    /\ Counted("identity")
    /\ tasks' = tasks - 2
    /\ GetIdentity(Server)
    /\ UNCHANGED <<blockVars, sealed, inbox, unread, whole, meta, serving, reading, seen,
                   told, verdicts, removed, stale, missed, tears>>

\* _forward_to_list or _send_confirmation begins.
StartTask ==
    /\ ServerIdle
    /\ tasks > 0
    /\ Counted("identity")
    /\ tasks' = tasks - 1
    /\ GetIdentity(Server)
    /\ UNCHANGED <<blockVars, sealed, inbox, unread, whole, meta, serving, reading, seen,
                   told, verdicts, removed, stale, missed, tears>>

\* The server is stopped and started again; its tasks are forgotten.
ServerCrash ==
    /\ ~ServerIdle
    /\ Counted("crashes")
    /\ serving' = NotServing
    /\ tasks' = 0
    /\ tears' = (tears \/ serving.pc = "writeMeta")
    /\ IF making[Server].pc = "idle" THEN UNCHANGED identityVars ELSE MakeKilled(Server)
    /\ UNCHANGED <<blockVars, sealed, inbox, unread, whole, meta, reading, seen, told,
                   verdicts, removed, stale, missed>>

-----------------------------------------------------------------------------
(* Commands on messages.  Each makes its own list of them, sorted by name, *)
(* and takes the number it was given as a position in that list.           *)

\* A shell runs one command at a time.
Starts(s, kind) ==
    /\ editing[s].pc = "idle" /\ making[s].pc = "idle" /\ reading[s].pc = "idle"
    /\ Counted(kind)

\* "list" has no number.
MailCommand(s, what, i) ==
    /\ Starts(s, "mail")
    /\ reading' = [reading EXCEPT ![s] =
         [NotReading EXCEPT !.pc = "globRead", !.what = what, !.index = i]]
    /\ stale' = IF what = "list" THEN [stale EXCEPT ![s] = FALSE] ELSE stale
    /\ missed' = [missed EXCEPT ![s] = {}]
    /\ UNCHANGED <<blockVars, identityVars, sealed, inbox, unread, whole, meta, serving,
                   tasks, seen, told, verdicts, removed, tears>>

OnlyReads ==
    UNCHANGED <<blockVars, identityVars, sealed, inbox, unread, whole, meta, serving, tasks,
                told, verdicts, removed, stale, missed, tears, count>>

\* list_messages looks for the files of messages that have been read first ...
GlobRead(s) ==
    /\ reading[s].pc = "globRead"
    /\ reading' = [reading EXCEPT ![s].pc = "globNew", ![s].read = inbox \ unread]
    /\ OnlyReads /\ UNCHANGED seen

\* ... and for those of new messages then, ...
GlobNew(s) ==
    /\ reading[s].pc = "globNew"
    /\ reading' = [reading EXCEPT ![s].pc = "parse", ![s].new = unread]
    /\ OnlyReads /\ UNCHANGED seen

\* Faulty list: the files of each pattern are sorted by themselves.
Position_PerPattern(files, n) ==
    1 + Cardinality({m \in files : IF m \in unread <=> n \in unread THEN m > n
                                                                   ELSE n \in unread})

\* The number of a message in a list of files, the newest being the first.
Position(files, n) == 1 + Cardinality({m \in files : m > n})

\* Is the file of this message still called what the command found?
StillThere(s, n) == n \in reading[s].read \cap inbox \/ n \in reading[s].new \cap unread

\* Messages on the list: those not encrypted are read, and left out if that
\* fails.
Listed(s) ==
    {n \in reading[s].read \cup reading[s].new : sealed \/ (n \in whole /\ StillThere(s, n))}

\* The message with number i, if there is one.
At(files, i) == {n \in files : Position(files, n) = i}

\* "list" shows the messages, "read" and "delete" look their number up.
Parse(s) ==
    LET files == Listed(s)
        named == At(files, reading[s].index)
    IN  /\ reading[s].pc = "parse"
        /\ \/ /\ reading[s].what = "list"
              /\ seen' = [seen EXCEPT ![s] = [n \in files |-> Position(files, n)]]
              /\ reading' = [reading EXCEPT ![s] = NotReading]
           \/ /\ reading[s].what # "list" /\ named = {}
              /\ reading' = [reading EXCEPT ![s] = NotReading]
              /\ UNCHANGED seen
           \/ /\ reading[s].what # "list"
              /\ \E n \in named :
                   reading' = [reading EXCEPT
                     ![s].pc = IF reading[s].what = "read" THEN "readFile" ELSE "unlink",
                     ![s].name = n]
              /\ UNCHANGED seen
        /\ OnlyReads

\* Has the shell found some files, and not yet read them?
Searching(s) == reading[s].pc \in {"globNew", "parse"}

\* mail_read: a file that can be shown loses its suffix.  A list that another
\* shell is making at that moment may miss it.
ReadFile(s) ==
    LET n == reading[s].name
    IN  /\ reading[s].pc = "readFile"
        /\ reading' = [reading EXCEPT ![s] = NotReading]
        /\ IF StillThere(s, n) /\ n \in whole
             THEN /\ unread' = unread \ {n}
                  /\ stale' = [q \in Shells |->
                       stale[q] \/ (reading[q].what = "list" /\ Searching(q))]
                  /\ missed' = [q \in Shells |->
                       IF Searching(q) THEN missed[q] \cup {n} ELSE missed[q]]
             ELSE UNCHANGED <<unread, stale, missed>>
        /\ UNCHANGED <<blockVars, identityVars, sealed, inbox, whole, meta, serving, tasks,
                       seen, told, verdicts, removed, tears, count>>

\* mail_delete, after the prompt.
Unlink(s) ==
    LET n == reading[s].name
    IN  /\ reading[s].pc = "unlink"
        /\ reading' = [reading EXCEPT ![s] = NotReading]
        /\ IF StillThere(s, n)
             THEN /\ inbox' = inbox \ {n}
                  /\ unread' = unread \ {n}
                  /\ whole' = whole \ {n}
                  /\ removed' = removed \cup {n}
                  /\ stale' = AllStale
             ELSE UNCHANGED <<inbox, unread, whole, removed, stale>>
        /\ UNCHANGED <<blockVars, identityVars, sealed, meta, serving, tasks, seen, told,
                       verdicts, missed, tears, count>>

-----------------------------------------------------------------------------
(* Commands on the block list and on the list's identity *)

BlockCommand(s, a) ==
    /\ Starts(s, "block")
    /\ Block(s, a) \/ Unblock(s, a)
    /\ UNCHANGED <<identityVars, mailVars>>

\* "list add", from _send_verification on.
ListAdd(s) == Starts(s, "identity") /\ GetIdentity(s) /\ UNCHANGED <<blockVars, mailVars>>

\* The user stops a command on one of the two.
KillCommand(s) ==
    /\ Counted("crashes")
    /\ \/ EditKilled(s) /\ UNCHANGED identityVars
       \/ MakeKilled(s) /\ UNCHANGED blockVars
    /\ UNCHANGED mailVars

-----------------------------------------------------------------------------

ServerStep ==
    \/ \E senders \in SUBSET Addresses, checked \in BOOLEAN : Receive(senders, checked)
    \/ CreateFile \/ FillFile \/ ChmodFile \/ TruncateMeta \/ WriteMeta \/ Reply
    \/ StartTask
    \/ ServerCrash

ShellStep(s) ==
    \/ MailCommand(s, "list", 0)
    \/ \E what \in {"read", "delete"}, i \in 1..Cardinality(Names) : MailCommand(s, what, i)
    \/ GlobRead(s) \/ GlobNew(s) \/ Parse(s) \/ ReadFile(s) \/ Unlink(s)
    \/ \E a \in Addresses : BlockCommand(s, a)
    \/ EditStep(s) /\ UNCHANGED <<identityVars, mailVars, count>>
    \/ ListAdd(s)
    \/ KillCommand(s)

Next ==
    \/ ServerStep
    \/ \E s \in Shells : ShellStep(s)
    \/ \E m \in Makers : MakeStep(m) /\ UNCHANGED <<blockVars, mailVars, count>>

Spec == Init /\ [][Next]_vars

-----------------------------------------------------------------------------
(* Properties *)

MailTypeOK ==
    /\ sealed \in BOOLEAN
    /\ inbox \subseteq Names /\ unread \subseteq inbox /\ whole \subseteq inbox
    /\ meta \in [torn : BOOLEAN, entries : SUBSET Names]
    /\ serving \in Serving
    /\ tasks \in Nat
    /\ reading \in [Shells -> Reading]
    /\ DOMAIN seen = Shells
    /\ \A s \in Shells : \E files \in SUBSET Names : seen[s] \in [files -> Nat]
    /\ told \in [Names -> {"nothing", "wait", "stored", "failed"}]
    /\ verdicts \subseteq Names
    /\ removed \subseteq Names
    /\ stale \in [Shells -> BOOLEAN]
    /\ missed \in [Shells -> SUBSET Names]
    /\ tears \in BOOLEAN
    /\ count \in [Kinds -> Nat]

TypeOK == BlockTypeOK /\ IdentityTypeOK /\ MailTypeOK

\* A sender told of success can rely on it: the message is in the mailbox
\* with all of its content, unless the user has deleted it.
AcknowledgedIsStored ==
    \A n \in Names : told[n] = "stored" => n \in whole \/ n \in removed

\* A sender is told of a failure after the message was written only if the
\* user has read or deleted it already: nobody sends again what is unread.
FailureMeansTouched ==
    \A n \in Names : told[n] = "failed" => n \notin unread

\* The verdict on every acknowledged message stays in .meta.json whatever
\* messages follow, until a crash tears the file.
VerdictsKept ==
    \A n \in verdicts : told[n] = "stored" /\ ~tears =>
        n \in meta.entries \/ (serving.pc = "writeMeta" /\ n \in serving.index)

\* The phase of a message, read off the files; only the user makes one go.
PhaseOf(n) ==
    CASE n \in inbox \ whole -> "partial"
      [] n \in whole \cap unread -> "new"
      [] n \in whole \ unread -> "read"
      [] n \notin inbox -> IF n \in removed THEN "gone" ELSE "none"

Phase == [n \in Names |-> PhaseOf(n)]

\* The message being delivered.
Current == IF serving.pc \in {"idle", "refuse", "create"} THEN {} ELSE {serving.name}

Store == INSTANCE MailStore WITH phase <- Phase, current <- Current

\* However deliveries, commands and crashes meet, the directory is a MailStore:
\* no message comes back after it was deleted or is unread again after it was
\* read, what a crash has left in pieces stays so, and each sender is told
\* once, and truly.
ImplementsMailStore == Store!Spec

\* Help text of "mail read", cli/commands/mail.py:192, "Message index (from
\* 'mail list')", and so of "mail delete", 248: a command works on the message
\* the user saw at that number, also when messages have been read meanwhile,
\* unless one has come or gone since, or was read while the list was made.  Only
\* if other shells mark newer ones as read while it searches, it may work on one
\* that was shown that many places further down.
IndexMeansWhatWasSeen ==
    \A s \in Shells : reading[s].pc \in {"readFile", "unlink"} /\ ~stale[s] =>
        LET n == reading[s].name
        IN  /\ n \in DOMAIN seen[s]
            /\ seen[s][n] - reading[s].index \in 0..Cardinality({m \in missed[s] : m > n})

\* While no block or unblock command is at work, and none has overlapped
\* another or been cut short before, the server takes a message just if the
\* commands have not reported its sender to be blocked.
BlockListIsObeyed ==
    [][count'.messages < count.messages /\ Calm
         => (serving'.pc = "refuse" <=> serving'.from \cap reported # {})]_vars

\* docs/how-to/contact-blocking.md:22 "This creates or appends to the
\* `.blocked` file": when no command on the list is at work, whoever was
\* reported to be blocked is on it.
BlockedStaysBlocked ==
    (\A s \in Shells : editing[s].pc = "idle") => reported \subseteq blocked.lines
===============================================================================
