------------------------------ MODULE GmapMailbox ------------------------------
(***************************************************************************)
(* The tags of a mailbox: GmapMailbox (gmap/mailbox.py) and the handler of *)
(* GMAP requests (gmap/handler.py).  Each request loads the index, brings  *)
(* it up to date with the files, saves it, and does its work.              *)
(*                                                                         *)
(* The GMAP and the Misfin server share one event loop, and no request     *)
(* awaits anything: requests and deliveries exclude each other.  "titlani  *)
(* mail read" and "mail delete" are other processes; they rename and       *)
(* remove files between any two steps of a request.  A step is a directory *)
(* listing or a system call on one file.  Encryption of the files, which   *)
(* adds ".enc" to the names, is left out, and so are lists' mailboxes.     *)
(***************************************************************************)
EXTENDS Integers

CONSTANTS
    Msgs,           \* message IDs
    Tags,           \* tags that are used
    MaxRequests, MaxCrashes     \* bounds

ASSUME GmapAssumption ==
    /\ {"Inbox", "Unread", "Trash"} \subseteq Tags
    /\ MaxRequests \in Nat /\ MaxCrashes \in Nat

VARIABLES
    file,       \* file[m]: not delivered yet, named *.gemmail.new or
                \* *.gemmail, or removed
    index,      \* .gmap.json
    mem,        \* the request's copy of the index
    pc,         \* what the request does next
    req,        \* the request: its operation, message and tag
    answer,     \* the IDs it returns
    count,
    \* The rest nobody keeps a record of.
    told,       \* the tags of each message, by the answers given so far
    unsure,     \* messages of requests that were never answered
    deleted,    \* messages that were reported as deleted
    touched,    \* messages that other processes changed during the request
    raced       \* messages that were renamed while a request relied on their name

vars == <<file, index, mem, pc, req, answer, count, told, unsure, deleted, touched, raced>>

Entry == [name : {"new", "read"}, tags : SUBSET Tags]
NoEntry == [name |-> "none"]

\* Every new message gets these tags.
First == {"Inbox", "Unread"}

Fresh(name) == [name |-> name, tags |-> First]

Request == [op : {"tag", "untag"}, msg : Msgs, tag : Tags]
             \cup [op : {"get", "delete"}, msg : Msgs]
             \cup [op : {"list"}]

NoRequest == [op |-> "none"]

Init ==
    /\ file = [m \in Msgs |-> "none"]
    /\ index = [m \in Msgs |-> NoEntry]
    /\ mem = [m \in Msgs |-> NoEntry]
    /\ pc = "idle"
    /\ req = NoRequest
    /\ answer = {}
    /\ count = [requests |-> 0, crashes |-> 0]
    /\ told = [m \in Msgs |-> First]
    /\ unsure = {} /\ deleted = {} /\ touched = {} /\ raced = {}

Exists(m) == file[m] \in {"new", "read"}

\* The file is there under the name that the index has for it.
Found(m) == mem[m].name = file[m]

-----------------------------------------------------------------------------
(* load and sync_filesystem *)

Receive(r) ==
    /\ pc = "idle" /\ count.requests < MaxRequests
    /\ mem' = index
    /\ pc' = "globRead" /\ req' = r
    /\ touched' = {} /\ answer' = {}
    /\ count' = [count EXCEPT !.requests = @ + 1]
    /\ UNCHANGED <<file, index, told, unsure, deleted, raced>>

\* Faulty: a renamed file is a new message.
Seen_Resets(m, name) == Fresh(name)

\* What is noted about a file that the loaded index has not got, by its name:
\* a new message, or the new name of a known one.
Seen(m, name) ==
    IF mem[m] = NoEntry THEN Fresh(name) ELSE [mem[m] EXCEPT !.name = name]

\* One of the patterns *.gemmail and *.gemmail.new.
Glob(name) ==
    /\ mem' = [m \in Msgs |->
                 IF file[m] = name /\ index[m].name # name THEN Seen(m, name) ELSE mem[m]]
    /\ UNCHANGED <<file, index, req, answer, count, told, unsure, deleted, touched, raced>>

GlobRead == pc = "globRead" /\ pc' = "globNew" /\ Glob("read")

GlobNew == pc = "globNew" /\ pc' = "stale" /\ Glob("new")

\* Faulty: entries without a file are kept.
Kept_All(m) == mem[m]

\* _remove_stale_entries
Kept(m) == IF Found(m) THEN mem[m] ELSE NoEntry

\* Entries without a file go, and the index is saved if it has changed.
RemoveStale ==
    /\ pc = "stale"
    /\ mem' = [m \in Msgs |-> Kept(m)]
    /\ index' = mem'
    /\ pc' = "route"
    /\ UNCHANGED <<file, req, answer, count, told, unsure, deleted, touched, raced>>

-----------------------------------------------------------------------------
(* _route *)

Routed(op) == pc = "route" /\ req.op = op

\* 51: the index has no such message.
NotFound ==
    /\ pc = "route" /\ req.op \in {"tag", "untag", "get", "delete"}
    /\ mem[req.msg] = NoEntry
    /\ pc' = "idle" /\ req' = NoRequest
    /\ UNCHANGED <<file, index, mem, answer, count, told, unsure, deleted, touched, raced>>

\* add_tag or remove_tag, and save; the answer follows.
ChangeTag ==
    /\ Routed("tag") \/ Routed("untag")
    /\ mem[req.msg] # NoEntry
    /\ mem' = [mem EXCEPT ![req.msg].tags =
                 IF req.op = "tag" THEN @ \cup {req.tag} ELSE @ \ {req.tag}]
    /\ index' = mem'
    /\ pc' = "answer"
    /\ UNCHANGED <<file, req, answer, count, told, unsure, deleted, touched, raced>>

\* list_all_msgids
ListAll ==
    /\ Routed("list")
    /\ answer' = {m \in Msgs : mem[m] # NoEntry /\ "Trash" \notin mem[m].tags}
    /\ pc' = "answer"
    /\ UNCHANGED <<file, index, mem, req, count, told, unsure, deleted, touched, raced>>

\* get_message_bytes, or "Message file missing".
Get ==
    /\ Routed("get")
    /\ mem[req.msg] # NoEntry
    /\ answer' = {m \in {req.msg} : Found(m)}
    /\ pc' = "answer"
    /\ UNCHANGED <<file, index, mem, req, count, told, unsure, deleted, touched, raced>>

\* Faulty guard: everything may be deleted.
MayDelete_All(m) == mem[m] # NoEntry

MayDelete(m) == mem[m] # NoEntry /\ "Trash" \in mem[m].tags

NotInTrash ==
    /\ Routed("delete")
    /\ mem[req.msg] # NoEntry /\ ~MayDelete(req.msg)
    /\ pc' = "idle" /\ req' = NoRequest
    /\ UNCHANGED <<file, index, mem, answer, count, told, unsure, deleted, touched, raced>>

\* delete_message, as far as filepath.exists().
Delete ==
    /\ Routed("delete") /\ MayDelete(req.msg)
    /\ pc' = IF Found(req.msg) THEN "unlink" ELSE "forget"
    /\ UNCHANGED <<file, index, mem, req, answer, count, told, unsure, deleted, touched, raced>>

Unlink ==
    /\ pc = "unlink" /\ Found(req.msg)
    /\ file' = [file EXCEPT ![req.msg] = "removed"]
    /\ pc' = "forget"
    /\ UNCHANGED <<index, mem, req, answer, count, told, unsure, deleted, touched, raced>>

\* Faulty: unlink(missing_ok=True).
UnlinkRaises_Ignored ==
    /\ pc = "unlink" /\ ~Found(req.msg)
    /\ pc' = "forget"
    /\ UNCHANGED <<file, index, mem, req, answer, count, told, unsure, deleted, touched, raced>>

\* The file has gone meanwhile: an exception, and the answer is 40.
UnlinkRaises ==
    /\ pc = "unlink" /\ ~Found(req.msg)
    /\ pc' = "idle" /\ req' = NoRequest
    /\ UNCHANGED <<file, index, mem, answer, count, told, unsure, deleted, touched, raced>>

\* The entry goes, and the index is saved.
Forget ==
    /\ pc = "forget"
    /\ mem' = [mem EXCEPT ![req.msg] = NoEntry]
    /\ index' = mem'
    /\ pc' = "answer"
    /\ UNCHANGED <<file, req, answer, count, told, unsure, deleted, touched, raced>>

\* The answer that the request has been carried out.
Answer ==
    /\ pc = "answer"
    /\ pc' = "idle" /\ req' = NoRequest
    /\ told' = IF req.op = "tag" THEN [told EXCEPT ![req.msg] = @ \cup {req.tag}]
               ELSE IF req.op = "untag" THEN [told EXCEPT ![req.msg] = @ \ {req.tag}]
               ELSE told
    /\ deleted' = IF req.op = "delete" THEN deleted \cup {req.msg} ELSE deleted
    /\ UNCHANGED <<file, index, mem, answer, count, unsure, touched, raced>>

-----------------------------------------------------------------------------
(* The Misfin server, the CLI and the environment *)

\* _store_message, between two requests.
Deliver(m) ==
    /\ pc = "idle" /\ file[m] = "none"
    /\ file' = [file EXCEPT ![m] = "new"]
    /\ UNCHANGED <<index, mem, pc, req, answer, count, told, unsure, deleted, touched, raced>>

\* "titlani mail read": the file loses its ".new".
MailRead(m) ==
    /\ file[m] = "new"
    /\ file' = [file EXCEPT ![m] = "read"]
    /\ touched' = touched \cup {m}
    /\ raced' = IF pc \in {"globNew", "stale", "route"} THEN raced \cup {m} ELSE raced
    /\ UNCHANGED <<index, mem, pc, req, answer, count, told, unsure, deleted>>

\* "titlani mail delete"
MailDelete(m) ==
    /\ Exists(m)
    /\ file' = [file EXCEPT ![m] = "removed"]
    /\ touched' = touched \cup {m}
    /\ UNCHANGED <<index, mem, pc, req, answer, count, told, unsure, deleted, raced>>

\* Faulty save: the index is overwritten in place, and a crash tears it.
Crash_TearsIndex ==
    /\ count.crashes < MaxCrashes
    /\ count' = [count EXCEPT !.crashes = @ + 1]
    /\ pc # "idle"
    /\ pc' = "idle" /\ req' = NoRequest
    /\ index' \in {index, [m \in Msgs |-> [name |-> "torn"]]}
    /\ unsure' = unsure \cup {m \in Msgs : req.op # "list" /\ req.msg = m}
    /\ UNCHANGED <<file, mem, answer, told, deleted, touched, raced>>

\* The server stops in the middle of a request and starts again; the index is
\* replaced by a rename, so it is the old or the new one.
Crash ==
    /\ count.crashes < MaxCrashes
    /\ count' = [count EXCEPT !.crashes = @ + 1]
    /\ pc # "idle"
    /\ pc' = "idle" /\ req' = NoRequest
    /\ unsure' = unsure \cup {m \in Msgs : req.op # "list" /\ req.msg = m}
    /\ UNCHANGED <<file, index, mem, answer, told, deleted, touched, raced>>

-----------------------------------------------------------------------------

Step ==
    \/ GlobRead \/ GlobNew \/ RemoveStale
    \/ NotFound \/ ChangeTag \/ ListAll \/ Get
    \/ NotInTrash \/ Delete \/ Unlink \/ UnlinkRaises \/ Forget
    \/ Answer

Next ==
    \/ \E r \in Request : Receive(r)
    \/ Step
    \/ \E m \in Msgs : Deliver(m) \/ MailRead(m) \/ MailDelete(m)
    \/ Crash

Spec == Init /\ [][Next]_vars

-----------------------------------------------------------------------------
(* Properties *)

TypeOK ==
    /\ file \in [Msgs -> {"none", "new", "read", "removed"}]
    /\ index \in [Msgs -> Entry \cup {NoEntry}]
    /\ mem \in [Msgs -> Entry \cup {NoEntry}]
    /\ pc \in {"idle", "globRead", "globNew", "stale", "route", "unlink", "forget",
               "answer"}
    /\ req \in Request \cup {NoRequest}
    /\ pc = "idle" <=> req = NoRequest
    /\ answer \subseteq Msgs
    /\ count \in [{"requests", "crashes"} -> Nat]
    /\ told \in [Msgs -> SUBSET Tags]
    /\ unsure \subseteq Msgs /\ deleted \subseteq Msgs
    /\ touched \subseteq Msgs /\ raced \subseteq Msgs

\* The tags an entry stands for; without one they are the first ones.
TagsOf(e) == IF e = NoEntry THEN First ELSE e.tags

\* Between requests the tags of a message that is there are those its client
\* was told of, through renames, deliveries, crashes and other requests,
\* unless the file was renamed in the middle of a request.
TagsAsAcknowledged ==
    pc = "idle" => \A m \in Msgs \ (raced \cup unsure) : Exists(m) => TagsOf(index[m]) = told[m]

\* Only a message its client has put into the trash is removed by a request,
\* whatever the CLI does to the files meanwhile.
OnlyTrashIsDeleted ==
    pc = "unlink" => "Trash" \in told[req.msg] \/ req.msg \in unsure

\* A listing, or the bytes, of messages that nobody changes during the
\* request are exact: what is there and not in the trash, if it was ever
\* tagged without a rename getting into the way, and nothing else.
AnswersAreExact ==
    pc = "answer" =>
        /\ req.op = "list" => \A m \in Msgs \ (touched \cup raced \cup unsure) :
               m \in answer <=> Exists(m) /\ "Trash" \notin told[m]
        /\ req.op = "get" /\ req.msg \notin touched => (req.msg \in answer <=> Exists(req.msg))

\* What is reported as deleted does not come back, unless it was renamed in
\* the middle of the request.
DeletedIsGone == \A m \in deleted \ raced : file[m] = "removed"

\* A message that was not renamed under a request is kept, with the tags that
\* the index has for it.
StateOf(m) ==
    CASE file[m] = "none" -> "none"
      [] file[m] = "removed" -> "gone"
      [] Exists(m) /\ m \in raced -> "loose"
      [] Exists(m) /\ m \notin raced -> "kept"

State == [m \in Msgs |-> StateOf(m)]

KeptTags == [m \in Msgs |-> IF StateOf(m) = "kept" THEN TagsOf(index[m]) ELSE {}]

Store == INSTANCE TagStore WITH
    state <- State, tags <- KeptTags, request <- req, done <- (pc = "answer")

\* The index and the files together are a TagStore: wherever a request is cut
\* short it has taken effect or not, and no listing, clean-up, delivery or
\* command in between changes the tags of a message.
ImplementsTagStore == Store!Spec

\* docs/how-to/gmap.md:195 "When a `.new` file is renamed (e.g., the CLI marks
\* it as read), the index updates the filename but preserves existing tags":
\* whenever that happens.
RenameKeepsTags ==
    pc = "idle" => \A m \in Msgs \ unsure : Exists(m) => TagsOf(index[m]) = told[m]
=============================================================================
