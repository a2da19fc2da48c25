------------------------------- MODULE TagStore --------------------------------
(***************************************************************************)
(* What a tagged mailbox promises its clients, whatever index it keeps: a  *)
(* request takes effect once and at once, or not at all, also when the     *)
(* server stops in the middle of it, and nothing else changes the tags of  *)
(* a message.  A message that another process renames under a request may  *)
(* be lost track of; only of its tags nothing is promised then.            *)
(* GmapMailbox implements it.                                              *)
(***************************************************************************)
CONSTANTS Msgs, Request, NoRequest,
          First     \* the tags of every new message

VARIABLES
    state,      \* state[m]: "none", "kept", "loose" or "gone"
    tags,       \* the tags of the messages that are kept
    request,    \* the request being worked on, or NoRequest
    done,       \* has it taken effect?
    unsure      \* messages of requests that were never answered

vars == <<state, tags, request, done, unsure>>

Init ==
    /\ state = [m \in Msgs |-> "none"]
    /\ tags = [m \in Msgs |-> {}]
    /\ request = NoRequest
    /\ done = FALSE
    /\ unsure = {}

Begin(r) ==
    /\ request = NoRequest
    /\ request' = r
    /\ UNCHANGED <<state, tags, done, unsure>>

\* The tags of a message once the request has taken effect.
After(m) ==
    IF request.op = "tag" /\ request.msg = m THEN tags[m] \cup {request.tag}
    ELSE IF request.op = "untag" /\ request.msg = m THEN tags[m] \ {request.tag}
    ELSE tags[m]

\* Of a message that is not kept there are no tags to change.  A deletion that
\* has taken effect has its message gone, unless it was lost track of.
TakeEffect ==
    /\ request # NoRequest /\ ~done
    /\ request.op = "delete" => state[request.msg] \in {"loose", "gone"}
    /\ tags' = [m \in Msgs |-> IF state[m] = "kept" THEN After(m) ELSE tags[m]]
    /\ done' = TRUE
    /\ UNCHANGED <<state, request, unsure>>

\* Only what has taken effect is answered with success ...
Answer ==
    /\ done
    /\ request' = NoRequest /\ done' = FALSE
    /\ UNCHANGED <<state, tags, unsure>>

\* ... and only a deletion, or a request for what is not kept, is refused.
Refuse ==
    /\ request # NoRequest /\ ~done
    /\ request.op \in {"tag", "untag", "get"} => state[request.msg] # "kept"
    /\ request.op # "list"
    /\ request' = NoRequest
    /\ UNCHANGED <<state, tags, done, unsure>>

\* The server stops: the client does not know whether it took effect.
Crash ==
    /\ request # NoRequest
    /\ request' = NoRequest /\ done' = FALSE
    /\ unsure' = unsure \cup {m \in Msgs : request.op # "list" /\ request.msg = m}
    /\ UNCHANGED <<state, tags>>

Deliver(m) ==
    /\ state[m] = "none"
    /\ state' = [state EXCEPT ![m] = "kept"]
    /\ tags' = [tags EXCEPT ![m] = First]
    /\ UNCHANGED <<request, done, unsure>>

\* Another process renames the file, of all times during a request.
Lose(m) ==
    /\ request # NoRequest /\ ~done
    /\ state[m] = "kept"
    /\ state' = [state EXCEPT ![m] = "loose"]
    /\ tags' = [tags EXCEPT ![m] = {}]
    /\ UNCHANGED <<request, done, unsure>>

\* By a request or by another process, at any time; it does not come back.
Remove(m) ==
    /\ state[m] \in {"kept", "loose"}
    /\ state' = [state EXCEPT ![m] = "gone"]
    /\ tags' = [tags EXCEPT ![m] = {}]
    /\ UNCHANGED <<request, done, unsure>>

Next ==
    \/ \E r \in Request : Begin(r)
    \/ TakeEffect \/ Answer \/ Refuse \/ Crash
    \/ \E m \in Msgs : Deliver(m) \/ Lose(m) \/ Remove(m)

Spec == Init /\ [][Next]_vars
===============================================================================
