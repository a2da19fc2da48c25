--------------------------- MODULE GmapMailbox_proofs ---------------------------
(***************************************************************************)
(* Proofs about GmapMailbox, for any messages, tags and number of requests *)
(* and crashes.  What they rest on: each pattern of a listing finds the    *)
(* files that keep their name meanwhile, an entry keeps its tags when its  *)
(* file's name changes, and the copy in memory never differs from the file *)
(* in tags when a request stops.  From these it is also a TagStore.        *)
(***************************************************************************)
EXTENDS GmapMailbox, TLAPS

\* The tags of m that its client will have been told of by the next answer.
Due(m) ==
    IF pc = "answer" /\ req.op = "tag" /\ req.msg = m THEN told[m] \cup {req.tag}
    ELSE IF pc = "answer" /\ req.op = "untag" /\ req.msg = m THEN told[m] \ {req.tag}
    ELSE told[m]

Gone(m) == file[m] = "removed" \/ m \in raced

UndeliveredInv ==
    \A m \in Msgs : file[m] = "none" =>
        /\ index[m] = NoEntry /\ mem[m] = NoEntry /\ told[m] = First
        /\ ~(pc = "answer" /\ req.op \in {"tag", "untag"} /\ req.msg = m)

TagsInv ==
    /\ \A m \in Msgs : TagsOf(mem[m]) = TagsOf(index[m])
    /\ \A m \in Msgs \ (raced \cup unsure) : Exists(m) => TagsOf(index[m]) = Due(m)
    /\ \A m \in Msgs \ unsure : "Trash" \in TagsOf(index[m]) => "Trash" \in Due(m)

NamesInv ==
    /\ pc = "globRead" => mem = index
    /\ pc = "globNew" => \A m \in Msgs :
          /\ file[m] = "new" => mem[m] = index[m]
          /\ file[m] = "read" /\ m \notin raced => Found(m)
    /\ pc \in {"stale", "route"} => \A m \in Msgs \ raced : Exists(m) => Found(m)
    /\ pc = "route" => \A m \in Msgs \ touched : mem[m] # NoEntry => Found(m)

DeleteInv ==
    /\ pc = "unlink" => req.op = "delete" /\ MayDelete(req.msg)
    /\ pc = "forget" => req.op = "delete"
    /\ pc \in {"forget", "answer"} /\ req.op = "delete" => Gone(req.msg)
    /\ DeletedIsGone

IInv == TypeOK /\ UndeliveredInv /\ TagsInv /\ NamesInv /\ DeleteInv /\ AnswersAreExact

-----------------------------------------------------------------------------
(* Entries and requests *)

LEMMA Tagged == First \in SUBSET Tags /\ "Trash" \in Tags /\ "Trash" \notin First
BY GmapAssumption DEF First

LEMMA Entries ==
    ASSUME NEW e \in Entry \cup {NoEntry}
    PROVE  /\ e.name \in {"none", "new", "read"}
           /\ e = NoEntry <=> e.name = "none"
           /\ e # NoEntry => e \in Entry /\ TagsOf(e) = e.tags
           /\ TagsOf(e) \in SUBSET Tags
BY Tagged DEF Entry, NoEntry, TagsOf

LEMMA FreshEntry ==
    ASSUME NEW name \in {"new", "read"}
    PROVE  /\ Fresh(name) \in Entry /\ Fresh(name).name = name
           /\ TagsOf(Fresh(name)) = First
<1>1. Fresh(name) \in Entry /\ Fresh(name).name = name /\ Fresh(name).tags = First
  BY Tagged DEF Fresh, Entry, First
<1> QED BY <1>1, Entries DEF NoEntry

LEMMA RenamedEntry ==
    ASSUME NEW e \in Entry, NEW name \in {"new", "read"}
    PROVE  LET f == [e EXCEPT !.name = name]
           IN  f \in Entry /\ f.name = name /\ f.tags = e.tags
BY DEF Entry

LEMMA RetaggedEntry ==
    ASSUME NEW e \in Entry, NEW tags \in SUBSET Tags
    PROVE  LET f == [e EXCEPT !.tags = tags]
           IN  f \in Entry /\ f.name = e.name /\ TagsOf(f) = tags
<1> DEFINE f == [e EXCEPT !.tags = tags]
<1>1. f \in Entry /\ f.name = e.name /\ f.tags = tags
  BY DEF Entry
<1> HIDE DEF f
<1>2. TagsOf(f) = f.tags
  BY <1>1, Entries DEF NoEntry, Entry
<1> QED BY <1>1, <1>2 DEF f

LEMMA SeenEntry ==
    ASSUME TypeOK, NEW m \in Msgs, NEW name \in {"new", "read"}
    PROVE  /\ Seen(m, name) \in Entry /\ Seen(m, name).name = name
           /\ TagsOf(Seen(m, name)) = TagsOf(mem[m])
<1>1. mem[m] \in Entry \cup {NoEntry}
  BY DEF TypeOK
<1>2. CASE mem[m] = NoEntry
  BY <1>2, FreshEntry DEF Seen, TagsOf
<1>3. CASE mem[m] # NoEntry
  <2>1. PICK e \in Entry : e = mem[m] /\ TagsOf(e) = e.tags
    BY <1>1, <1>3, Entries
  <2>2. Seen(m, name) = [e EXCEPT !.name = name]
    BY <1>3, <2>1 DEF Seen
  <2>3. /\ Seen(m, name) \in Entry /\ Seen(m, name).name = name
        /\ Seen(m, name).tags = e.tags
    <3>1. /\ [e EXCEPT !.name = name] \in Entry /\ [e EXCEPT !.name = name].name = name
          /\ [e EXCEPT !.name = name].tags = e.tags
      BY RenamedEntry
    <3> QED BY <2>2, <3>1
  <2>4. Seen(m, name) # NoEntry
    BY <2>3 DEF NoEntry
  <2> QED BY <2>1, <2>3, <2>4 DEF TagsOf
<1> QED BY <1>2, <1>3

LEMMA Requests ==
    ASSUME NEW r \in Request
    PROVE  /\ r.op \in {"tag", "untag", "get", "delete", "list"}
           /\ r.op # "list" => r.msg \in Msgs
           /\ r.op \in {"tag", "untag"} => r.tag \in Tags
           /\ r # NoRequest
BY DEF Request, NoRequest

LEMMA CountIsTyped ==
    ASSUME count \in [{"requests", "crashes"} -> Nat],
           NEW k \in {"requests", "crashes"}, count' = [count EXCEPT ![k] = @ + 1]
    PROVE  count' \in [{"requests", "crashes"} -> Nat]
OBVIOUS

\* What one pattern of the listing does to the entry of a file.
LEMMA GlobChanges ==
    ASSUME TypeOK, NEW name \in {"new", "read"}, Glob(name), NEW m \in Msgs
    PROVE  /\ mem'[m] \in Entry \cup {NoEntry}
           /\ file[m] = name /\ index[m].name # name => mem'[m].name = name
           /\ file[m] # name \/ index[m].name = name => mem'[m] = mem[m]
           /\ TagsOf(mem'[m]) = TagsOf(mem[m])
<1>1. mem'[m] = IF file[m] = name /\ index[m].name # name THEN Seen(m, name) ELSE mem[m]
  BY DEF Glob
<1>2. CASE file[m] = name /\ index[m].name # name
  BY <1>1, <1>2, SeenEntry
<1>3. CASE ~(file[m] = name /\ index[m].name # name)
  BY <1>1, <1>3 DEF TypeOK
<1> QED BY <1>2, <1>3

LEMMA KeptEntry ==
    ASSUME TypeOK, NEW m \in Msgs
    PROVE  /\ Kept(m) \in Entry \cup {NoEntry}
           /\ Found(m) => Kept(m) = mem[m]
           /\ ~Found(m) => Kept(m) = NoEntry
BY DEF Kept, TypeOK

\* The new entry of a message that is tagged or untagged.
LEMMA ChangedEntry ==
    ASSUME TypeOK, ChangeTag
    PROVE  /\ req.msg \in Msgs /\ req \in Request /\ req.tag \in Tags
           /\ mem[req.msg] # NoEntry
           /\ mem' \in [Msgs -> Entry \cup {NoEntry}] /\ index' = mem'
           /\ \A m \in Msgs \ {req.msg} : mem'[m] = mem[m]
           /\ mem'[req.msg].name = mem[req.msg].name
           /\ TagsOf(mem'[req.msg]) = IF req.op = "tag" THEN TagsOf(mem[req.msg]) \cup {req.tag}
                                                      ELSE TagsOf(mem[req.msg]) \ {req.tag}
<1> DEFINE e == mem[req.msg]
           tags == IF req.op = "tag" THEN e.tags \cup {req.tag} ELSE e.tags \ {req.tag}
<1>1. /\ req.op = "tag" \/ req.op = "untag"
      /\ e # NoEntry /\ index' = mem'
      /\ mem' = [mem EXCEPT ![req.msg].tags =
                   IF req.op = "tag" THEN @ \cup {req.tag} ELSE @ \ {req.tag}]
  BY DEF ChangeTag, Routed
<1>2. req \in Request
  BY <1>1 DEF TypeOK, NoRequest
<1>3. req.msg \in Msgs /\ req.tag \in Tags
  BY <1>1, <1>2, Requests
<1>4. e \in Entry /\ TagsOf(e) = e.tags /\ e.tags \in SUBSET Tags
  <2>1. e \in Entry \cup {NoEntry}
    BY <1>3 DEF TypeOK
  <2> HIDE DEF e
  <2> QED BY <1>1, <2>1, Entries
<1>5. tags \in SUBSET Tags
  BY <1>3, <1>4
<1>6. mem' = [mem EXCEPT ![req.msg] = [e EXCEPT !.tags = tags]]
  BY <1>1, <1>3 DEF TypeOK
<1> HIDE DEF e, tags
<1>7. /\ [e EXCEPT !.tags = tags] \in Entry /\ [e EXCEPT !.tags = tags].name = e.name
      /\ TagsOf([e EXCEPT !.tags = tags]) = tags
  BY <1>4, <1>5, RetaggedEntry
<1>8. /\ mem' \in [Msgs -> Entry \cup {NoEntry}]
      /\ \A m \in Msgs \ {req.msg} : mem'[m] = mem[m]
      /\ mem'[req.msg] = [e EXCEPT !.tags = tags]
  BY <1>3, <1>6, <1>7 DEF TypeOK
<1>9. tags = IF req.op = "tag" THEN TagsOf(e) \cup {req.tag} ELSE TagsOf(e) \ {req.tag}
  BY <1>4 DEF tags
<1> QED BY <1>1, <1>2, <1>3, <1>7, <1>8, <1>9 DEF e

-----------------------------------------------------------------------------
(* Types *)

LEMMA TypeStarts == Init => TypeOK
BY Tagged, GmapAssumption DEF Init, TypeOK, First, NoRequest, Request

LEMMA TypeStep == TypeOK /\ [Next]_vars => TypeOK'
<1> SUFFICES ASSUME TypeOK, [Next]_vars PROVE TypeOK'
  OBVIOUS
<1> USE DEF TypeOK
<1>1. ASSUME NEW r \in Request, Receive(r) PROVE TypeOK'
  <2>1. /\ count' = [count EXCEPT !.requests = @ + 1] /\ mem' = index
        /\ pc' = "globRead" /\ req' = r /\ touched' = {} /\ answer' = {}
        /\ UNCHANGED <<file, index, told, unsure, deleted, raced>>
    BY <1>1 DEF Receive
  <2>2. count' \in [{"requests", "crashes"} -> Nat]
    BY <2>1, CountIsTyped
  <2>3. r # NoRequest
    BY Requests
  <2> QED BY <2>1, <2>2, <2>3
<1>2. ASSUME NEW name \in {"new", "read"}, Glob(name), pc # "idle", pc' \in {"globNew", "stale"}
      PROVE TypeOK'
  <2>1. \A m \in Msgs : mem'[m] \in Entry \cup {NoEntry}
    BY <1>2, GlobChanges
  <2>2. mem' \in [Msgs -> Entry \cup {NoEntry}]
    BY <1>2, <2>1 DEF Glob
  <2> QED BY <1>2, <2>2 DEF Glob
<1>3. CASE RemoveStale
  <2>1. mem' = [m \in Msgs |-> Kept(m)] /\ index' = mem' /\ pc = "stale" /\ pc' = "route"
        /\ UNCHANGED <<file, req, answer, count, told, unsure, deleted, touched, raced>>
    BY <1>3 DEF RemoveStale
  <2>2. mem' \in [Msgs -> Entry \cup {NoEntry}]
    BY <2>1, KeptEntry
  <2> QED BY <2>1, <2>2
<1>4. CASE NotFound \/ NotInTrash \/ UnlinkRaises
  BY <1>4 DEF NotFound, NotInTrash, UnlinkRaises
<1>5. CASE ChangeTag
  <2>1. mem' \in [Msgs -> Entry \cup {NoEntry}] /\ index' = mem'
    BY <1>5, ChangedEntry
  <2>2. pc = "route" /\ pc' = "answer"
        /\ UNCHANGED <<file, req, answer, count, told, unsure, deleted, touched, raced>>
    BY <1>5 DEF ChangeTag, Routed
  <2> QED BY <2>1, <2>2
<1>6. CASE ListAll
  BY <1>6 DEF ListAll, Routed
<1>7. CASE Get
  <2>1. req \in Request /\ req.msg \in Msgs
    BY <1>7, Requests DEF Get, Routed, NoRequest
  <2> QED BY <1>7, <2>1 DEF Get, Routed
<1>8. CASE Delete
  BY <1>8 DEF Delete, Routed
<1>9. CASE Unlink
  BY <1>9 DEF Unlink
<1>10. CASE Forget
  BY <1>10 DEF Forget
<1>11. CASE Answer
  <2>1. req \in Request
    BY <1>11 DEF Answer
  <2>2. told' \in [Msgs -> SUBSET Tags]
    <3>1. CASE req.op = "tag"
      <4>1. told' = [told EXCEPT ![req.msg] = @ \cup {req.tag}]
        BY <1>11, <3>1 DEF Answer
      <4> QED BY <2>1, <3>1, <4>1, Requests
    <3>2. CASE req.op = "untag"
      <4>1. told' = [told EXCEPT ![req.msg] = @ \ {req.tag}]
        BY <1>11, <3>2 DEF Answer
      <4> QED BY <2>1, <3>2, <4>1, Requests
    <3>3. CASE req.op \notin {"tag", "untag"}
      BY <1>11, <3>3 DEF Answer
    <3> QED BY <3>1, <3>2, <3>3
  <2>3. deleted' \subseteq Msgs
    BY <1>11, <2>1, Requests DEF Answer
  <2> QED BY <1>11, <2>2, <2>3 DEF Answer
<1>12. ASSUME NEW m \in Msgs, Deliver(m) \/ MailDelete(m) PROVE TypeOK'
  BY <1>12 DEF Deliver, MailDelete
<1>13. ASSUME NEW m \in Msgs, MailRead(m) PROVE TypeOK'
  BY <1>13 DEF MailRead
<1>14. CASE Crash
  <2>1. /\ count' = [count EXCEPT !.crashes = @ + 1] /\ pc' = "idle" /\ req' = NoRequest
        /\ unsure' \subseteq Msgs
        /\ UNCHANGED <<file, index, mem, answer, told, deleted, touched, raced>>
    BY <1>14 DEF Crash
  <2>2. count' \in [{"requests", "crashes"} -> Nat]
    BY <2>1, CountIsTyped
  <2> QED BY <2>1, <2>2
<1>15. CASE UNCHANGED vars
  BY <1>15 DEF vars
<1> QED
  BY <1>1, <1>2, <1>3, <1>4, <1>5, <1>6, <1>7, <1>8, <1>9, <1>10, <1>11, <1>12, <1>13, <1>14, <1>15
  DEF Next, Step, GlobRead, GlobNew

-----------------------------------------------------------------------------
(* The entries and the tags *)

\* A request is going on whenever a step of it is taken.
LEMMA Going ==
    ASSUME TypeOK, pc # "idle"
    PROVE  /\ req \in Request /\ req.op \in {"tag", "untag", "get", "delete", "list"}
           /\ req.op # "list" => req.msg \in Msgs
BY Requests DEF TypeOK

\* Before and after a step that gives no answer about tags, as much is due.
LEMMA DueStays ==
    ASSUME UNCHANGED told,
           pc = "answer" => req.op \notin {"tag", "untag"},
           pc' = "answer" => req'.op \notin {"tag", "untag"},
           NEW m \in Msgs
    PROVE  Due(m)' = Due(m) /\ Due(m) = told[m]
BY DEF Due

LEMMA UndeliveredStep == IInv /\ [Next]_vars => UndeliveredInv'
<1> SUFFICES ASSUME TypeOK, UndeliveredInv, DeleteInv, [Next]_vars PROVE UndeliveredInv'
  BY DEF IInv
<1>1. ASSUME NEW r \in Request, Receive(r) PROVE UndeliveredInv'
  BY <1>1 DEF Receive, UndeliveredInv
<1>2. ASSUME NEW name \in {"new", "read"}, Glob(name), pc' \in {"globNew", "stale"}
      PROVE UndeliveredInv'
  <2>1. \A m \in Msgs : file[m] = "none" => mem'[m] = mem[m]
    BY <1>2, GlobChanges
  <2> QED BY <1>2, <2>1 DEF Glob, UndeliveredInv
<1>3. CASE RemoveStale
  <2>1. \A m \in Msgs : mem[m] = NoEntry => Kept(m) = NoEntry
    BY KeptEntry
  <2>2. /\ \A m \in Msgs : mem'[m] = Kept(m) /\ index'[m] = Kept(m)
        /\ pc' = "route" /\ UNCHANGED <<file, told>>
    BY <1>3 DEF RemoveStale
  <2> QED BY <2>1, <2>2 DEF UndeliveredInv
<1>4. CASE ChangeTag
  <2>1. /\ mem[req.msg] # NoEntry /\ index' = mem'
        /\ \A m \in Msgs \ {req.msg} : mem'[m] = mem[m]
    BY <1>4, ChangedEntry
  <2>2. UNCHANGED <<file, told, req>>
    BY <1>4 DEF ChangeTag
  <2> QED BY <2>1, <2>2 DEF UndeliveredInv
<1>5. CASE NotFound \/ NotInTrash \/ UnlinkRaises \/ Delete \/ ListAll \/ Get
  BY <1>5 DEF NotFound, NotInTrash, UnlinkRaises, Delete, ListAll, Get, Routed, UndeliveredInv
<1>6. CASE Unlink
  <2>1. \A m \in Msgs : file'[m] = "none" => file[m] = "none"
    BY <1>6 DEF Unlink, TypeOK
  <2> QED BY <1>6, <2>1 DEF Unlink, UndeliveredInv
<1>7. CASE Forget
  <2>1. req.op = "delete" /\ UNCHANGED <<file, told, req>>
    BY <1>7 DEF Forget, DeleteInv
  <2>2. index' = mem' /\ \A m \in Msgs : mem'[m] \in {mem[m], NoEntry}
    BY <1>7 DEF Forget, TypeOK
  <2> QED BY <2>1, <2>2 DEF UndeliveredInv
<1>8. CASE Answer
  <2>1. \A m \in Msgs : ~(req.op \in {"tag", "untag"} /\ req.msg = m) => told'[m] = told[m]
    <3>1. req \in Request
      BY <1>8, Going DEF Answer
    <3> QED BY <1>8, <3>1, Requests DEF Answer, TypeOK
  <2> QED BY <1>8, <2>1 DEF Answer, UndeliveredInv
<1>9. ASSUME NEW m \in Msgs, Deliver(m) \/ MailRead(m) \/ MailDelete(m) PROVE UndeliveredInv'
  <2>1. \A n \in Msgs : file'[n] = "none" => file[n] = "none"
    BY <1>9 DEF Deliver, MailRead, MailDelete, TypeOK
  <2>2. UNCHANGED <<index, mem, told, pc, req>>
    BY <1>9 DEF Deliver, MailRead, MailDelete
  <2> QED BY <2>1, <2>2 DEF UndeliveredInv
<1>10. CASE Crash
  BY <1>10 DEF Crash, UndeliveredInv
<1>11. CASE UNCHANGED vars
  BY <1>11 DEF vars, UndeliveredInv
<1> QED
  BY <1>1, <1>2, <1>3, <1>4, <1>5, <1>6, <1>7, <1>8, <1>9, <1>10, <1>11
  DEF Next, Step, GlobRead, GlobNew

\* A step that neither tags nor answers keeps what is due.
LEMMA TagsStay ==
    ASSUME TypeOK, TagsInv, \A m \in Msgs : TagsOf(mem'[m]) = TagsOf(index'[m]),
           \A m \in Msgs : TagsOf(index'[m]) = TagsOf(index[m]),
           \A m \in Msgs \ unsure' : Due(m)' = Due(m),
           \A m \in Msgs : Exists(m)' => Exists(m),
           unsure \subseteq unsure', raced \subseteq raced'
    PROVE  TagsInv'
BY DEF TagsInv

LEMMA TagsStep == IInv /\ [Next]_vars => TagsInv'
<1> SUFFICES ASSUME TypeOK, UndeliveredInv, TagsInv, NamesInv, DeleteInv, [Next]_vars
             PROVE  TagsInv'
  BY DEF IInv
<1>1. ASSUME NEW r \in Request, Receive(r) PROVE TagsInv'
  <2>1. /\ mem' = index /\ UNCHANGED <<file, index, told, unsure, raced>>
        /\ pc # "answer" /\ pc' # "answer"
    BY <1>1 DEF Receive
  <2>2. \A m \in Msgs : Due(m)' = Due(m)
    BY <2>1, DueStays
  <2> QED BY <2>1, <2>2, TagsStay DEF Exists
<1>2. ASSUME NEW name \in {"new", "read"}, Glob(name), pc # "answer", pc' \in {"globNew", "stale"}
      PROVE TagsInv'
  <2>1. UNCHANGED <<file, index, told, unsure, raced>>
    BY <1>2 DEF Glob
  <2>2. \A m \in Msgs : TagsOf(mem'[m]) = TagsOf(index'[m])
    BY <1>2, <2>1, GlobChanges DEF TagsInv
  <2>3. \A m \in Msgs : Due(m)' = Due(m)
    BY <1>2, <2>1, DueStays
  <2> QED BY <2>1, <2>2, <2>3, TagsStay DEF Exists
<1>3. CASE RemoveStale
  <2>1. /\ index' = mem' /\ \A m \in Msgs : mem'[m] = Kept(m)
        /\ pc = "stale" /\ pc' = "route" /\ UNCHANGED <<file, told, unsure, raced>>
    BY <1>3 DEF RemoveStale
  <2>2. \A m \in Msgs : Due(m)' = Due(m)
    BY <2>1, DueStays
  <2>3. ASSUME NEW m \in Msgs, Found(m) PROVE TagsOf(index'[m]) = TagsOf(index[m])
    BY <2>1, <2>3, KeptEntry DEF TagsInv
  <2>4. ASSUME NEW m \in Msgs, ~Found(m) PROVE TagsOf(index'[m]) = First
    BY <2>1, <2>4, KeptEntry DEF TagsOf
  <2>5. \A m \in Msgs \ raced : Exists(m) => Found(m)
    BY <2>1 DEF NamesInv
  <2>6. \A m \in Msgs \ (raced' \cup unsure') : Exists(m)' => TagsOf(index'[m]) = Due(m)'
    BY <2>1, <2>2, <2>3, <2>5 DEF TagsInv, Exists
  <2>7. \A m \in Msgs \ unsure' : "Trash" \in TagsOf(index'[m]) => "Trash" \in Due(m)'
    BY <2>1, <2>2, <2>3, <2>4, Tagged DEF TagsInv
  <2>8. \A m \in Msgs : TagsOf(mem'[m]) = TagsOf(index'[m])
    BY <2>1
  <2> QED BY <2>6, <2>7, <2>8 DEF TagsInv
<1>4. CASE ChangeTag
  <2>1. /\ req.msg \in Msgs /\ req.tag \in Tags /\ index' = mem'
        /\ \A m \in Msgs \ {req.msg} : mem'[m] = mem[m]
        /\ TagsOf(mem'[req.msg]) = IF req.op = "tag" THEN TagsOf(mem[req.msg]) \cup {req.tag}
                                                   ELSE TagsOf(mem[req.msg]) \ {req.tag}
    BY <1>4, ChangedEntry
  <2>2. /\ UNCHANGED <<file, req, told, unsure, raced>> /\ pc = "route" /\ pc' = "answer"
        /\ req.op \in {"tag", "untag"}
    BY <1>4 DEF ChangeTag, Routed
  <2>3. \A m \in Msgs : Due(m) = told[m]
    BY <2>2 DEF Due
  <2>4. \A m \in Msgs \ {req.msg} : Due(m)' = Due(m) /\ TagsOf(index'[m]) = TagsOf(index[m])
    BY <2>1, <2>2, <2>3 DEF Due, TagsInv
  <2>5. Due(req.msg)' = IF req.op = "tag" THEN Due(req.msg) \cup {req.tag}
                                          ELSE Due(req.msg) \ {req.tag}
    BY <2>2, <2>3 DEF Due
  <2>6. TagsOf(index'[req.msg]) = IF req.op = "tag" THEN TagsOf(index[req.msg]) \cup {req.tag}
                                                  ELSE TagsOf(index[req.msg]) \ {req.tag}
    BY <2>1 DEF TagsInv
  <2>7. \A m \in Msgs : Exists(m)' <=> Exists(m)
    BY <2>2 DEF Exists
  <2> DEFINE r == req.msg
             due == Due(r)
             dueThen == Due(r)'
             had == TagsOf(index[r])
             has == TagsOf(index'[r])
  <2>8. r \notin raced \cup unsure /\ Exists(r) => had = due
    BY <2>1 DEF TagsInv
  <2>9. r \notin unsure => ("Trash" \in had => "Trash" \in due)
    BY <2>1 DEF TagsInv
  <2>10. \/ dueThen = due \cup {req.tag} /\ has = had \cup {req.tag}
         \/ dueThen = due \ {req.tag} /\ has = had \ {req.tag}
    BY <2>2, <2>5, <2>6
  <2> HIDE DEF due, dueThen, had, has
  <2>11. /\ r \notin raced \cup unsure /\ Exists(r) => has = dueThen
         /\ r \notin unsure => ("Trash" \in has => "Trash" \in dueThen)
    BY <2>8, <2>9, <2>10
  <2>12. \A m \in Msgs \ (raced' \cup unsure') : Exists(m)' => TagsOf(index'[m]) = Due(m)'
    BY <2>2, <2>4, <2>7, <2>11 DEF TagsInv, dueThen, has
  <2>13. \A m \in Msgs \ unsure' : "Trash" \in TagsOf(index'[m]) => "Trash" \in Due(m)'
    BY <2>2, <2>4, <2>11 DEF TagsInv, dueThen, has
  <2>14. \A m \in Msgs : TagsOf(mem'[m]) = TagsOf(index'[m])
    BY <2>1
  <2> QED BY <2>12, <2>13, <2>14 DEF TagsInv
<1>5. CASE NotFound \/ NotInTrash \/ UnlinkRaises \/ Delete \/ ListAll \/ Get
  <2>1. /\ UNCHANGED <<file, index, mem, told, unsure, raced>> /\ pc # "answer"
        /\ pc' = "answer" => req'.op \in {"list", "get"}
    BY <1>5 DEF NotFound, NotInTrash, UnlinkRaises, Delete, ListAll, Get, Routed
  <2>2. \A m \in Msgs : Due(m)' = Due(m)
    BY <2>1, DueStays
  <2> QED BY <2>1, <2>2, TagsStay DEF TagsInv, Exists
<1>6. CASE Unlink
  <2>1. /\ UNCHANGED <<index, mem, told, unsure, raced>> /\ pc # "answer" /\ pc' # "answer"
    BY <1>6 DEF Unlink
  <2>2. \A m \in Msgs : Due(m)' = Due(m)
    BY <2>1, DueStays
  <2>3. \A m \in Msgs : Exists(m)' => Exists(m)
    BY <1>6 DEF Unlink, Exists, TypeOK
  <2> QED BY <2>1, <2>2, <2>3, TagsStay DEF TagsInv
<1>7. CASE Forget
  <2>1. /\ index' = mem' /\ UNCHANGED <<file, told, req, unsure, raced>>
        /\ pc = "forget" /\ pc' = "answer" /\ req.op = "delete" /\ Gone(req.msg)
    BY <1>7 DEF Forget, DeleteInv
  <2>2. \A m \in Msgs : Due(m)' = Due(m)
    BY <2>1, DueStays
  <2>3. req.msg \in Msgs
    BY <2>1, Going
  <2>4. /\ \A m \in Msgs \ {req.msg} : mem'[m] = mem[m]
        /\ mem'[req.msg] = NoEntry
    BY <1>7, <2>3 DEF Forget, TypeOK
  <2>5. req.msg \in raced \/ ~Exists(req.msg)
    BY <2>1 DEF Gone, Exists
  <2>6. TagsOf(mem'[req.msg]) = First
    BY <2>4 DEF TagsOf
  <2>7. \A m \in Msgs \ (raced' \cup unsure') : Exists(m)' => TagsOf(index'[m]) = Due(m)'
    BY <2>1, <2>2, <2>4, <2>5 DEF TagsInv, Exists
  <2>8. \A m \in Msgs \ unsure' : "Trash" \in TagsOf(index'[m]) => "Trash" \in Due(m)'
    BY <2>1, <2>2, <2>4, <2>6, Tagged DEF TagsInv
  <2>9. \A m \in Msgs : TagsOf(mem'[m]) = TagsOf(index'[m])
    BY <2>1
  <2> QED BY <2>7, <2>8, <2>9 DEF TagsInv
<1>8. CASE Answer
  <2>1. /\ UNCHANGED <<file, index, mem, unsure, raced>> /\ pc = "answer" /\ pc' = "idle"
        /\ told' = IF req.op = "tag" THEN [told EXCEPT ![req.msg] = @ \cup {req.tag}]
                   ELSE IF req.op = "untag" THEN [told EXCEPT ![req.msg] = @ \ {req.tag}]
                   ELSE told
    BY <1>8 DEF Answer
  <2>2. req \in Request
    BY <2>1, Going
  <2>3. \A m \in Msgs : Due(m)' = told'[m]
    BY <2>1 DEF Due
  <2>4. \A m \in Msgs : told'[m] = Due(m)
    <3>1. CASE req.op = "tag"
      BY <2>1, <2>2, <3>1, Requests DEF Due, TypeOK
    <3>2. CASE req.op = "untag"
      BY <2>1, <2>2, <3>2, Requests DEF Due, TypeOK
    <3>3. CASE req.op \notin {"tag", "untag"}
      BY <2>1, <3>3 DEF Due
    <3> QED BY <3>1, <3>2, <3>3
  <2> QED BY <2>1, <2>3, <2>4, TagsStay DEF TagsInv, Exists
<1>9. ASSUME NEW n \in Msgs, Deliver(n) PROVE TagsInv'
  <2>1. UNCHANGED <<index, mem, told, unsure, raced, pc, req>> /\ file[n] = "none"
    BY <1>9 DEF Deliver
  <2>2. \A m \in Msgs : Due(m)' = Due(m)
    BY <2>1 DEF Due
  <2>3. TagsOf(index[n]) = First /\ Due(n) = First
    BY <2>1 DEF UndeliveredInv, TagsOf, Due
  <2>4. \A m \in Msgs \ {n} : Exists(m)' <=> Exists(m)
    BY <1>9 DEF Deliver, Exists, TypeOK
  <2>5. \A m \in Msgs \ (raced' \cup unsure') : Exists(m)' => TagsOf(index'[m]) = Due(m)'
    BY <2>1, <2>2, <2>3, <2>4 DEF TagsInv
  <2>6. \A m \in Msgs \ unsure' : "Trash" \in TagsOf(index'[m]) => "Trash" \in Due(m)'
    BY <2>1, <2>2 DEF TagsInv
  <2>7. \A m \in Msgs : TagsOf(mem'[m]) = TagsOf(index'[m])
    BY <2>1 DEF TagsInv
  <2> QED BY <2>5, <2>6, <2>7 DEF TagsInv
<1>10. ASSUME NEW n \in Msgs, MailRead(n) \/ MailDelete(n) PROVE TagsInv'
  <2>1. UNCHANGED <<index, mem, told, unsure, pc, req>> /\ raced \subseteq raced'
    BY <1>10 DEF MailRead, MailDelete
  <2>2. \A m \in Msgs : Exists(m)' => Exists(m)
    BY <1>10 DEF MailRead, MailDelete, Exists, TypeOK
  <2>3. \A m \in Msgs : Due(m)' = Due(m)
    BY <2>1 DEF Due
  <2> QED BY <2>1, <2>2, <2>3, TagsStay DEF TagsInv
<1>11. CASE Crash
  <2>1. /\ UNCHANGED <<file, index, mem, told, raced>> /\ pc' = "idle" /\ pc # "idle"
        /\ unsure' = unsure \cup {m \in Msgs : req.op # "list" /\ req.msg = m}
    BY <1>11 DEF Crash
  <2>2. \A m \in Msgs \ unsure' : Due(m)' = Due(m)
    BY <2>1 DEF Due
  <2> QED BY <2>1, <2>2, TagsStay DEF TagsInv, Exists
<1>12. CASE UNCHANGED vars
  <2>1. UNCHANGED <<file, index, mem, told, unsure, raced, pc, req>>
    BY <1>12 DEF vars
  <2>2. \A m \in Msgs : Due(m)' = Due(m)
    BY <2>1 DEF Due
  <2> QED BY <2>1, <2>2, TagsStay DEF TagsInv, Exists
<1> QED
  BY <1>1, <1>2, <1>3, <1>4, <1>5, <1>6, <1>7, <1>8, <1>9, <1>10, <1>11, <1>12
  DEF Next, Step, GlobRead, GlobNew

-----------------------------------------------------------------------------
(* The names of files *)

\* A rename during a listing is noted; other changes only remove files.
LEMMA Disturbance ==
    ASSUME TypeOK, NEW n \in Msgs, MailRead(n) \/ MailDelete(n), NEW m \in Msgs
    PROVE  /\ UNCHANGED <<index, mem, pc, req, answer, told, unsure, deleted>>
           /\ raced \subseteq raced' /\ touched \subseteq touched'
           /\ file'[m] # file[m] => m \in touched'
           /\ Exists(m)' /\ file'[m] # file[m] /\ pc \in {"globNew", "stale", "route"} => m \in raced'
           /\ file'[m] # file[m] => file'[m] \in {"read", "removed"} /\ Exists(m)
           /\ file[m] = "removed" => file'[m] = "removed"
BY DEF MailRead, MailDelete, TypeOK, Exists

LEMMA NamesStep == IInv /\ [Next]_vars => NamesInv'
<1> SUFFICES ASSUME TypeOK, UndeliveredInv, NamesInv, [Next]_vars PROVE NamesInv'
  BY DEF IInv
<1>1. ASSUME NEW r \in Request, Receive(r) PROVE NamesInv'
  BY <1>1 DEF Receive, NamesInv
<1>2. CASE GlobRead
  <2>1. /\ Glob("read") /\ UNCHANGED <<file, index, raced>> /\ mem = index /\ pc' = "globNew"
    BY <1>2 DEF GlobRead, Glob, NamesInv
  <2>2. \A m \in Msgs : file[m] = "new" => mem'[m] = index[m]
    BY <2>1, GlobChanges
  <2>3. \A m \in Msgs : file[m] = "read" => mem'[m].name = "read"
    BY <2>1, GlobChanges
  <2> QED BY <2>1, <2>2, <2>3 DEF NamesInv, Found
<1>3. CASE GlobNew
  <2>1. /\ Glob("new") /\ UNCHANGED <<file, index, raced>> /\ pc = "globNew" /\ pc' = "stale"
    BY <1>3 DEF GlobNew, Glob
  <2>2. \A m \in Msgs : file[m] = "new" => mem'[m].name = "new"
    BY <2>1, GlobChanges DEF NamesInv
  <2>3. \A m \in Msgs : file[m] = "read" => mem'[m] = mem[m]
    BY <2>1, GlobChanges
  <2>4. \A m \in Msgs \ raced : Exists(m) => mem'[m].name = file[m]
    BY <2>1, <2>2, <2>3 DEF NamesInv, Exists, Found
  <2> QED BY <2>1, <2>4 DEF NamesInv, Exists, Found
<1>4. CASE RemoveStale
  <2>1. /\ \A m \in Msgs : mem'[m] = Kept(m)
        /\ UNCHANGED <<file, raced>> /\ pc = "stale" /\ pc' = "route"
    BY <1>4 DEF RemoveStale
  <2>2. \A m \in Msgs : Found(m) => mem'[m] = mem[m]
    BY <2>1, KeptEntry
  <2>3. \A m \in Msgs : mem'[m] # NoEntry => Found(m)
    BY <2>1, KeptEntry
  <2> QED BY <2>1, <2>2, <2>3 DEF NamesInv, Exists, Found
<1>5. CASE pc' \notin {"globRead", "globNew", "stale", "route"}
  BY <1>5 DEF NamesInv
<1>6. CASE NotFound \/ NotInTrash \/ UnlinkRaises \/ Delete \/ ListAll \/ Get \/ Unlink \/ Forget
           \/ Answer \/ ChangeTag \/ Crash
  <2>1. pc' \notin {"globRead", "globNew", "stale", "route"}
    BY <1>6 DEF NotFound, NotInTrash, UnlinkRaises, Delete, ListAll, Get, Unlink, Forget,
                Answer, ChangeTag, Crash
  <2> QED BY <1>5, <2>1
<1>7. ASSUME NEW n \in Msgs, Deliver(n) PROVE NamesInv'
  BY <1>7 DEF Deliver, NamesInv
<1>8. ASSUME NEW n \in Msgs, MailRead(n) \/ MailDelete(n) PROVE NamesInv'
  <2>1. UNCHANGED <<index, mem, pc>> /\ raced \subseteq raced' /\ touched \subseteq touched'
    BY <1>8, Disturbance
  <2>2. ASSUME NEW m \in Msgs, m \notin raced', Exists(m)', pc \in {"globNew", "stale", "route"}
        PROVE  file'[m] = file[m]
    BY <1>8, <2>2, Disturbance
  <2>3. \A m \in Msgs \ touched' : file'[m] = file[m]
    BY <1>8, Disturbance
  <2>4. \A m \in Msgs : file'[m] = "new" => file[m] = "new"
    BY <1>8, Disturbance
  <2>5. pc' = "globRead" => mem' = index'
    BY <2>1 DEF NamesInv
  <2>6. ASSUME pc' = "globNew", NEW m \in Msgs
        PROVE  /\ file'[m] = "new" => mem'[m] = index'[m]
               /\ file'[m] = "read" /\ m \notin raced' => Found(m)'
    BY <2>1, <2>2, <2>4, <2>6 DEF NamesInv, Exists, Found
  <2>7. ASSUME pc' \in {"stale", "route"}, NEW m \in Msgs \ raced', Exists(m)' PROVE Found(m)'
    BY <2>1, <2>2, <2>7 DEF NamesInv, Exists, Found
  <2>8. ASSUME pc' = "route", NEW m \in Msgs \ touched', mem'[m] # NoEntry PROVE Found(m)'
    BY <2>1, <2>3, <2>8 DEF NamesInv, Found
  <2> QED BY <2>5, <2>6, <2>7, <2>8 DEF NamesInv
<1>9. CASE UNCHANGED vars
  BY <1>9 DEF vars, NamesInv, Exists, Found
<1> QED
  BY <1>1, <1>2, <1>3, <1>4, <1>6, <1>7, <1>8, <1>9 DEF Next, Step

-----------------------------------------------------------------------------
(* Deletion *)

\* An entry whose file has not got its name: removed, or renamed just now.
LEMMA NotFoundIsGone ==
    ASSUME TypeOK, UndeliveredInv, NamesInv, pc = "route", NEW m \in Msgs,
           mem[m] # NoEntry, ~Found(m)
    PROVE  Gone(m)
<1>1. m \in raced \/ ~Exists(m)
  BY DEF NamesInv
<1>2. file[m] # "none"
  BY DEF UndeliveredInv
<1> QED BY <1>1, <1>2 DEF Gone, Exists, TypeOK

\* What is gone stays so.
LEMMA GoneStays ==
    ASSUME raced \subseteq raced', NEW m \in Msgs, Gone(m),
           file[m] = "removed" => file'[m] = "removed"
    PROVE  Gone(m)'
BY DEF Gone

LEMMA DeleteStep == IInv /\ [Next]_vars => DeleteInv'
<1> SUFFICES ASSUME TypeOK, UndeliveredInv, NamesInv, DeleteInv, [Next]_vars PROVE DeleteInv'
  BY DEF IInv
<1>1. ASSUME UNCHANGED <<file, raced, deleted>>, pc' \notin {"unlink", "forget", "answer"}
      PROVE  DeleteInv'
  BY <1>1 DEF DeleteInv, DeletedIsGone
<1>2. ASSUME NEW r \in Request, Receive(r) PROVE DeleteInv'
  BY <1>1, <1>2 DEF Receive
<1>3. CASE GlobRead \/ GlobNew \/ RemoveStale \/ NotFound \/ NotInTrash \/ UnlinkRaises \/ Crash
  BY <1>1, <1>3 DEF GlobRead, GlobNew, Glob, RemoveStale, NotFound, NotInTrash, UnlinkRaises, Crash
<1>4. CASE ChangeTag \/ ListAll \/ Get
  BY <1>4 DEF ChangeTag, ListAll, Get, Routed, DeleteInv, DeletedIsGone
<1>5. CASE Delete
  <2>1. /\ pc = "route" /\ req.op = "delete" /\ MayDelete(req.msg)
        /\ pc' = IF Found(req.msg) THEN "unlink" ELSE "forget"
        /\ UNCHANGED <<file, mem, req, deleted, raced>>
    BY <1>5 DEF Delete, Routed
  <2>2. req.msg \in Msgs /\ mem[req.msg] # NoEntry
    BY <2>1, Going DEF MayDelete
  <2>3. pc' = "forget" => Gone(req.msg)
    BY <2>1, <2>2, NotFoundIsGone
  <2>4. pc' = "unlink" => MayDelete(req.msg)'
    BY <2>1 DEF MayDelete
  <2>5. pc' \in {"forget", "answer"} => Gone(req.msg)'
    BY <2>1, <2>3 DEF Gone
  <2>6. DeletedIsGone'
    BY <2>1 DEF DeleteInv, DeletedIsGone
  <2> QED BY <2>1, <2>4, <2>5, <2>6 DEF DeleteInv
<1>6. CASE Unlink
  <2>1. /\ pc = "unlink" /\ pc' = "forget" /\ req.op = "delete"
        /\ file' = [file EXCEPT ![req.msg] = "removed"] /\ UNCHANGED <<req, deleted, raced>>
    BY <1>6 DEF Unlink, DeleteInv
  <2>2. req.msg \in Msgs
    BY <2>1, Going
  <2>3. Gone(req.msg)'
    BY <2>1, <2>2 DEF Gone, TypeOK
  <2>4. DeletedIsGone'
    BY <2>1, <2>2 DEF DeleteInv, DeletedIsGone, TypeOK
  <2> QED BY <2>1, <2>3, <2>4 DEF DeleteInv
<1>7. CASE Forget
  <2>1. /\ pc = "forget" /\ pc' = "answer" /\ UNCHANGED <<file, req, deleted, raced>>
    BY <1>7 DEF Forget
  <2> QED BY <2>1 DEF DeleteInv, DeletedIsGone, Gone
<1>8. CASE Answer
  <2>1. /\ pc = "answer" /\ pc' = "idle" /\ UNCHANGED <<file, raced>>
        /\ deleted' = IF req.op = "delete" THEN deleted \cup {req.msg} ELSE deleted
    BY <1>8 DEF Answer
  <2>2. DeletedIsGone'
    BY <2>1 DEF DeleteInv, DeletedIsGone, Gone
  <2> QED BY <2>1, <2>2 DEF DeleteInv
<1>9. ASSUME NEW n \in Msgs, Deliver(n) PROVE DeleteInv'
  <2>1. /\ pc = "idle" /\ file[n] = "none" /\ file' = [file EXCEPT ![n] = "new"]
        /\ UNCHANGED <<pc, raced, deleted>>
    BY <1>9 DEF Deliver
  <2>2. DeletedIsGone'
    BY <2>1 DEF DeleteInv, DeletedIsGone, TypeOK
  <2> QED BY <2>1, <2>2 DEF DeleteInv
<1>10. ASSUME NEW n \in Msgs, MailRead(n) \/ MailDelete(n) PROVE DeleteInv'
  <2>1. /\ UNCHANGED <<pc, req, mem, deleted>> /\ raced \subseteq raced'
        /\ \A m \in Msgs : file[m] = "removed" => file'[m] = "removed"
    BY <1>10, Disturbance
  <2>2. pc # "idle" /\ req.op = "delete" => req.msg \in Msgs
    BY Going
  <2>3. pc \in {"forget", "answer"} /\ req.op = "delete" => Gone(req.msg)'
    BY <2>1, <2>2, GoneStays DEF DeleteInv
  <2>4. DeletedIsGone'
    BY <2>1 DEF DeleteInv, DeletedIsGone, TypeOK
  <2>5. pc = "unlink" => MayDelete(req.msg)'
    BY <2>1 DEF DeleteInv, MayDelete
  <2> QED BY <2>1, <2>3, <2>4, <2>5 DEF DeleteInv
<1>11. CASE UNCHANGED vars
  BY <1>11 DEF vars, DeleteInv, DeletedIsGone, Gone, MayDelete
<1> QED
  BY <1>2, <1>3, <1>4, <1>5, <1>6, <1>7, <1>8, <1>9, <1>10, <1>11 DEF Next, Step

-----------------------------------------------------------------------------
(* What is answered *)

LEMMA AnswerStep == IInv /\ [Next]_vars => AnswersAreExact'
<1> SUFFICES ASSUME TypeOK, TagsInv, NamesInv, DeleteInv, AnswersAreExact, [Next]_vars
             PROVE  AnswersAreExact'
  BY DEF IInv
<1>1. CASE pc' # "answer"
  BY <1>1 DEF AnswersAreExact
<1>2. CASE ChangeTag
  BY <1>2 DEF ChangeTag, Routed, AnswersAreExact
<1>3. CASE ListAll
  <2>1. /\ pc = "route" /\ req.op = "list"
        /\ answer' = {m \in Msgs : mem[m] # NoEntry /\ "Trash" \notin mem[m].tags}
        /\ UNCHANGED <<file, mem, req, told, unsure, touched, raced>>
    BY <1>3 DEF ListAll, Routed
  <2>2. ASSUME NEW m \in Msgs \ (touched \cup raced \cup unsure)
        PROVE  m \in answer' <=> Exists(m) /\ "Trash" \notin told[m]
    <3>1. mem[m] \in Entry \cup {NoEntry}
      BY DEF TypeOK
    <3>2. mem[m] # NoEntry => Found(m)
      BY <2>1 DEF NamesInv
    <3>3. Found(m) /\ mem[m] # NoEntry => Exists(m)
      BY <3>1, Entries DEF Found, Exists
    <3>4. Exists(m) => mem[m] # NoEntry
      BY <2>1 DEF NamesInv, Found, Exists, NoEntry
    <3>5. Exists(m) => TagsOf(mem[m]) = told[m]
      BY <2>1 DEF TagsInv, Due
    <3>6. mem[m] # NoEntry => TagsOf(mem[m]) = mem[m].tags
      BY DEF TagsOf
    <3> QED BY <2>1, <3>2, <3>3, <3>4, <3>5, <3>6
  <2> QED BY <2>1, <2>2 DEF AnswersAreExact, Exists
<1>4. CASE Get
  <2>1. /\ pc = "route" /\ req.op = "get" /\ mem[req.msg] # NoEntry
        /\ answer' = {m \in {req.msg} : Found(m)}
        /\ UNCHANGED <<file, mem, req, told, unsure, touched, raced>>
    BY <1>4 DEF Get, Routed
  <2>2. req.msg \in Msgs
    BY <2>1, Going
  <2>3. ASSUME req.msg \notin touched PROVE req.msg \in answer' /\ Exists(req.msg)
    <3>1. Found(req.msg)
      BY <2>1, <2>2, <2>3 DEF NamesInv
    <3>2. mem[req.msg].name \in {"new", "read"}
      BY <2>1, <2>2, Entries DEF TypeOK
    <3> QED BY <2>1, <3>1, <3>2 DEF Found, Exists
  <2> QED BY <2>1, <2>3 DEF AnswersAreExact, Exists
<1>5. CASE Forget
  BY <1>5 DEF Forget, DeleteInv, AnswersAreExact
<1>6. ASSUME NEW n \in Msgs, MailRead(n) \/ MailDelete(n) PROVE AnswersAreExact'
  <2>1. /\ UNCHANGED <<pc, req, answer, told, unsure>> /\ raced \subseteq raced'
        /\ touched \subseteq touched'
        /\ \A m \in Msgs \ touched' : file'[m] = file[m]
    BY <1>6, Disturbance
  <2>2. pc # "idle" /\ req.op = "get" => req.msg \in Msgs
    BY Going
  <2>3. \A m \in Msgs \ touched' : Exists(m)' <=> Exists(m)
    BY <2>1 DEF Exists
  <2> QED BY <2>1, <2>2, <2>3 DEF AnswersAreExact
<1>7. CASE UNCHANGED vars
  BY <1>7 DEF vars, AnswersAreExact, Exists
<1>8. CASE \/ \E r \in Request : Receive(r)
           \/ GlobRead \/ GlobNew \/ RemoveStale \/ NotFound \/ NotInTrash \/ Delete \/ Unlink
           \/ UnlinkRaises \/ Answer \/ Crash \/ \E m \in Msgs : Deliver(m)
  <2>1. pc' # "answer"
    BY <1>8 DEF Receive, GlobRead, GlobNew, RemoveStale, NotFound, NotInTrash, Delete, Unlink,
                UnlinkRaises, Answer, Crash, Deliver
  <2> QED BY <1>1, <2>1
<1> QED
  BY <1>2, <1>3, <1>4, <1>5, <1>6, <1>7, <1>8 DEF Next, Step

-----------------------------------------------------------------------------
(* The theorems *)

LEMMA Starts == Init => IInv
<1> SUFFICES ASSUME Init PROVE IInv
  OBVIOUS
<1>1. TypeOK
  BY TypeStarts
<1>2. pc = "idle" /\ \A m \in Msgs : Due(m) = First /\ index[m] = NoEntry /\ mem[m] = NoEntry
  BY DEF Init, Due, First
<1>3. UndeliveredInv
  BY DEF Init, UndeliveredInv, First
<1>4. TagsInv
  BY <1>2 DEF TagsInv, TagsOf
<1>5. NamesInv /\ AnswersAreExact
  BY <1>2 DEF NamesInv, AnswersAreExact
<1>6. DeleteInv
  BY DEF Init, DeleteInv, DeletedIsGone
<1> QED BY <1>1, <1>3, <1>4, <1>5, <1>6 DEF IInv

LEMMA Invariant == Spec => []IInv
<1>1. Init => IInv
  BY Starts
<1>2. IInv /\ [Next]_vars => IInv'
  <2> SUFFICES ASSUME IInv, [Next]_vars PROVE IInv'
    OBVIOUS
  <2>1. TypeOK'
    BY TypeStep DEF IInv
  <2> QED BY <2>1, UndeliveredStep, TagsStep, NamesStep, DeleteStep, AnswerStep DEF IInv
<1> QED BY <1>1, <1>2, PTL DEF Spec

\* Every variable keeps its type, and there is a request exactly while one is
\* worked on.
THEOREM TypeCorrect == Spec => []TypeOK
<1>1. IInv => TypeOK
  BY DEF IInv
<1> QED BY <1>1, Invariant, PTL

\* Between requests the index of GmapMailbox has the tags that clients were
\* told of, for any messages and tags.
THEOREM TagsPersist == Spec => []TagsAsAcknowledged
<1>1. IInv => TagsAsAcknowledged
  BY DEF IInv, TagsInv, Due, TagsAsAcknowledged
<1> QED BY <1>1, Invariant, PTL

\* delete_message removes a file only of a message that its client has put
\* into the trash, or of one it was left in doubt about by a crash.
THEOREM TrashOnly == Spec => []OnlyTrashIsDeleted
<1>1. IInv => OnlyTrashIsDeleted
  <2> SUFFICES ASSUME TypeOK, TagsInv, DeleteInv, pc = "unlink", req.msg \notin unsure
               PROVE  "Trash" \in told[req.msg]
    BY DEF IInv, OnlyTrashIsDeleted
  <2>1. req.op = "delete" /\ mem[req.msg] # NoEntry /\ "Trash" \in mem[req.msg].tags
    BY DEF DeleteInv, MayDelete
  <2>2. req.msg \in Msgs
    BY <2>1, Going
  <2>3. "Trash" \in TagsOf(index[req.msg])
    BY <2>1, <2>2 DEF TagsInv, TagsOf
  <2> QED BY <2>2, <2>3 DEF TagsInv, Due
<1> QED BY <1>1, Invariant, PTL

\* Listings and messages returned are exact for what nobody disturbs.
THEOREM ExactAnswers == Spec => []AnswersAreExact
<1>1. IInv => AnswersAreExact
  BY DEF IInv
<1> QED BY <1>1, Invariant, PTL

\* What a client was told is deleted stays so.
THEOREM DeletedForGood == Spec => []DeletedIsGone
<1>1. IInv => DeletedIsGone
  BY DEF IInv, DeleteInv
<1> QED BY <1>1, Invariant, PTL

-----------------------------------------------------------------------------
(* A tagged mailbox is a TagStore *)

\* Only files that are there are renamed.
RacedInv == \A m \in raced : file[m] # "none"

LEMMA RacedStep == TypeOK /\ RacedInv /\ [Next]_vars => RacedInv'
<1> SUFFICES ASSUME TypeOK, RacedInv, [Next]_vars PROVE RacedInv'
  OBVIOUS
<1>1. CASE UNCHANGED <<file, raced>>
  BY <1>1 DEF RacedInv
<1>2. CASE Step
  <2>1. CASE Unlink
    <3>1. raced' = raced /\ \A m \in Msgs : file'[m] = "none" => file[m] = "none"
      BY <2>1 DEF Unlink, TypeOK
    <3> QED BY <3>1 DEF RacedInv, TypeOK
  <2>2. CASE ~Unlink
    BY <1>1, <1>2, <2>2 DEF Step, GlobRead, GlobNew, Glob, RemoveStale, NotFound, ChangeTag,
        ListAll, Get, NotInTrash, Delete, UnlinkRaises, Forget, Answer
  <2> QED BY <2>1, <2>2
<1>3. ASSUME NEW m \in Msgs, Deliver(m) \/ MailRead(m) \/ MailDelete(m) PROVE RacedInv'
  <2>1. /\ raced' \subseteq raced \cup {m} /\ raced' \subseteq Msgs
        /\ file'[m] # "none" /\ \A k \in Msgs \ {m} : file'[k] = file[k]
    BY <1>3 DEF Deliver, MailRead, MailDelete, TypeOK
  <2> QED BY <2>1 DEF RacedInv
<1>4. ASSUME NEW r \in Request, Receive(r) PROVE RacedInv'
  BY <1>1, <1>4 DEF Receive
<1> QED BY <1>1, <1>2, <1>3, <1>4 DEF Next, Crash, vars

IsKept(m) == Exists(m) /\ m \notin raced

LEMMA States ==
    ASSUME TypeOK, NEW m \in Msgs
    PROVE  /\ State[m] \in {"none", "kept", "loose", "gone"}
           /\ State[m] = "none" <=> file[m] = "none"
           /\ State[m] = "gone" <=> file[m] = "removed"
           /\ State[m] = "kept" <=> IsKept(m)
           /\ KeptTags[m] = IF IsKept(m) THEN TagsOf(index[m]) ELSE {}
<1>1. file[m] \in {"none", "new", "read", "removed"}
  BY DEF TypeOK
<1>2. /\ StateOf(m) \in {"none", "kept", "loose", "gone"}
      /\ StateOf(m) = "none" <=> file[m] = "none"
      /\ StateOf(m) = "gone" <=> file[m] = "removed"
      /\ StateOf(m) = "kept" <=> IsKept(m)
  BY <1>1 DEF StateOf, IsKept, Exists
<1> QED BY <1>2 DEF State, KeptTags

\* A step on the index alone may change the entries of messages that are not
\* kept as it likes.
LEMMA IndexOnly ==
    ASSUME TypeOK, UNCHANGED <<file, raced>>,
           \A m \in Msgs : IsKept(m) => TagsOf(index'[m]) = TagsOf(index[m])
    PROVE  State' = State /\ KeptTags' = KeptTags
<1>1. \A m \in Msgs : StateOf(m)' = StateOf(m)
  BY DEF StateOf, Exists
<1>2. \A m \in Msgs : StateOf(m) = "kept" => TagsOf(index'[m]) = TagsOf(index[m])
  BY States DEF State
<1> QED BY <1>1, <1>2 DEF State, KeptTags, TagsOf

\* A step on one file changes nothing for the other messages.
LEMMA OneFile ==
    ASSUME NEW m \in Msgs, index' = index,
           \A k \in Msgs \ {m} : file'[k] = file[k] /\ (k \in raced' <=> k \in raced),
           NEW s, NEW tags, State'[m] = s, KeptTags'[m] = tags
    PROVE  State' = [State EXCEPT ![m] = s] /\ KeptTags' = [KeptTags EXCEPT ![m] = tags]
<1>1. \A k \in Msgs \ {m} : StateOf(k)' = StateOf(k)
  BY DEF StateOf, Exists
<1>2. \A k \in Msgs \ {m} : State'[k] = State[k] /\ KeptTags'[k] = KeptTags[k]
  BY <1>1 DEF State, KeptTags
<1>3. /\ State = [k \in Msgs |-> State[k]] /\ KeptTags = [k \in Msgs |-> KeptTags[k]]
      /\ State' = [k \in Msgs |-> State'[k]] /\ KeptTags' = [k \in Msgs |-> KeptTags'[k]]
  BY DEF State, KeptTags
<1> QED BY <1>2, <1>3

\* Other requests than those about tags leave the tags as they are.
LEMMA OthersKeepTags ==
    ASSUME req.op \notin {"tag", "untag"}
    PROVE  KeptTags = [m \in Msgs |-> IF State[m] = "kept" THEN Store!After(m) ELSE KeptTags[m]]
<1>1. \A m \in Msgs : Store!After(m) = KeptTags[m]
  BY DEF Store!After
<1>2. KeptTags = [m \in Msgs |-> KeptTags[m]]
  BY DEF KeptTags
<1> QED BY <1>1, <1>2

LEMMA ListOrGet ==
    ASSUME TypeOK, ListAll \/ Get \/ Forget, DeleteInv
    PROVE  req # NoRequest /\ req.op \in {"list", "get", "delete"} /\ req' = req
           /\ pc # "answer" /\ pc' = "answer"
           /\ UNCHANGED <<file, raced, unsure>>
BY Going DEF ListAll, Get, Forget, Routed, DeleteInv, NoRequest

\* Each step of the mailbox is one of TagStore's, or none.
LEMMA StoreSimulation == IInv /\ RacedInv /\ [Next]_vars => [Store!Next]_(Store!vars)
<1> SUFFICES ASSUME IInv, RacedInv, [Next]_vars PROVE [Store!Next]_(Store!vars)
  OBVIOUS
<1>1. /\ TypeOK /\ TypeOK' /\ UndeliveredInv /\ UndeliveredInv'
      /\ NamesInv /\ DeleteInv /\ TagsInv
  BY TypeStep, UndeliveredStep DEF IInv
<1>2. ASSUME UNCHANGED <<file, index, raced, req, unsure>>, pc' = "answer" <=> pc = "answer"
      PROVE  [Store!Next]_(Store!vars)
  <2>1. State' = State /\ KeptTags' = KeptTags
    BY <1>1, <1>2, IndexOnly
  <2> QED BY <1>2, <2>1 DEF Store!vars
<1>3. ASSUME NEW r \in Request, Receive(r) PROVE [Store!Next]_(Store!vars)
  <2>1. /\ UNCHANGED <<file, index, raced, unsure>> /\ req' = r /\ req = NoRequest
        /\ pc # "answer" /\ pc' # "answer"
    BY <1>1, <1>3 DEF Receive, TypeOK
  <2>2. State' = State /\ KeptTags' = KeptTags
    BY <1>1, <2>1, IndexOnly
  <2>3. Store!Begin(r)
    BY <2>1, <2>2 DEF Store!Begin
  <2> QED BY <2>3 DEF Store!Next
<1>4. CASE GlobRead \/ GlobNew \/ Delete
  BY <1>2, <1>4 DEF GlobRead, GlobNew, Glob, Delete, Routed
<1>5. CASE RemoveStale
  <2>1. /\ \A m \in Msgs : index'[m] = Kept(m)
        /\ UNCHANGED <<file, raced, req, unsure>> /\ pc = "stale" /\ pc' = "route"
    BY <1>5 DEF RemoveStale
  <2>2. \A m \in Msgs : IsKept(m) => TagsOf(index'[m]) = TagsOf(index[m])
    <3> SUFFICES ASSUME NEW m \in Msgs, IsKept(m) PROVE TagsOf(index'[m]) = TagsOf(index[m])
      OBVIOUS
    <3>1. Found(m)
      BY <1>1, <2>1 DEF NamesInv, IsKept
    <3> QED BY <1>1, <2>1, <3>1, KeptEntry DEF TagsInv
  <2>3. State' = State /\ KeptTags' = KeptTags
    BY <1>1, <2>1, <2>2, IndexOnly
  <2> QED BY <2>1, <2>3 DEF Store!vars
<1>6. CASE NotFound \/ NotInTrash \/ UnlinkRaises
  <2>1. /\ UNCHANGED <<file, index, raced, unsure>> /\ req' = NoRequest
        /\ pc \in {"route", "unlink"} /\ pc' = "idle"
        /\ req.op \in {"tag", "untag", "get", "delete"}
    BY <1>1, <1>6 DEF NotFound, NotInTrash, UnlinkRaises, Routed, DeleteInv
  <2>2. req # NoRequest
    BY <1>1, <2>1 DEF TypeOK
  <2>3. State' = State /\ KeptTags' = KeptTags
    BY <1>1, <2>1, IndexOnly
  <2>4. req.op \in {"tag", "untag", "get"} => State[req.msg] # "kept"
    <3> SUFFICES ASSUME req.op \in {"tag", "untag", "get"} PROVE State[req.msg] # "kept"
      OBVIOUS
    <3>1. /\ pc = "route" /\ mem[req.msg] = NoEntry
      BY <1>1, <1>6 DEF NotFound, NotInTrash, UnlinkRaises, Routed, DeleteInv
    <3>2. req.msg \in Msgs
      BY <1>1, <3>1, Going
    <3>3. ~IsKept(req.msg)
      BY <1>1, <3>1, <3>2 DEF NamesInv, IsKept, Found, NoEntry, Exists
    <3> QED BY <1>1, <3>2, <3>3, States
  <2>5. Store!Refuse
    BY <2>1, <2>2, <2>3, <2>4 DEF Store!Refuse
  <2> QED BY <2>5 DEF Store!Next
<1>7. CASE ListAll \/ Get \/ Forget
  <2>1. /\ req # NoRequest /\ req.op \in {"list", "get", "delete"} /\ req' = req
        /\ pc # "answer" /\ pc' = "answer" /\ UNCHANGED <<file, raced, unsure>>
    BY <1>1, <1>7, ListOrGet
  <2>2. req.op = "delete" =>
          req.msg \in Msgs /\ ~IsKept(req.msg) /\ file[req.msg] # "none"
    <3>1. CASE Forget
      <4>1. req.msg \in Msgs /\ Gone(req.msg)
        BY <1>1, <3>1, Going DEF Forget, DeleteInv
      <4> QED BY <1>1, <4>1 DEF Gone, IsKept, Exists, RacedInv
    <3>2. CASE ListAll \/ Get
      BY <3>2 DEF ListAll, Get, Routed
    <3> QED BY <1>7, <3>1, <3>2
  <2>3. \A m \in Msgs : IsKept(m) => TagsOf(index'[m]) = TagsOf(index[m])
    <3>1. CASE Forget
      <4>1. req.op = "delete" /\ index' = mem' /\ mem' = [mem EXCEPT ![req.msg] = NoEntry]
        BY <1>1, <3>1 DEF Forget, DeleteInv
      <4>2. \A m \in Msgs \ {req.msg} : mem'[m] = mem[m]
        BY <1>1, <4>1 DEF TypeOK
      <4> QED BY <1>1, <2>2, <4>1, <4>2 DEF TagsInv
    <3>2. CASE ListAll \/ Get
      BY <3>2 DEF ListAll, Get
    <3> QED BY <1>7, <3>1, <3>2
  <2>4. State' = State /\ KeptTags' = KeptTags
    BY <1>1, <2>1, <2>3, IndexOnly
  <2>5. req.op = "delete" => State[req.msg] \in {"loose", "gone"}
    BY <1>1, <2>2, States
  <2>6. Store!TakeEffect
    BY <2>1, <2>4, <2>5, OthersKeepTags DEF Store!TakeEffect
  <2> QED BY <2>6 DEF Store!Next
<1>8. CASE ChangeTag
  <2>1. /\ req.msg \in Msgs /\ index' = mem' /\ \A m \in Msgs \ {req.msg} : mem'[m] = mem[m]
        /\ TagsOf(mem'[req.msg]) = IF req.op = "tag" THEN TagsOf(mem[req.msg]) \cup {req.tag}
                                                   ELSE TagsOf(mem[req.msg]) \ {req.tag}
    BY <1>1, <1>8, ChangedEntry
  <2>2. /\ UNCHANGED <<file, req, unsure, raced>> /\ pc = "route" /\ pc' = "answer"
        /\ req.op \in {"tag", "untag"}
    BY <1>8 DEF ChangeTag, Routed
  <2>3. req # NoRequest
    BY <1>1, <2>2 DEF TypeOK
  <2>4. State' = State
    BY <2>2 DEF State, StateOf, Exists
  <2>5. KeptTags' = [m \in Msgs |-> IF State[m] = "kept" THEN Store!After(m) ELSE KeptTags[m]]
    <3>1. ASSUME NEW m \in Msgs
          PROVE  KeptTags'[m] = IF State[m] = "kept" THEN Store!After(m) ELSE KeptTags[m]
      <4>1. KeptTags'[m] = IF State'[m] = "kept" THEN TagsOf(index'[m]) ELSE {}
        BY DEF KeptTags, State, TagsOf
      <4>2. KeptTags[m] = IF State[m] = "kept" THEN TagsOf(index[m]) ELSE {}
        BY DEF KeptTags, State
      <4>3. TagsOf(index[m]) = TagsOf(mem[m])
        BY <1>1 DEF TagsInv
      <4>4. CASE m # req.msg
        BY <2>1, <2>4, <4>1, <4>2, <4>3, <4>4 DEF Store!After
      <4>5. CASE m = req.msg
        BY <2>1, <2>2, <2>4, <4>1, <4>2, <4>3, <4>5 DEF Store!After
      <4> QED BY <4>4, <4>5
    <3>2. KeptTags' = [m \in Msgs |-> KeptTags'[m]]
      BY DEF KeptTags
    <3> QED BY <3>1, <3>2
  <2>6. Store!TakeEffect
    BY <2>2, <2>3, <2>4, <2>5 DEF Store!TakeEffect
  <2> QED BY <2>6 DEF Store!Next
<1>9. CASE Answer
  <2>1. /\ UNCHANGED <<file, index, raced, unsure>> /\ req' = NoRequest
        /\ pc = "answer" /\ pc' = "idle"
    BY <1>9 DEF Answer
  <2>2. State' = State /\ KeptTags' = KeptTags
    BY <1>1, <2>1, IndexOnly
  <2>3. Store!Answer
    BY <2>1, <2>2 DEF Store!Answer
  <2> QED BY <2>3 DEF Store!Next
<1>10. CASE Crash
  <2>1. /\ UNCHANGED <<file, index, raced>> /\ req' = NoRequest
        /\ pc # "idle" /\ pc' = "idle"
        /\ unsure' = unsure \cup {m \in Msgs : req.op # "list" /\ req.msg = m}
    BY <1>10 DEF Crash
  <2>2. State' = State /\ KeptTags' = KeptTags /\ req # NoRequest
    BY <1>1, <2>1, IndexOnly DEF TypeOK
  <2>3. Store!Crash
    BY <2>1, <2>2 DEF Store!Crash
  <2> QED BY <2>3 DEF Store!Next
<1>11. ASSUME NEW m \in Msgs, Exists(m), file' = [file EXCEPT ![m] = "removed"],
              UNCHANGED <<index, raced, req, unsure>>, pc' = "answer" <=> pc = "answer"
       PROVE  [Store!Next]_(Store!vars)
  <2>1. file'[m] = "removed" /\ \A k \in Msgs \ {m} : file'[k] = file[k]
    BY <1>1, <1>11 DEF TypeOK
  <2>2. State'[m] = "gone" /\ KeptTags'[m] = {}
    <3>1. file'[m] \in {"none", "new", "read", "removed"}
      BY <1>1 DEF TypeOK
    <3>2. StateOf(m)' = "gone" <=> file'[m] = "removed"
      BY <3>1 DEF StateOf, Exists
    <3> QED BY <2>1, <3>2 DEF State, KeptTags
  <2>3. State' = [State EXCEPT ![m] = "gone"] /\ KeptTags' = [KeptTags EXCEPT ![m] = {}]
    BY <1>11, <2>1, <2>2, OneFile
  <2>4. State[m] \in {"kept", "loose"}
    BY <1>1, <1>11, States DEF Exists
  <2>5. Store!Remove(m)
    BY <1>11, <2>3, <2>4 DEF Store!Remove
  <2> QED BY <2>5 DEF Store!Next
<1>12. CASE Unlink
  <2>1. /\ req.msg \in Msgs /\ mem[req.msg] # NoEntry /\ Found(req.msg)
        /\ file' = [file EXCEPT ![req.msg] = "removed"]
        /\ UNCHANGED <<index, raced, req, unsure>> /\ pc # "answer" /\ pc' # "answer"
    BY <1>1, <1>12, Going DEF Unlink, DeleteInv, MayDelete
  <2>2. Exists(req.msg)
    <3>1. mem[req.msg].name \in {"new", "read"}
      BY <1>1, <2>1, Entries DEF TypeOK
    <3> QED BY <2>1, <3>1 DEF Found, Exists
  <2> QED BY <1>11, <2>1, <2>2
<1>13. ASSUME NEW m \in Msgs, MailDelete(m) PROVE [Store!Next]_(Store!vars)
  BY <1>11, <1>13 DEF MailDelete
<1>14. ASSUME NEW m \in Msgs, MailRead(m) PROVE [Store!Next]_(Store!vars)
  <2>1. /\ file[m] = "new" /\ file'[m] = "read"
        /\ \A k \in Msgs \ {m} : file'[k] = file[k] /\ (k \in raced' <=> k \in raced)
        /\ UNCHANGED <<index, req, unsure, pc>>
        /\ raced' = IF pc \in {"globNew", "stale", "route"} THEN raced \cup {m} ELSE raced
    BY <1>1, <1>14 DEF MailRead, TypeOK
  <2>2. CASE IsKept(m) /\ m \in raced'
    <3>1. State'[m] = "loose" /\ KeptTags'[m] = {}
      BY <2>1, <2>2 DEF State, KeptTags, StateOf, Exists
    <3>2. State' = [State EXCEPT ![m] = "loose"] /\ KeptTags' = [KeptTags EXCEPT ![m] = {}]
      BY <2>1, <3>1, OneFile
    <3>3. State[m] = "kept"
      BY <1>1, <2>2, States
    <3>4. pc # "answer" /\ pc' # "answer" /\ req # NoRequest
      BY <1>1, <2>1, <2>2 DEF IsKept, TypeOK
    <3>5. Store!Lose(m)
      BY <2>1, <3>2, <3>3, <3>4 DEF Store!Lose
    <3> QED BY <3>5 DEF Store!Next
  <2>3. CASE ~(IsKept(m) /\ m \in raced')
    <3>1. m \in raced' <=> m \in raced
      BY <2>1, <2>3 DEF IsKept, Exists
    <3>2. StateOf(m)' = StateOf(m) /\ \A k \in Msgs \ {m} : StateOf(k)' = StateOf(k)
      BY <2>1, <3>1 DEF StateOf, Exists
    <3>3. State' = State
      BY <3>2 DEF State
    <3>4. KeptTags' = KeptTags
      BY <2>1, <3>2 DEF KeptTags, TagsOf
    <3> QED BY <2>1, <3>3, <3>4 DEF Store!vars
  <2> QED BY <2>2, <2>3
<1>15. ASSUME NEW m \in Msgs, Deliver(m) PROVE [Store!Next]_(Store!vars)
  <2>1. /\ file[m] = "none" /\ file'[m] = "new"
        /\ \A k \in Msgs \ {m} : file'[k] = file[k]
        /\ UNCHANGED <<index, raced, req, unsure, pc>>
    BY <1>1, <1>15 DEF Deliver, TypeOK
  <2>2. index[m] = NoEntry /\ m \notin raced
    BY <1>1, <2>1 DEF UndeliveredInv, RacedInv
  <2>3. State'[m] = "kept" /\ KeptTags'[m] = First
    BY <2>1, <2>2 DEF State, KeptTags, StateOf, Exists, TagsOf
  <2>4. State' = [State EXCEPT ![m] = "kept"] /\ KeptTags' = [KeptTags EXCEPT ![m] = First]
    BY <2>1, <2>3, OneFile
  <2>5. State[m] = "none"
    BY <1>1, <2>1, States
  <2>6. Store!Deliver(m)
    BY <2>1, <2>4, <2>5 DEF Store!Deliver
  <2> QED BY <2>6 DEF Store!Next
<1> QED BY <1>2, <1>3, <1>4, <1>5, <1>6, <1>7, <1>8, <1>9, <1>10, <1>12, <1>13, <1>14, <1>15
        DEF Next, Step, vars

\* The index and the files together are a TagStore, wherever requests are cut
\* short and whatever other processes do: a request takes effect once and at
\* once or not at all, and nothing else changes the tags of a message.
THEOREM MailboxIsTagStore == Spec => ImplementsTagStore
<1>1. Init => IInv /\ RacedInv
  BY Starts DEF Init, RacedInv
<1>2. Init => Store!Init
  <2> SUFFICES ASSUME Init PROVE Store!Init
    OBVIOUS
  <2>1. /\ file = [m \in Msgs |-> "none"] /\ req = NoRequest /\ pc = "idle" /\ unsure = {}
    BY DEF Init
  <2>2. State = [m \in Msgs |-> "none"] /\ KeptTags = [m \in Msgs |-> {}]
    <3>1. \A m \in Msgs : State[m] = "none"
      BY <2>1, States, TypeStarts
    <3> QED BY <3>1 DEF State, KeptTags
  <2> QED BY <2>1, <2>2 DEF Store!Init
<1>3. IInv /\ RacedInv /\ [Next]_vars => RacedInv' /\ [Store!Next]_(Store!vars)
  BY RacedStep, StoreSimulation DEF IInv
<1> QED BY <1>1, <1>2, <1>3, Invariant, PTL DEF Spec, ImplementsTagStore, Store!Spec
===============================================================================
