------------------------- MODULE Subscription_proofs -------------------------
(***************************************************************************)
(* Proofs about Subscription, for every value of its constants: its state  *)
(* is well typed, nobody is on a list without consent, the token store     *)
(* holds only latest tokens, a list is what ListMembership promises for as *)
(* long as its operations do not overlap, and its file then names the      *)
(* members they have reported.                                             *)
(***************************************************************************)
EXTENDS Subscription, TLAPS

\* A process that is not idle has a list, an address, senders and a snapshot.
LEMMA BusyProcess ==
    ASSUME TypeOK, NEW p \in Procs, ~Idle(p)
    PROVE  /\ proc[p] \in Busy
           /\ proc[p].pc \in Steps /\ proc[p].list \in Lists
           /\ proc[p].addr \in Addresses /\ proc[p].who \subseteq Addresses
           /\ proc[p].read \in [Addresses -> Nat]
BY DEF TypeOK, Process, IdleProcess, Busy, Idle

\* What the three ways of moving a process leave of proc.
LEMMA GotoProc ==
    ASSUME TypeOK, NEW p \in Procs, ~Idle(p), NEW step \in Steps, Goto(p, step)
    PROVE  /\ proc' \in [Procs -> Process]
           /\ proc'[p] \in Busy
           /\ proc'[p].pc = step /\ proc'[p].list = proc[p].list
           /\ proc'[p].addr = proc[p].addr /\ proc'[p].who = proc[p].who
           /\ proc'[p].read = proc[p].read
           /\ \A q \in Procs : q # p => proc'[q] = proc[q]
<1>1. proc[p] \in Busy
  BY BusyProcess
<1>2. proc \in [Procs -> Process]
  BY DEF TypeOK
<1>3. proc' = [proc EXCEPT ![p] = [proc[p] EXCEPT !.pc = step]]
  BY <1>2 DEF Goto
<1>4. [proc[p] EXCEPT !.pc = step] \in Busy
  BY <1>1 DEF Busy
<1> QED
  BY <1>1, <1>2, <1>3, <1>4 DEF Process, Busy

\* A process that finishes becomes idle.
LEMMA FinishProc ==
    ASSUME TypeOK, NEW p \in Procs, Finish(p)
    PROVE  /\ proc' \in [Procs -> Process]
           /\ proc'[p].pc = "idle"
           /\ \A q \in Procs : q # p => proc'[q] = proc[q]
BY DEF Finish, TypeOK, Process, IdleProcess

\* A process that begins is busy with its own list, address and senders.
LEMMA BeginProc ==
    ASSUME TypeOK, NEW p \in Procs, NEW step \in Steps, NEW l \in Lists,
           NEW a \in Addresses, NEW who \in SUBSET Addresses,
           Begin(p, step, l, a, who)
    PROVE  /\ proc' \in [Procs -> Process]
           /\ proc'[p] \in Busy
           /\ proc'[p].pc = step /\ proc'[p].list = l /\ proc'[p].addr = a
           /\ proc'[p].who = who /\ proc'[p].read = NoLines
           /\ \A q \in Procs : q # p => proc'[q] = proc[q]
<1>1. [pc |-> step, list |-> l, addr |-> a, who |-> who, read |-> NoLines] \in Busy
  BY DEF Busy, NoLines
<1> QED
  BY <1>1 DEF Begin, TypeOK, Process

\* Counting keeps the counters' type, and counts one thing at a time.
LEMMA CountedType ==
    ASSUME TypeOK, NEW what \in Counters, Counted(what)
    PROVE  /\ count' \in [Counters -> Nat]
           /\ \A c \in Counters : count'[c] = IF c = what THEN count[c] + 1 ELSE count[c]
BY DEF Counted, TypeOK

\* An operation that begins is counted, and so is its overlapping with another.
LEMMA StartsType ==
    ASSUME TypeOK, NEW p, NEW what \in {"requests", "commands"}, Starts(p, what)
    PROVE  /\ count' \in [Counters -> Nat]
           /\ Idle(p)
           /\ count'.tokens = count.tokens /\ count'.refused = count.refused
           /\ count'.crashes = count.crashes
           /\ count'.overlaps = 0 => count.overlaps = 0 /\ \A q \in Procs : Idle(q)
<1> DEFINE alone == \A q \in Procs : Idle(q)
<1>1. count' = [count EXCEPT ![what] = @ + 1, !.overlaps = IF alone THEN @ ELSE 1]
  BY DEF Starts
<1>2. count \in [Counters -> Nat]
  BY DEF TypeOK
<1> HIDE DEF alone
<1>3. /\ count' \in [Counters -> Nat]
      /\ count'.tokens = count.tokens /\ count'.refused = count.refused
      /\ count'.crashes = count.crashes
      /\ count'.overlaps = IF alone THEN count.overlaps ELSE 1
  <2>1. PICK seen \in Nat :
          /\ count' = [[count EXCEPT ![what] = @ + 1] EXCEPT !["overlaps"] = seen]
          /\ seen = IF alone THEN count["overlaps"] ELSE 1
    <3>1. [count EXCEPT ![what] = @ + 1]["overlaps"] = count["overlaps"]
      BY <1>2 DEF Counters
    <3>2. count["overlaps"] \in Nat
      BY <1>2 DEF Counters
    <3> QED
      BY <1>1, <3>1, <3>2
  <2> QED
    BY <2>1, <1>2 DEF Counters
<1>4. count'.overlaps = 0 => count.overlaps = 0 /\ alone
  BY <1>3
<1> QED
  BY <1>3, <1>4 DEF alone, Starts

-----------------------------------------------------------------------------
(* Type correctness *)

\* The types hold at first.
LEMMA InitType == Init => TypeOK
BY SubscriptionAssumption
   DEF Init, TypeOK, NoLines, Process, IdleProcess, Procs, Counters

\* The steps of a process that is busy.
LEMMA StepType ==
    ASSUME TypeOK, NEW p \in Procs, Step(p)
    PROVE  TypeOK'
<1> USE SubscriptionAssumption
<1>1. CASE CreateToken(p)
  <2>1. ~Idle(p)
    BY <1>1 DEF CreateToken, Idle
  <2>2. PICK t \in Tokens :
          LET r == [list |-> proc[p].list, addr |-> proc[p].addr, token |-> t,
                    at |-> now, id |-> count.tokens]
          IN  pending' = Upsert(r) /\ issued' = issued \cup {r}
    BY <1>1 DEF CreateToken
  <2>3. [list |-> proc[p].list, addr |-> proc[p].addr, token |-> t,
         at |-> now, id |-> count.tokens] \in Row
    BY <2>1, BusyProcess DEF TypeOK, Row, Counters
  <2>4. pending' \subseteq Row /\ issued' \subseteq Row
    BY <2>2, <2>3 DEF TypeOK, Upsert
  <2>5. proc' \in [Procs -> Process]
    BY <1>1, FinishProc DEF CreateToken
  <2>6. count' \in [Counters -> Nat]
    BY <1>1, CountedType DEF CreateToken, Counters
  <2> QED
    BY <1>1, <2>4, <2>5, <2>6 DEF CreateToken, TypeOK
<1>2. CASE ConsumeToken(p)
  <2>1. ~Idle(p)
    BY <1>2 DEF ConsumeToken, Idle
  <2>2. proc' \in [Procs -> Process]
    BY <1>2, <2>1, GotoProc, FinishProc DEF ConsumeToken, Steps
  <2>3. count' \in [Counters -> Nat]
    BY <1>2, CountedType DEF ConsumeToken, Counters, TypeOK
  <2> QED
    BY <1>2, <2>2, <2>3 DEF ConsumeToken, TypeOK
<1>3. CASE RemovePending(p)
  <2>1. proc' \in [Procs -> Process]
    BY <1>3, FinishProc DEF RemovePending
  <2> QED
    BY <1>3, <2>1 DEF RemovePending, TypeOK
<1>4. CASE AddLoad(p)
  <2>1. ~Idle(p)
    BY <1>4 DEF AddLoad, Idle
  <2>2. proc' \in [Procs -> Process]
    BY <1>4, <2>1, GotoProc, FinishProc DEF AddLoad, Steps
  <2> QED
    BY <1>4, <2>2 DEF AddLoad, TypeOK
<1>5. CASE AppendLine(p)
  <2>1. ~Idle(p)
    BY <1>5 DEF AppendLine, Idle
  <2>2. proc' \in [Procs -> Process]
    BY <1>5, FinishProc DEF AppendLine
  <2>3. /\ file' = [file EXCEPT ![proc[p].list][proc[p].addr] = @ + 1]
        /\ promised' = [promised EXCEPT ![proc[p].list] = @ \cup {proc[p].addr}]
    BY <1>5 DEF AppendLine
  <2>4. file' \in [Lists -> [Addresses -> Nat]] /\ promised' \in [Lists -> SUBSET Addresses]
    BY <2>1, <2>3, BusyProcess DEF TypeOK
  <2> QED
    BY <1>5, <2>2, <2>4 DEF AppendLine, TypeOK
<1>6. ASSUME ~Idle(p), AfterRemove(p)
      PROVE  proc' \in [Procs -> Process] /\ promised' \in [Lists -> SUBSET Addresses]
  <2>1. proc' \in [Procs -> Process]
    BY <1>6, GotoProc, FinishProc DEF AfterRemove, Steps
  <2>2. \/ promised' = promised
        \/ promised' = [promised EXCEPT ![proc[p].list] = @ \ {proc[p].addr}]
    BY <1>6 DEF AfterRemove
  <2>3. promised' \in [Lists -> SUBSET Addresses]
    BY <2>2 DEF TypeOK
  <2> QED
    BY <2>1, <2>3
<1>7. CASE RemoveLoad(p)
  <2>1. ~Idle(p)
    BY <1>7 DEF RemoveLoad, Idle
  <2>2. proc' \in [Procs -> Process] /\ promised' \in [Lists -> SUBSET Addresses]
    <3>1. CASE Goto(p, "removeRead") /\ UNCHANGED promised
      BY <3>1, <2>1, GotoProc DEF Steps, TypeOK
    <3>2. CASE AfterRemove(p)
      BY <3>2, <2>1, <1>6
    <3> QED
      BY <1>7, <3>1, <3>2 DEF RemoveLoad
  <2> QED
    BY <1>7, <2>2 DEF RemoveLoad, TypeOK
<1>8. CASE RemoveRead(p)
  <2>1. ~Idle(p)
    BY <1>8 DEF RemoveRead, Idle
  <2>2. proc[p] \in Busy /\ file[proc[p].list] \in [Addresses -> Nat]
    BY <2>1, BusyProcess DEF TypeOK
  <2>3. proc' = [proc EXCEPT ![p] =
                   [[proc[p] EXCEPT !.pc = "truncate"] EXCEPT !.read = file[proc[p].list]]]
    BY <1>8 DEF RemoveRead, TypeOK
  <2>4. [[proc[p] EXCEPT !.pc = "truncate"] EXCEPT !.read = file[proc[p].list]] \in Busy
    BY <2>2 DEF Busy, Steps
  <2>5. proc' \in [Procs -> Process]
    BY <2>3, <2>4 DEF TypeOK, Process
  <2> QED
    BY <1>8, <2>5 DEF RemoveRead, TypeOK
<1>9. CASE Truncate(p)
  <2>1. ~Idle(p)
    BY <1>9 DEF Truncate, Idle
  <2>2. proc' \in [Procs -> Process]
    BY <1>9, <2>1, GotoProc DEF Truncate, Steps
  <2>3. file' \in [Lists -> [Addresses -> Nat]]
    BY <1>9, <2>1, BusyProcess DEF Truncate, TypeOK, NoLines
  <2> QED
    BY <1>9, <2>2, <2>3 DEF Truncate, TypeOK
<1>10. CASE Rewrite(p)
  <2>1. ~Idle(p)
    BY <1>10 DEF Rewrite, Idle
  <2>2. [proc[p].read EXCEPT ![proc[p].addr] = 0] \in [Addresses -> Nat]
    BY <2>1, BusyProcess
  <2>3. file' \in [Lists -> [Addresses -> Nat]]
    BY <1>10, <2>2 DEF Rewrite, TypeOK
  <2>4. proc' \in [Procs -> Process] /\ promised' \in [Lists -> SUBSET Addresses]
    BY <1>10, <2>1, <1>6 DEF Rewrite
  <2> QED
    BY <1>10, <2>3, <2>4 DEF Rewrite, TypeOK
<1> QED
  BY <1>1, <1>2, <1>3, <1>4, <1>5, <1>7, <1>8, <1>9, <1>10 DEF Step

\* The requests, the commands and the environment.
LEMMA BeginType ==
    ASSUME TypeOK, [Next]_vars, ~\E p \in Procs : Step(p)
    PROVE  TypeOK'
<1> USE SubscriptionAssumption
<1>1. ASSUME NEW p \in Procs, Crash(p)
      PROVE  TypeOK'
  <2>1. proc' \in [Procs -> Process]
    BY <1>1, FinishProc DEF Crash
  <2>2. count' \in [Counters -> Nat]
    BY <1>1, CountedType DEF Crash, Counters
  <2> QED
    BY <1>1, <2>1, <2>2 DEF Crash, TypeOK
<1>2. Server \in Procs
  BY DEF Procs
<1>3. ASSUME NEW l \in Lists, NEW a \in Addresses, HandleSubscribe(l, a)
      PROVE  TypeOK'
  <2>1. proc' \in [Procs -> Process]
    <3>1. CASE UNCHANGED proc
      BY <3>1 DEF TypeOK
    <3>2. CASE Begin(Server, "create", l, a, {a})
      BY <3>2, <1>2, BeginProc DEF Steps
    <3> QED
      BY <1>3, <3>1, <3>2 DEF HandleSubscribe
  <2>2. count' \in [Counters -> Nat]
    BY <1>3, StartsType DEF HandleSubscribe, Request
  <2> QED
    BY <1>3, <2>1, <2>2 DEF HandleSubscribe, TypeOK
<1>4. ASSUME NEW l \in Lists, NEW a \in Addresses, HandleUnsubscribe(l, a)
      PROVE  TypeOK'
  <2>1. proc' \in [Procs -> Process]
    <3>1. CASE UNCHANGED proc
      BY <3>1 DEF TypeOK
    <3>2. CASE Begin(Server, "removeLoad", l, a, {a})
      BY <3>2, <1>2, BeginProc DEF Steps
    <3> QED
      BY <1>4, <3>1, <3>2 DEF HandleUnsubscribe
  <2>2. count' \in [Counters -> Nat]
    BY <1>4, StartsType DEF HandleUnsubscribe, Request
  <2> QED
    BY <1>4, <2>1, <2>2 DEF HandleUnsubscribe, TypeOK
<1>5. ASSUME NEW l \in Lists, NEW a \in Addresses, NEW p \in Admins,
             ListAdd(p, l, a) \/ ListAddNoVerify(p, l, a) \/ ListRemove(p, l, a)
      PROVE  TypeOK'
  <2>1. p \in Procs
    BY DEF Procs
  <2>2. PICK step \in {"create", "addLoad", "removeLoad"} :
          UNCHANGED proc \/ Begin(p, step, l, a, {})
    BY <1>5 DEF ListAdd, ListAddNoVerify, ListRemove
  <2>3. proc' \in [Procs -> Process]
    <3>1. CASE UNCHANGED proc
      BY <3>1 DEF TypeOK
    <3>2. CASE Begin(p, step, l, a, {})
      BY <3>2, <2>1, BeginProc DEF Steps
    <3> QED
      BY <2>2, <3>1, <3>2
  <2>4. count' \in [Counters -> Nat]
    BY <1>5, StartsType DEF ListAdd, ListAddNoVerify, ListRemove, Command
  <2>5. granted' \in [Lists -> SUBSET Addresses]
    BY <1>5 DEF ListAdd, ListAddNoVerify, ListRemove, TypeOK
  <2> QED
    BY <1>5, <2>3, <2>4, <2>5 DEF ListAdd, ListAddNoVerify, ListRemove, TypeOK
<1>6. ASSUME NEW l \in Lists, NEW who \in SUBSET Addresses, NEW t \in Tokens,
             HandleConfirm(l, who, t)
      PROVE  TypeOK'
  <2>1. proc' \in [Procs -> Process]
    <3>1. CASE UNCHANGED proc
      BY <3>1 DEF TypeOK
    <3>2. ASSUME NEW r \in Redeemable(l, t), Begin(Server, "consume", l, r.addr, who)
          PROVE  proc' \in [Procs -> Process]
      <4>1. r.addr \in Addresses
        BY DEF Redeemable, TypeOK, Row
      <4> QED
        BY <3>2, <4>1, <1>2, BeginProc DEF Steps
    <3> QED
      BY <1>6, <3>1, <3>2 DEF HandleConfirm
  <2>2. count' \in [Counters -> Nat]
    BY <1>6, StartsType DEF HandleConfirm, Request
  <2>3. presented' \subseteq [list : Lists, addr : Addresses, token : Tokens, at : Nat]
    BY <1>6 DEF HandleConfirm, TypeOK
  <2> QED
    BY <1>6, <2>1, <2>2, <2>3 DEF HandleConfirm, TypeOK
<1>7. CASE Tick
  BY <1>7 DEF Tick, TypeOK
<1>8. CASE UNCHANGED vars
  BY <1>8 DEF vars, TypeOK
<1> QED
  BY <1>1, <1>3, <1>4, <1>5, <1>6, <1>7, <1>8 DEF Next

\* Every value the program keeps stays in its type, however long it runs.
THEOREM TypeCorrect == Spec => []TypeOK
<1>1. TypeOK /\ [Next]_vars => TypeOK'
  BY StepType, BeginType
<1> QED
  BY InitType, <1>1, PTL DEF Spec

-----------------------------------------------------------------------------
(* Nobody is on a list without consent.  A process carries addresses from  *)
(* one store to the other: the invariant says that whatever is under way   *)
(* is as good as what is stored.  In particular the snapshot with which    *)
(* remove_subscriber overwrites the file, however stale, holds nobody who  *)
(* never consented.                                                        *)

StoredByConsent ==
    \A l \in Lists, a \in Addresses : file[l][a] > 0 => Consented(l, a)

CarriedByConsent(p) ==
    ~Idle(p) =>
        /\ \A a \in Addresses : proc[p].read[a] > 0 => Consented(proc[p].list, a)
        /\ proc[p].pc \in {"addLoad", "append"} => Consented(proc[p].list, proc[p].addr)
        /\ proc[p].pc = "consume" /\ proc[p].addr \in proc[p].who
             => Consented(proc[p].list, proc[p].addr)

ConsentInv ==
    /\ TypeOK
    /\ pending \subseteq issued
    /\ \A r \in issued : r.at <= now
    /\ StoredByConsent
    /\ \A p \in Procs : CarriedByConsent(p)

\* Consent is never withdrawn.
LEMMA ConsentKept ==
    ASSUME TypeOK, NEW l \in Lists, NEW a \in Addresses, Consented(l, a),
           issued \subseteq issued', presented \subseteq presented',
           granted[l] \subseteq granted'[l]
    PROVE  Consented(l, a)'
BY DEF Consented

\* What only adds to the history keeps the rest of the invariant, for the
\* files and the processes that stay as they are.
LEMMA HistoryGrows ==
    ASSUME TypeOK, [Next]_vars
    PROVE  /\ issued \subseteq issued' /\ presented \subseteq presented'
           /\ \A l \in Lists : granted[l] \subseteq granted'[l]
<1>1. ASSUME NEW p \in Procs, Step(p)
      PROVE  issued \subseteq issued' /\ UNCHANGED <<presented, granted>>
  BY <1>1 DEF Step, CreateToken, ConsumeToken, RemovePending, AddLoad, AppendLine,
              RemoveLoad, RemoveRead, Truncate, Rewrite
<1>2. ASSUME NEW p \in Procs, Crash(p)
      PROVE  UNCHANGED <<issued, presented, granted>>
  BY <1>2 DEF Crash
<1>3. ASSUME NEW l \in Lists, NEW a \in Addresses,
             HandleSubscribe(l, a) \/ HandleUnsubscribe(l, a)
      PROVE  UNCHANGED <<issued, presented, granted>>
  BY <1>3 DEF HandleSubscribe, HandleUnsubscribe
<1>4. ASSUME NEW l \in Lists, NEW a \in Addresses, NEW p \in Admins,
             ListAdd(p, l, a) \/ ListAddNoVerify(p, l, a) \/ ListRemove(p, l, a)
      PROVE  /\ UNCHANGED <<issued, presented>>
             /\ \A k \in Lists : granted[k] \subseteq granted'[k]
  BY <1>4 DEF ListAdd, ListAddNoVerify, ListRemove, TypeOK
<1>5. ASSUME NEW l \in Lists, NEW who \in SUBSET Addresses, NEW t \in Tokens,
             HandleConfirm(l, who, t)
      PROVE  UNCHANGED <<issued, granted>> /\ presented \subseteq presented'
  BY <1>5 DEF HandleConfirm
<1>6. CASE Tick
  BY <1>6 DEF Tick
<1>7. CASE UNCHANGED vars
  BY <1>7 DEF vars
<1> QED
  BY <1>1, <1>2, <1>3, <1>4, <1>5, <1>6, <1>7 DEF Next

\* A busy process only adds an address to a list with its owner's consent.
LEMMA ConsentStep ==
    ASSUME ConsentInv, NEW p \in Procs, Step(p)
    PROVE  ConsentInv'
<1> USE DEF ConsentInv
<1>1. TypeOK'
  BY StepType
<1>2. /\ issued \subseteq issued' /\ presented \subseteq presented'
      /\ \A l \in Lists : granted[l] \subseteq granted'[l]
  BY HistoryGrows DEF Next
<1>3. ~Idle(p)
  BY DEF Step, CreateToken, ConsumeToken, RemovePending, AddLoad, AppendLine,
         RemoveLoad, RemoveRead, Truncate, Rewrite, Idle
<1>4. /\ proc[p].list \in Lists /\ proc[p].addr \in Addresses
      /\ proc[p].read \in [Addresses -> Nat] /\ proc[p].pc \in Steps
  BY <1>3, BusyProcess
<1>5. \A l \in Lists, a \in Addresses : Consented(l, a) => Consented(l, a)'
  BY <1>2, ConsentKept
<1>6. (pending \subseteq issued /\ \A r \in issued : r.at <= now)'
  <2>1. CASE CreateToken(p)
    BY <2>1 DEF CreateToken, Upsert, TypeOK
  <2>2. CASE ~CreateToken(p)
    BY <2>2 DEF Step, ConsumeToken, RemovePending, AddLoad, AppendLine,
                RemoveLoad, RemoveRead, Truncate, Rewrite
  <2> QED
    BY <2>1, <2>2
<1>7. ASSUME UNCHANGED file
      PROVE  StoredByConsent'
  BY <1>5, <1>7 DEF StoredByConsent
<1>8. \A q \in Procs : q # p => CarriedByConsent(q)'
  <2> SUFFICES ASSUME NEW q \in Procs, q # p, ~Idle(q)'
               PROVE  CarriedByConsent(q)'
    BY DEF CarriedByConsent
  <2>1. proc'[q] = proc[q]
    BY GotoProc, FinishProc, <1>3
       DEF Step, CreateToken, ConsumeToken, RemovePending, AddLoad, AppendLine, RemoveLoad,
           RemoveRead, Truncate, Rewrite, AfterRemove, Finish, Goto, TypeOK
  <2>2. ~Idle(q)
    BY <2>1 DEF Idle
  <2>3. /\ proc[q].list \in Lists /\ proc[q].addr \in Addresses
    BY <2>2, BusyProcess
  <2> QED
    BY <2>1, <2>2, <2>3, <1>5 DEF CarriedByConsent, Idle
<1>9. ASSUME Finish(p)
      PROVE  CarriedByConsent(p)'
  BY <1>9, FinishProc DEF CarriedByConsent, Idle
<1>10. ASSUME NEW step \in Steps \ {"consume"}, Goto(p, step),
              step \in {"addLoad", "append"} => Consented(proc[p].list, proc[p].addr)
       PROVE  CarriedByConsent(p)'
  <2>1. /\ proc'[p].pc = step /\ proc'[p].list = proc[p].list
        /\ proc'[p].addr = proc[p].addr /\ proc'[p].read = proc[p].read
    BY <1>3, <1>10, GotoProc
  <2> QED
    BY <2>1, <1>3, <1>4, <1>5, <1>10 DEF CarriedByConsent, Idle
<1>11. CASE CreateToken(p)
  BY <1>1, <1>6, <1>7, <1>8, <1>9, <1>11 DEF CreateToken
<1>12. CASE ConsumeToken(p)
  <2>1. CASE Goto(p, "addLoad") /\ proc[p].addr \in proc[p].who
    <3>1. Consented(proc[p].list, proc[p].addr)
      BY <1>3, <1>12, <2>1 DEF ConsumeToken, CarriedByConsent
    <3>2. CarriedByConsent(p)'
      BY <3>1, <2>1, <1>10 DEF Steps
    <3> QED
      BY <1>1, <1>6, <1>7, <1>8, <1>12, <3>2 DEF ConsumeToken
  <2>2. CASE Finish(p)
    BY <1>1, <1>6, <1>7, <1>8, <1>9, <1>12, <2>2 DEF ConsumeToken
  <2> QED
    BY <1>12, <2>1, <2>2 DEF ConsumeToken
<1>13. CASE RemovePending(p)
  BY <1>1, <1>6, <1>7, <1>8, <1>9, <1>13 DEF RemovePending
<1>14. CASE AddLoad(p)
  <2>1. CASE Goto(p, "append")
    <3>1. Consented(proc[p].list, proc[p].addr)
      BY <1>3, <1>14 DEF AddLoad, CarriedByConsent
    <3>2. CarriedByConsent(p)'
      BY <3>1, <2>1, <1>10 DEF Steps
    <3> QED
      BY <1>1, <1>6, <1>7, <1>8, <1>14, <3>2 DEF AddLoad
  <2>2. CASE Finish(p)
    BY <1>1, <1>6, <1>7, <1>8, <1>9, <1>14, <2>2 DEF AddLoad
  <2> QED
    BY <1>14, <2>1, <2>2 DEF AddLoad
<1>15. CASE AppendLine(p)
  <2>1. Consented(proc[p].list, proc[p].addr)
    BY <1>3, <1>15 DEF AppendLine, CarriedByConsent
  <2>2. \A l \in Lists, a \in Addresses :
          file'[l][a] > 0 => file[l][a] > 0 \/ (l = proc[p].list /\ a = proc[p].addr)
    BY <1>4, <1>15 DEF AppendLine, TypeOK
  <2>3. StoredByConsent'
    BY <2>1, <2>2, <1>5 DEF StoredByConsent
  <2> QED
    BY <1>1, <1>6, <1>8, <1>9, <1>15, <2>3 DEF AppendLine
<1>16. ASSUME AfterRemove(p)
       PROVE  CarriedByConsent(p)'
  BY <1>9, <1>10, <1>16 DEF AfterRemove, Steps
<1>17. CASE RemoveLoad(p)
  <2>1. CarriedByConsent(p)'
    BY <1>10, <1>16, <1>17 DEF RemoveLoad, Steps
  <2> QED
    BY <1>1, <1>6, <1>7, <1>8, <1>17, <2>1 DEF RemoveLoad
<1>18. CASE RemoveRead(p)
  <2>1. /\ proc'[p].pc = "truncate" /\ proc'[p].list = proc[p].list
        /\ proc'[p].read = file[proc[p].list]
    BY <1>3, <1>18, BusyProcess DEF RemoveRead, TypeOK, Busy
  <2>2. \A a \in Addresses : proc'[p].read[a] > 0 => Consented(proc[p].list, a)'
    BY <2>1, <1>4, <1>5 DEF StoredByConsent
  <2>3. CarriedByConsent(p)'
    BY <2>1, <2>2 DEF CarriedByConsent
  <2> QED
    BY <1>1, <1>6, <1>7, <1>8, <1>18, <2>3 DEF RemoveRead
<1>19. CASE Truncate(p)
  <2>1. \A l \in Lists, a \in Addresses : file'[l][a] > 0 => file[l][a] > 0
    BY <1>4, <1>19 DEF Truncate, TypeOK, NoLines
  <2>2. StoredByConsent'
    BY <2>1, <1>5 DEF StoredByConsent
  <2>3. CarriedByConsent(p)'
    BY <1>10, <1>19 DEF Truncate, Steps
  <2> QED
    BY <1>1, <1>6, <1>8, <1>19, <2>2, <2>3 DEF Truncate
<1>20. CASE Rewrite(p)
  <2>1. \A l \in Lists, a \in Addresses :
          file'[l][a] > 0 => file[l][a] > 0 \/ (l = proc[p].list /\ proc[p].read[a] > 0)
    BY <1>4, <1>20 DEF Rewrite, TypeOK
  <2>2. \A a \in Addresses : proc[p].read[a] > 0 => Consented(proc[p].list, a)
    BY <1>3 DEF CarriedByConsent
  <2>3. StoredByConsent'
    BY <2>1, <2>2, <1>4, <1>5 DEF StoredByConsent
  <2> QED
    BY <1>1, <1>6, <1>8, <1>16, <1>20, <2>3 DEF Rewrite
<1> QED
  BY <1>11, <1>12, <1>13, <1>14, <1>15, <1>17, <1>18, <1>19, <1>20 DEF Step

\* Requests, commands and the environment keep the consent invariant.
LEMMA ConsentBegin ==
    ASSUME ConsentInv, [Next]_vars, ~\E p \in Procs : Step(p)
    PROVE  ConsentInv'
<1> USE DEF ConsentInv
<1>1. TypeOK'
  BY BeginType
<1>2. /\ issued \subseteq issued' /\ presented \subseteq presented'
      /\ \A l \in Lists : granted[l] \subseteq granted'[l]
  BY HistoryGrows
<1>3. \A l \in Lists, a \in Addresses : Consented(l, a) => Consented(l, a)'
  BY <1>2, ConsentKept
<1>4. Server \in Procs /\ Admins \subseteq Procs
  BY DEF Procs
\* No file changes here, so only the process that begins is to be looked at.
<1>5. ASSUME UNCHANGED file
      PROVE  StoredByConsent'
  BY <1>3, <1>5 DEF StoredByConsent
<1>6. ASSUME NEW q \in Procs, proc'[q] = proc[q]
      PROVE  CarriedByConsent(q)'
  <2> SUFFICES ASSUME ~Idle(q)'
               PROVE  CarriedByConsent(q)'
    BY DEF CarriedByConsent
  <2>1. ~Idle(q)
    BY <1>6 DEF Idle
  <2>2. proc[q].list \in Lists /\ proc[q].addr \in Addresses
    BY <2>1, BusyProcess
  <2> QED
    BY <1>3, <1>6, <2>1, <2>2 DEF CarriedByConsent, Idle
<1>7. ASSUME NEW p \in Procs, NEW step \in Steps, NEW l \in Lists, NEW a \in Addresses,
             NEW who \in SUBSET Addresses, Begin(p, step, l, a, who),
             step \in {"addLoad", "append"} => Consented(l, a)',
             step = "consume" /\ a \in who => Consented(l, a)'
      PROVE  \A q \in Procs : CarriedByConsent(q)'
  <2>1. /\ proc'[p].pc = step /\ proc'[p].list = l /\ proc'[p].addr = a
        /\ proc'[p].who = who /\ proc'[p].read = NoLines
        /\ \A q \in Procs : q # p => proc'[q] = proc[q]
    BY <1>7, BeginProc
  <2>2. CarriedByConsent(p)'
    BY <2>1, <1>7 DEF CarriedByConsent, NoLines
  <2> QED
    BY <2>1, <2>2, <1>6
<1>8. ASSUME UNCHANGED proc
      PROVE  \A q \in Procs : CarriedByConsent(q)'
  BY <1>6, <1>8
<1>9. ASSUME NEW p \in Procs, Crash(p)
      PROVE  ConsentInv'
  <2>1. CarriedByConsent(p)'
    BY <1>9, FinishProc DEF Crash, CarriedByConsent, Idle
  <2>2. \A q \in Procs : CarriedByConsent(q)'
    BY <1>9, <2>1, <1>6, FinishProc DEF Crash
  <2> QED
    BY <1>1, <1>5, <1>9, <2>2 DEF Crash
<1>10. ASSUME NEW l \in Lists, NEW a \in Addresses,
              HandleSubscribe(l, a) \/ HandleUnsubscribe(l, a)
       PROVE  ConsentInv'
  <2>1. PICK step \in {"create", "removeLoad"} :
          UNCHANGED proc \/ Begin(Server, step, l, a, {a})
    BY <1>10 DEF HandleSubscribe, HandleUnsubscribe
  <2>2. \A q \in Procs : CarriedByConsent(q)'
    BY <2>1, <1>4, <1>7, <1>8 DEF Steps
  <2> QED
    BY <1>1, <1>5, <1>10, <2>2 DEF HandleSubscribe, HandleUnsubscribe
<1>11. ASSUME NEW l \in Lists, NEW a \in Addresses, NEW p \in Admins,
              ListAdd(p, l, a) \/ ListRemove(p, l, a)
       PROVE  ConsentInv'
  <2>1. PICK step \in {"create", "removeLoad"} :
          UNCHANGED proc \/ Begin(p, step, l, a, {})
    BY <1>11 DEF ListAdd, ListRemove
  <2>2. \A q \in Procs : CarriedByConsent(q)'
    BY <2>1, <1>4, <1>7, <1>8 DEF Steps
  <2> QED
    BY <1>1, <1>5, <1>11, <2>2 DEF ListAdd, ListRemove
<1>12. ASSUME NEW l \in Lists, NEW a \in Addresses, NEW p \in Admins,
              ListAddNoVerify(p, l, a)
       PROVE  ConsentInv'
  <2>1. Consented(l, a)'
    BY <1>12 DEF ListAddNoVerify, Consented, TypeOK
  <2>2. UNCHANGED proc \/ Begin(p, "addLoad", l, a, {})
    BY <1>12 DEF ListAddNoVerify
  <2>3. \A q \in Procs : CarriedByConsent(q)'
    BY <2>1, <2>2, <1>4, <1>7, <1>8 DEF Steps
  <2> QED
    BY <1>1, <1>5, <1>12, <2>3 DEF ListAddNoVerify
<1>13. ASSUME NEW l \in Lists, NEW who \in SUBSET Addresses, NEW t \in Tokens,
              HandleConfirm(l, who, t)
       PROVE  ConsentInv'
  <2>1. ASSUME NEW r \in Redeemable(l, t), Begin(Server, "consume", l, r.addr, who)
        PROVE  \A q \in Procs : CarriedByConsent(q)'
    <3>1. /\ r \in issued /\ r.list = l /\ r.token = t
          /\ r.at <= now /\ r.at >= now - TTL
          /\ r.addr \in Addresses /\ r.at \in Nat
      BY DEF Redeemable, TypeOK, Row
    <3>2. ASSUME r.addr \in who
          PROVE  Consented(l, r.addr)'
      <4> DEFINE c == [list |-> l, addr |-> r.addr, token |-> t, at |-> now]
      <4>1. c \in presented' /\ r \in issued'
        BY <1>13, <3>1, <3>2 DEF HandleConfirm
      <4>2. r.at <= c.at /\ c.at <= r.at + TTL
        BY <3>1, SubscriptionAssumption DEF TypeOK
      <4> QED
        BY <3>1, <4>1, <4>2 DEF Consented
    <3> QED
      BY <2>1, <3>1, <3>2, <1>4, <1>7 DEF Steps
  <2>2. \A q \in Procs : CarriedByConsent(q)'
    BY <1>13, <2>1, <1>8 DEF HandleConfirm
  <2> QED
    BY <1>1, <1>5, <1>13, <2>2 DEF HandleConfirm
<1>14. CASE Tick
  <2>1. \A r \in issued : r.at <= now'
    BY <1>14 DEF Tick, TypeOK, Row
  <2> QED
    BY <1>1, <1>5, <1>8, <1>14, <2>1 DEF Tick
<1>15. CASE UNCHANGED vars
  BY <1>1, <1>5, <1>8, <1>15 DEF vars
<1> QED
  BY <1>9, <1>10, <1>11, <1>12, <1>13, <1>14, <1>15 DEF Next

\* Every address on a list was put there by an administrator or has shown a
\* token issued to it for that list while the token was valid.
THEOREM NobodySubscribedWithoutConsent == Spec => []SubscribedByConsent
<1>1. Init => ConsentInv
  BY InitType DEF Init, ConsentInv, StoredByConsent, CarriedByConsent, NoLines, Idle,
                  IdleProcess
<1>2. ConsentInv /\ [Next]_vars => ConsentInv'
  BY ConsentStep, ConsentBegin
<1>3. ConsentInv => SubscribedByConsent
  BY DEF ConsentInv, StoredByConsent, SubscribedByConsent, Subscribers
<1> QED
  BY <1>1, <1>2, <1>3, PTL DEF Spec

-----------------------------------------------------------------------------
(* Only the latest token is pending.  The rank of every token ever issued  *)
(* is below the number of tokens, so a new one ranks above them all.       *)

LatestInv ==
    /\ TypeOK
    /\ \A r \in issued : r.id < count.tokens
    /\ OnlyLatestTokenPending

\* A busy process creates tokens one at a time and newer ones replace older.
LEMMA LatestStep ==
    ASSUME LatestInv, [Next]_vars
    PROVE  LatestInv'
<1> USE DEF LatestInv
<1>1. TypeOK'
  BY StepType, BeginType
<1>2. ASSUME pending' \subseteq pending, UNCHANGED issued,
             count.tokens <= count'.tokens
      PROVE  LatestInv'
  <2>1. count.tokens \in Nat /\ count'.tokens \in Nat
    BY <1>1 DEF TypeOK, Counters
  <2>2. \A r \in issued' : r.id < count'.tokens
    BY <2>1, <1>2 DEF TypeOK, Row
  <2>3. OnlyLatestTokenPending'
    BY <1>2 DEF OnlyLatestTokenPending
  <2> QED
    BY <1>1, <2>2, <2>3
<1>3. ASSUME NEW p \in Procs, CreateToken(p)
      PROVE  LatestInv'
  <2>1. ~Idle(p)
    BY <1>3 DEF CreateToken, Idle
  <2>2. PICK t \in Tokens :
          LET r == [list |-> proc[p].list, addr |-> proc[p].addr, token |-> t,
                    at |-> now, id |-> count.tokens]
          IN  pending' = Upsert(r) /\ issued' = issued \cup {r}
    BY <1>3 DEF CreateToken
  <2> DEFINE r == [list |-> proc[p].list, addr |-> proc[p].addr, token |-> t,
                   at |-> now, id |-> count.tokens]
  <2>3. count'.tokens = count.tokens + 1 /\ count.tokens \in Nat
    BY <1>3, CountedType DEF CreateToken, TypeOK, Counters
  <2>4. \A s \in issued' : s.id < count'.tokens
    BY <2>2, <2>3 DEF TypeOK, Row
  <2>5. ASSUME NEW u \in pending', NEW s \in issued', u.list = s.list, u.addr = s.addr
        PROVE  s.id <= u.id
    <3>1. CASE u = r
      BY <3>1, <2>2, <2>3 DEF TypeOK, Row
    <3>2. CASE u \in pending /\ ~(u.list = r.list /\ u.addr = r.addr)
      BY <3>2, <2>2, <2>5 DEF OnlyLatestTokenPending
    <3> QED
      BY <2>2, <3>1, <3>2 DEF Upsert, RowsOf
  <2> QED
    BY <1>1, <2>4, <2>5 DEF OnlyLatestTokenPending
<1>4. ASSUME NEW p \in Procs, Step(p), ~CreateToken(p)
      PROVE  LatestInv'
  <2>1. UNCHANGED count \/ Counted("refused")
    BY <1>4 DEF Step, ConsumeToken, RemovePending, AddLoad, AppendLine, RemoveLoad,
                RemoveRead, Truncate, Rewrite
  <2>2. count.tokens <= count'.tokens
    BY <2>1, CountedType DEF Counters, TypeOK
  <2> QED
    BY <1>2, <1>4, <2>2 DEF Step, ConsumeToken, RemovePending, AddLoad, AppendLine,
                            RemoveLoad, RemoveRead, Truncate, Rewrite, RowsOf
<1>5. CASE UNCHANGED <<pending, issued>> /\ ~\E p \in Procs : Step(p)
  <2>1. count.tokens <= count'.tokens
    <3>1. \/ UNCHANGED count
          \/ Counted("crashes")
          \/ Starts(Server, "requests")
          \/ \E p \in Admins : Starts(p, "commands")
      BY <1>5 DEF Next, Crash, HandleSubscribe, HandleUnsubscribe, HandleConfirm, Request,
                  ListAdd, ListAddNoVerify, ListRemove, Command, Tick, vars
    <3>2. count'.tokens = count.tokens
      BY <3>1, CountedType, StartsType DEF Counters
    <3>3. count.tokens \in Nat
      BY DEF TypeOK, Counters
    <3> QED
      BY <3>2, <3>3
  <2> QED
    BY <1>2, <1>5, <2>1
<1>6. UNCHANGED <<pending, issued>> \/ \E p \in Procs : Step(p)
  BY DEF Next, Crash, HandleSubscribe, HandleUnsubscribe, HandleConfirm,
         ListAdd, ListAddNoVerify, ListRemove, Tick, vars
<1> QED
  BY <1>3, <1>4, <1>5, <1>6

\* A replaced token is never good again, whichever process replaced it.
THEOREM ReplacedTokensAreDead == Spec => []OnlyLatestTokenPending
<1>1. Init => LatestInv
  BY InitType DEF Init, LatestInv, OnlyLatestTokenPending
<1>2. LatestInv /\ [Next]_vars => LatestInv'
  BY LatestStep
<1>3. LatestInv => OnlyLatestTokenPending
  BY DEF LatestInv
<1> QED
  BY <1>1, <1>2, <1>3, PTL DEF Spec
-----------------------------------------------------------------------------
(* A list behaves as ListMembership promises.  As long as operations do    *)
(* not overlap at most one process is at work, and what it has read is     *)
(* what the stores still hold: the invariant says so for each of its steps.*)

InPlace(p) ==
    LET l == proc[p].list
        a == proc[p].addr
        read == proc[p].read
    IN  ~Idle(p) =>
          /\ proc[p].pc \in {"create", "append"} => file[l][a] = 0
          /\ proc[p].pc = "consume" => RowsOf(l, a) # {}
          /\ proc[p].pc = "removeLoad" => read = NoLines
          /\ proc[p].pc = "removeRead" => file[l][a] > 0
          /\ proc[p].pc = "truncate" => read = file[l] /\ read[a] > 0
          /\ proc[p].pc = "rewrite" => file[l] = NoLines /\ read[a] > 0
          /\ proc[p].pc = "unpend" =>
               \/ read = NoLines /\ file[l][a] = 0
               \/ read[a] > 0 /\ file[l] = [read EXCEPT ![a] = 0]
          /\ Joining(p) => RowsOf(l, a) = {}
          /\ \A b \in Addresses : read[b] <= 1

SingleLines == \A l \in Lists, a \in Addresses : file[l][a] <= 1

Alone(p) == \A q \in Procs : ~Idle(q) => q = p

SerialInv ==
    /\ TypeOK
    /\ count.overlaps = 0 =>
         /\ \A p \in Procs : ~Idle(p) => Alone(p) /\ InPlace(p)
         /\ SingleLines
         /\ count.crashes = 0 => promised = Members

Pairs(rows) == {<<r.list, r.addr>> : r \in rows}

\* What the mapping shows when at most one process is at work ...
LEMMA MembersNow ==
    ASSUME NEW p \in Procs, Alone(p)
    PROVE  /\ Members \in [Lists -> SUBSET Addresses]
           /\ \A l \in Lists :
                /\ Removing(p, l) => Members[l] = {a \in Addresses : proc[p].read[a] > 0}
                /\ ~Removing(p, l) => Members[l] = Subscribers(l)
           /\ Joining(p) => Invited = Pairs(pending) \cup {<<proc[p].list, proc[p].addr>>}
           /\ ~Joining(p) => Invited = Pairs(pending)
<1>1. \A q \in Procs : Joining(q) => q = p
  BY DEF Joining, Alone
<1>2. \A q \in Procs, l \in Lists : Removing(q, l) => q = p
  BY DEF Removing, Alone
<1>3. Members \in [Lists -> SUBSET Addresses]
  BY DEF Members
<1>4. ASSUME NEW l \in Lists
      PROVE  /\ Removing(p, l) => Members[l] = {a \in Addresses : proc[p].read[a] > 0}
             /\ ~Removing(p, l) => Members[l] = Subscribers(l)
  BY <1>2 DEF Members, Subscribers
<1>5. {q \in Procs : Joining(q)} = IF Joining(p) THEN {p} ELSE {}
  BY <1>1
<1>6. Joining(p) => Invited = Pairs(pending) \cup {<<proc[p].list, proc[p].addr>>}
  BY <1>5 DEF Invited, Pairs
<1>7. ~Joining(p) => Invited = Pairs(pending)
  BY <1>5 DEF Invited, Pairs
<1> QED
  BY <1>3, <1>4, <1>6, <1>7

\* ... and after a step.
LEMMA MembersNext ==
    ASSUME NEW p \in Procs, Alone(p)'
    PROVE  /\ Members' \in [Lists -> SUBSET Addresses]
           /\ \A l \in Lists :
                /\ Removing(p, l)' => Members'[l] = {a \in Addresses : proc'[p].read[a] > 0}
                /\ ~Removing(p, l)' => Members'[l] = Subscribers(l)'
           /\ Joining(p)' => Invited' = Pairs(pending') \cup {<<proc'[p].list, proc'[p].addr>>}
           /\ ~Joining(p)' => Invited' = Pairs(pending')
<1>1. \A q \in Procs : Joining(q)' => q = p
  BY DEF Joining, Alone
<1>2. \A q \in Procs, l \in Lists : Removing(q, l)' => q = p
  BY DEF Removing, Alone
<1>3. Members' \in [Lists -> SUBSET Addresses]
  BY DEF Members
<1>4. ASSUME NEW l \in Lists
      PROVE  /\ Removing(p, l)' => Members'[l] = {a \in Addresses : proc'[p].read[a] > 0}
             /\ ~Removing(p, l)' => Members'[l] = Subscribers(l)'
  BY <1>2 DEF Members, Subscribers
<1>5. {q \in Procs : Joining(q)'} = IF Joining(p)' THEN {p} ELSE {}
  BY <1>1
<1>6. Joining(p)' => Invited' = Pairs(pending') \cup {<<proc'[p].list, proc'[p].addr>>}
  BY <1>5 DEF Invited, Pairs
<1>7. ~Joining(p)' => Invited' = Pairs(pending')
  BY <1>5 DEF Invited, Pairs
<1> QED
  BY <1>3, <1>4, <1>6, <1>7

\* The rows of one list and address are what the pair of the two stands for.
LEMMA PairsRows ==
    ASSUME TypeOK, NEW l \in Lists, NEW a \in Addresses
    PROVE  /\ Pairs(pending \ RowsOf(l, a)) = Pairs(pending) \ {<<l, a>>}
           /\ \A r \in Row : r.list = l /\ r.addr = a =>
                Pairs(Upsert(r)) = Pairs(pending) \cup {<<l, a>>}
           /\ <<l, a>> \in Pairs(pending) <=> RowsOf(l, a) # {}
<1>1. Pairs(pending \ RowsOf(l, a)) = Pairs(pending) \ {<<l, a>>}
  BY DEF Pairs, RowsOf
<1>2. <<l, a>> \in Pairs(pending) <=> RowsOf(l, a) # {}
  BY DEF Pairs, RowsOf
<1>3. ASSUME NEW r \in Row, r.list = l, r.addr = a
      PROVE  Pairs(Upsert(r)) = Pairs(pending) \cup {<<l, a>>}
  <2>1. Pairs(Upsert(r)) = Pairs(pending \ RowsOf(l, a)) \cup {<<l, a>>}
    BY <1>3 DEF Pairs, Upsert
  <2> QED
    BY <1>1, <2>1
<1> QED
  BY <1>1, <1>2, <1>3

\* A step of the one process at work keeps the invariant, and does what the
\* promise allows or nothing that shows.
LEMMA SerialStep ==
    ASSUME SerialInv, count.overlaps = 0, NEW p \in Procs, Step(p)
    PROVE  SerialInv' /\ (Promise!OneAtATime \/ UNCHANGED Promise!vars)
<1> DEFINE l == proc[p].list
           a == proc[p].addr
           read == proc[p].read
<1>1. TypeOK /\ TypeOK'
  BY StepType DEF SerialInv
<1>2. ~Idle(p)
  BY DEF Step, CreateToken, ConsumeToken, RemovePending, AddLoad, AppendLine,
         RemoveLoad, RemoveRead, Truncate, Rewrite, Idle
<1>3. /\ l \in Lists /\ a \in Addresses /\ proc[p].who \subseteq Addresses
      /\ read \in [Addresses -> Nat]
  BY <1>1, <1>2, BusyProcess
<1>4. Alone(p) /\ InPlace(p) /\ SingleLines
  BY <1>2 DEF SerialInv
<1>5. count.crashes = 0 => promised = Members
  BY DEF SerialInv
\* What each way of moving the process leaves.
<1>6. ASSUME Finish(p)
      PROVE  Idle(p)' /\ Alone(p)' /\ \A q \in Procs : Idle(q)'
  <2>1. proc'[p].pc = "idle" /\ \A q \in Procs : q # p => proc'[q] = proc[q]
    BY <1>1, <1>6, FinishProc
  <2> QED
    BY <2>1, <1>4 DEF Idle, Alone
<1>7. ASSUME NEW step \in Steps, Goto(p, step)
      PROVE  /\ proc'[p].pc = step /\ proc'[p].list = l /\ proc'[p].addr = a
             /\ proc'[p].who = proc[p].who /\ proc'[p].read = read
             /\ Alone(p)' /\ ~Idle(p)'
  <2>1. /\ proc'[p].pc = step /\ proc'[p].list = l /\ proc'[p].addr = a
        /\ proc'[p].who = proc[p].who /\ proc'[p].read = read
        /\ \A q \in Procs : q # p => proc'[q] = proc[q]
    BY <1>1, <1>2, <1>7, GotoProc
  <2>2. step # "idle"
    BY DEF Steps
  <2> QED
    BY <2>1, <2>2, <1>4 DEF Idle, Alone
\* What is then left to show.
<1>8. ASSUME Alone(p)', ~Idle(p)' => InPlace(p)', SingleLines',
             count'.crashes = count.crashes, promised = Members => promised' = Members'
      PROVE  SerialInv'
  <2>1. \A q \in Procs : ~Idle(q)' => q = p
    BY <1>8 DEF Alone
  <2>2. \A q \in Procs : ~Idle(q)' => Alone(q)' /\ InPlace(q)'
    BY <1>8, <2>1
  <2>3. count'.crashes = 0 => promised' = Members'
    BY <1>5, <1>8
  <2> QED
    BY <1>1, <1>8, <2>2, <2>3 DEF SerialInv
<1>9. ASSUME UNCHANGED <<Members, Invited, count>>
      PROVE  UNCHANGED Promise!vars
  BY <1>9 DEF Promise!vars
<1>10. ASSUME UNCHANGED count,
              Promise!Join(l, a) \/ Promise!Grant(l, a) \/ Promise!Leave(l, a)
                \/ Promise!Remove(l, a)
       PROVE  Promise!OneAtATime
  BY <1>3, <1>10 DEF Promise!OneAtATime
<1>11. /\ Members \in [Lists -> SUBSET Addresses]
       /\ \A k \in Lists :
            /\ Removing(p, k) => Members[k] = {b \in Addresses : read[b] > 0}
            /\ ~Removing(p, k) => Members[k] = Subscribers(k)
       /\ Joining(p) => Invited = Pairs(pending) \cup {<<l, a>>}
       /\ ~Joining(p) => Invited = Pairs(pending)
  BY <1>4, MembersNow
<1>12. ASSUME Alone(p)'
       PROVE  /\ Members' \in [Lists -> SUBSET Addresses]
              /\ \A k \in Lists :
                   /\ Removing(p, k)' => Members'[k] = {b \in Addresses : proc'[p].read[b] > 0}
                   /\ ~Removing(p, k)' => Members'[k] = Subscribers(k)'
              /\ Joining(p)' => Invited' = Pairs(pending') \cup {<<proc'[p].list, proc'[p].addr>>}
              /\ ~Joining(p)' => Invited' = Pairs(pending')
  BY <1>12, MembersNext
\* As long as it neither removes nor changes a file, the members are the same.
<1>13. ASSUME Alone(p)', UNCHANGED file, \A k \in Lists : ~Removing(p, k) /\ ~Removing(p, k)'
       PROVE  Members' = Members
  <2>1. \A k \in Lists : Members'[k] = Members[k]
    BY <1>11, <1>12, <1>13 DEF Subscribers
  <2> QED
    BY <2>1, <1>11, <1>12, <1>13
\* Nor are those of the lists it is not at work on any others.
<1>elsewhere. ASSUME Alone(p)', NEW k \in Lists, k # l, ~Idle(p)' => proc'[p].list = l,
              file'[k] = file[k]
       PROVE  Members'[k] = Members[k]
  <2>1. ~Removing(p, k) /\ ~Removing(p, k)'
    BY <1>elsewhere DEF Removing
  <2>2. Members[k] = {b \in Addresses : file[k][b] > 0}
    BY <2>1, <1>11 DEF Subscribers
  <2>3. Members'[k] = {b \in Addresses : file'[k][b] > 0}
    BY <2>1, <1>12, <1>elsewhere DEF Subscribers
  <2> QED
    BY <2>2, <2>3, <1>elsewhere
<1>14. ASSUME UNCHANGED file
       PROVE  SingleLines'
  BY <1>4, <1>14 DEF SingleLines
<1>15. CASE CreateToken(p)
  <2>1. /\ proc[p].pc = "create" /\ Finish(p) /\ Counted("tokens")
        /\ UNCHANGED <<file, promised>>
    BY <1>15 DEF CreateToken
  <2>2. /\ count'.overlaps = count.overlaps /\ count'.refused = count.refused
        /\ count'.crashes = count.crashes
    BY <1>1, <2>1, CountedType DEF Counters
  <2>3. Idle(p)' /\ Alone(p)'
    BY <2>1, <1>6
  <2>4. Members' = Members
    BY <2>1, <2>3, <1>13 DEF Removing
  <2>5. PICK t \in Tokens :
          LET r == [list |-> proc[p].list, addr |-> proc[p].addr, token |-> t,
                    at |-> now, id |-> count.tokens]
          IN  pending' = Upsert(r) /\ issued' = issued \cup {r}
    BY <1>15 DEF CreateToken
  <2>6. [list |-> proc[p].list, addr |-> proc[p].addr, token |-> t,
         at |-> now, id |-> count.tokens] \in Row
    BY <1>1, <1>3 DEF TypeOK, Row, Counters
  <2>7. Pairs(pending') = Pairs(pending) \cup {<<l, a>>}
    BY <2>5, <2>6, <1>1, <1>3, PairsRows
  <2>8. Invited' = Invited \cup {<<l, a>>}
    BY <2>1, <2>3, <2>7, <1>11, <1>12 DEF Joining
  <2>9. a \notin Members[l]
    <3>1. file[l][a] = 0
      BY <2>1, <1>2, <1>4 DEF InPlace
    <3>2. Members[l] = Subscribers(l)
      BY <2>1, <1>3, <1>11 DEF Removing
    <3> QED
      BY <3>1, <3>2 DEF Subscribers
  <2>10. Promise!Invite(l, a)
    BY <2>2, <2>4, <2>8, <2>9 DEF Promise!Invite
  <2>11. Promise!OneAtATime
    BY <2>2, <2>10, <1>3 DEF Promise!OneAtATime
  <2>12. SerialInv'
    BY <2>1, <2>2, <2>3, <2>4, <1>8, <1>14
  <2> QED
    BY <2>11, <2>12
<1>16. CASE ConsumeToken(p)
  <2>1. /\ proc[p].pc = "consume" /\ pending' = pending \ RowsOf(l, a)
        /\ UNCHANGED <<file, promised>>
    BY <1>16 DEF ConsumeToken
  <2>2. Pairs(pending') = Pairs(pending) \ {<<l, a>>} /\ <<l, a>> \in Pairs(pending)
    <3>1. RowsOf(l, a) # {}
      BY <2>1, <1>2, <1>4 DEF InPlace
    <3> QED
      BY <2>1, <3>1, <1>1, <1>3, PairsRows
  <2>3. Invited = Pairs(pending)
    BY <2>1, <1>11 DEF Joining
  <2>4. CASE a \in proc[p].who
    <3>1. Goto(p, "addLoad") /\ UNCHANGED count
      BY <2>4, <1>16 DEF ConsumeToken
    <3>2. /\ proc'[p].pc = "addLoad" /\ proc'[p].list = l /\ proc'[p].addr = a
          /\ proc'[p].who = proc[p].who /\ proc'[p].read = read
          /\ Alone(p)' /\ ~Idle(p)'
      BY <3>1, <1>7 DEF Steps
    <3>3. Members' = Members
      BY <2>1, <3>2, <1>13 DEF Removing
    <3>4. Joining(p)'
      BY <3>2, <2>4 DEF Joining
    <3>5. Invited' = Invited
      BY <3>2, <3>4, <2>2, <2>3, <1>12
    <3>6. RowsOf(l, a)' = {}
      BY <2>1, <3>2 DEF RowsOf
    <3>7. InPlace(p)'
      BY <3>2, <3>6, <1>2, <1>4 DEF InPlace
    <3>8. SerialInv'
      BY <2>1, <3>1, <3>2, <3>3, <3>7, <1>8, <1>14
    <3> QED
      BY <3>1, <3>3, <3>5, <3>8, <1>9
  <2>5. CASE a \notin proc[p].who
    <3>1. Finish(p) /\ Counted("refused")
      BY <2>5, <1>16 DEF ConsumeToken
    <3>2. /\ count'.overlaps = count.overlaps /\ count'.refused = count.refused + 1
          /\ count'.crashes = count.crashes
      BY <1>1, <3>1, CountedType DEF Counters
    <3>3. Idle(p)' /\ Alone(p)'
      BY <3>1, <1>6
    <3>4. Members' = Members
      BY <2>1, <3>3, <1>13 DEF Removing
    <3>5. Invited' = Invited \ {<<l, a>>} /\ <<l, a>> \in Invited
      BY <3>3, <2>2, <2>3, <1>12 DEF Joining
    <3>6. Promise!Spend(l, a)
      BY <3>2, <3>4, <3>5 DEF Promise!Spend
    <3>7. Promise!OneAtATime
      BY <3>2, <3>6, <1>3 DEF Promise!OneAtATime
    <3>8. SerialInv'
      BY <2>1, <3>2, <3>3, <3>4, <1>8, <1>14
    <3> QED
      BY <3>7, <3>8
  <2> QED
    BY <2>4, <2>5
<1>17. CASE RemovePending(p)
  <2>1. /\ proc[p].pc = "unpend" /\ Finish(p) /\ pending' = pending \ RowsOf(l, a)
        /\ promised' = [promised EXCEPT ![l] = @ \ {a}] /\ UNCHANGED <<file, count>>
    BY <1>17 DEF RemovePending
  <2>2. Idle(p)' /\ Alone(p)'
    BY <2>1, <1>6
  <2>3. Pairs(pending') = Pairs(pending) \ {<<l, a>>}
    BY <2>1, <1>1, <1>3, PairsRows
  <2>4. Invited' = Invited \ {<<l, a>>}
    BY <2>1, <2>2, <2>3, <1>11, <1>12 DEF Joining
  <2>5. Members' = [Members EXCEPT ![l] = @ \ {a}]
    <3>1. \A k \in Lists : ~Removing(p, k)'
      BY <2>2 DEF Removing
    <3>2. \A k \in Lists \ {l} : Members'[k] = Members[k]
      BY <2>1, <2>2, <3>1, <1>11, <1>12 DEF Removing, Subscribers
    <3>3. Members'[l] = {b \in Addresses : file[l][b] > 0}
      BY <2>1, <2>2, <3>1, <1>3, <1>12 DEF Subscribers
    <3>4. CASE read = NoLines /\ file[l][a] = 0
      <4>1. Members[l] = {b \in Addresses : file[l][b] > 0}
        BY <3>4, <1>3, <1>11 DEF Removing, Subscribers, NoLines
      <4>2. Members'[l] = Members[l] \ {a}
        BY <3>3, <3>4, <4>1
      <4> QED
        BY <3>2, <4>2, <1>11, <2>2, <1>12
    <3>5. CASE read[a] > 0 /\ file[l] = [read EXCEPT ![a] = 0]
      <4>1. Members[l] = {b \in Addresses : read[b] > 0}
        BY <2>1, <3>5, <1>2, <1>3, <1>11 DEF Removing
      <4>2. \A b \in Addresses : file[l][b] = IF b = a THEN 0 ELSE read[b]
        BY <3>5, <1>3
      <4>3. Members'[l] = Members[l] \ {a}
        BY <3>3, <4>1, <4>2, <1>3
      <4> QED
        BY <3>2, <4>3, <1>11, <2>2, <1>12
    <3> QED
      BY <3>4, <3>5, <2>1, <1>2, <1>4 DEF InPlace
  <2>6. Promise!Remove(l, a)
    BY <2>1, <2>4, <2>5 DEF Promise!Remove, Promise!Goes
  <2>7. promised = Members => promised' = Members'
    BY <2>1, <2>5
  <2>8. SerialInv'
    BY <2>1, <2>2, <2>7, <1>8, <1>14
  <2> QED
    BY <2>1, <2>6, <2>8, <1>10
<1>18. CASE AddLoad(p)
  <2>1. proc[p].pc = "addLoad" /\ UNCHANGED <<file, pending, promised, count>>
    BY <1>18 DEF AddLoad
  <2>2. CASE a \in Subscribers(l)
    <3>1. Finish(p)
      BY <2>2, <1>18 DEF AddLoad
    <3>2. Idle(p)' /\ Alone(p)'
      BY <3>1, <1>6
    <3>3. Members' = Members
      BY <2>1, <3>2, <1>13 DEF Removing
    <3>4. Invited' = Pairs(pending)
      BY <2>1, <3>2, <1>12 DEF Joining
    <3>5. SerialInv'
      BY <2>1, <3>2, <3>3, <1>8, <1>14
    <3>6. CASE Joining(p)
      <4>1. <<l, a>> \notin Pairs(pending)
        BY <3>6, <1>1, <1>2, <1>3, <1>4, PairsRows DEF InPlace
      <4>2. <<l, a>> \in Invited /\ Invited' = Invited \ {<<l, a>>}
        BY <3>4, <3>6, <4>1, <1>11
      <4>3. a \in Members[l]
        BY <2>1, <2>2, <1>3, <1>11 DEF Removing
      <4>4. Members' = [Members EXCEPT ![l] = @ \cup {a}]
        BY <3>3, <4>3, <1>11
      <4>5. Promise!Join(l, a)
        BY <2>1, <4>2, <4>4 DEF Promise!Join, Promise!Enters
      <4> QED
        BY <2>1, <3>5, <4>5, <1>10
    <3>7. CASE ~Joining(p)
      <4>1. Invited' = Invited
        BY <3>4, <3>7, <1>11
      <4> QED
        BY <2>1, <3>3, <3>5, <4>1, <1>9
    <3> QED
      BY <3>6, <3>7
  <2>3. CASE a \notin Subscribers(l)
    <3>1. Goto(p, "append")
      BY <2>3, <1>18 DEF AddLoad
    <3>2. /\ proc'[p].pc = "append" /\ proc'[p].list = l /\ proc'[p].addr = a
          /\ proc'[p].who = proc[p].who /\ proc'[p].read = read
          /\ Alone(p)' /\ ~Idle(p)'
      BY <3>1, <1>7 DEF Steps
    <3>3. Members' = Members
      BY <2>1, <3>2, <1>13 DEF Removing
    <3>4. Joining(p)' <=> Joining(p)
      BY <2>1, <3>2, <1>2 DEF Joining
    <3>5. Invited' = Invited
      BY <2>1, <3>2, <3>4, <1>11, <1>12
    <3>6. file'[l][a] = 0
      BY <2>1, <2>3, <1>1, <1>3 DEF Subscribers, TypeOK
    <3>7. RowsOf(l, a)' = RowsOf(l, a)
      BY <2>1, <3>2 DEF RowsOf
    <3>8. Joining(p)' => RowsOf(l, a)' = {}
      BY <3>4, <3>7, <1>2, <1>4 DEF InPlace
    <3>9. \A b \in Addresses : read[b] <= 1
      BY <1>2, <1>4 DEF InPlace
    <3>10. InPlace(p)'
      BY <3>2, <3>6, <3>8, <3>9 DEF InPlace
    <3>11. SerialInv'
      BY <2>1, <3>2, <3>3, <3>10, <1>8, <1>14
    <3> QED
      BY <2>1, <3>3, <3>5, <3>11, <1>9
  <2> QED
    BY <2>2, <2>3
<1>19. CASE AppendLine(p)
  <2>1. /\ proc[p].pc = "append" /\ Finish(p)
        /\ file' = [file EXCEPT ![l][a] = @ + 1]
        /\ promised' = [promised EXCEPT ![l] = @ \cup {a}]
        /\ UNCHANGED <<pending, count>>
    BY <1>19 DEF AppendLine
  <2>2. Idle(p)' /\ Alone(p)'
    BY <2>1, <1>6
  <2>3. file[l][a] = 0
    BY <2>1, <1>2, <1>4 DEF InPlace
  <2>4. \A k \in Lists, b \in Addresses :
           file'[k][b] = IF k = l /\ b = a THEN 1 ELSE file[k][b]
    BY <2>1, <2>3, <1>1, <1>3 DEF TypeOK
  <2>5. SingleLines'
    BY <2>4, <1>4 DEF SingleLines
  <2>6. /\ \A k \in Lists : Members[k] = {b \in Addresses : file[k][b] > 0}
        /\ \A k \in Lists : Members'[k] = {b \in Addresses : file'[k][b] > 0}
    BY <2>1, <2>2, <1>11, <1>12 DEF Removing, Subscribers
  <2>7. \A k \in Lists : Members'[k] = IF k = l THEN Members[k] \cup {a} ELSE Members[k]
    <3> SUFFICES ASSUME NEW k \in Lists
                 PROVE  Members'[k] = IF k = l THEN Members[k] \cup {a} ELSE Members[k]
      OBVIOUS
    <3>1. \A b \in Addresses : file'[k][b] > 0 <=> file[k][b] > 0 \/ (k = l /\ b = a)
      BY <2>4, <2>3
    <3>2. /\ Members[k] = {b \in Addresses : file[k][b] > 0}
          /\ Members'[k] = {b \in Addresses : file'[k][b] > 0}
      BY <2>6
    <3> QED
      BY <3>1, <3>2, <1>3
  <2>8. Members' = [Members EXCEPT ![l] = @ \cup {a}]
    BY <2>2, <2>7, <1>11, <1>12
  <2>9. a \notin Members[l]
    BY <2>3, <2>6, <1>3
  <2>10. Invited' = Pairs(pending)
    BY <2>1, <2>2, <1>12 DEF Joining
  <2>11. ASSUME Joining(p)
         PROVE  Promise!Join(l, a)
    <3>1. <<l, a>> \notin Pairs(pending)
      BY <2>11, <1>1, <1>2, <1>3, <1>4, PairsRows DEF InPlace
    <3>2. <<l, a>> \in Invited /\ Invited' = Invited \ {<<l, a>>}
      BY <2>10, <2>11, <3>1, <1>11
    <3> QED
      BY <2>1, <2>8, <3>2 DEF Promise!Join, Promise!Enters
  <2>12. ASSUME ~Joining(p)
         PROVE  Promise!Grant(l, a)
    <3>1. Invited' = Invited
      BY <2>10, <2>12, <1>11
    <3> QED
      BY <2>1, <2>8, <2>9, <3>1 DEF Promise!Grant, Promise!Enters
  <2>13. promised = Members => promised' = Members'
    BY <2>1, <2>8
  <2>14. SerialInv'
    BY <2>1, <2>2, <2>5, <2>13, <1>8
  <2> QED
    BY <2>1, <2>11, <2>12, <2>14, <1>10
<1>20. CASE RemoveLoad(p)
  <2>1. proc[p].pc = "removeLoad" /\ UNCHANGED <<file, pending, count>>
    BY <1>20 DEF RemoveLoad
  <2>2. read = NoLines /\ ~Joining(p) /\ \A b \in Addresses : read[b] <= 1
    BY <2>1, <1>2, <1>4 DEF InPlace, Joining
  <2>3. ASSUME NEW step \in {"removeRead", "unpend"}, Goto(p, step), UNCHANGED promised,
               step = "removeRead" => file[l][a] > 0,
               step = "unpend" => file[l][a] = 0
        PROVE  SerialInv' /\ UNCHANGED Promise!vars
    <3>1. /\ proc'[p].pc = step /\ proc'[p].list = l /\ proc'[p].addr = a
          /\ proc'[p].read = read /\ Alone(p)' /\ ~Idle(p)'
      BY <2>3, <1>7 DEF Steps
    <3>2. \A k \in Lists : ~Removing(p, k) /\ ~Removing(p, k)'
      BY <2>1, <2>2, <3>1, <1>3 DEF Removing, NoLines
    <3>3. Members' = Members
      BY <2>1, <3>1, <3>2, <1>13
    <3>4. Invited' = Invited
      BY <2>1, <2>2, <3>1, <1>11, <1>12 DEF Joining
    <3>5. InPlace(p)'
      BY <2>1, <2>2, <2>3, <3>1 DEF InPlace, Joining, NoLines
    <3> QED
      BY <2>1, <2>3, <3>1, <3>3, <3>4, <3>5, <1>8, <1>9, <1>14
  <2>4. CASE a \in Subscribers(l)
    BY <2>3, <2>4, <1>20 DEF RemoveLoad, Subscribers
  <2>5. CASE a \notin Subscribers(l) /\ p # Server
    <3>1. file[l][a] = 0
      BY <2>5, <1>1, <1>3 DEF Subscribers, TypeOK
    <3> QED
      BY <2>3, <2>5, <3>1, <1>20 DEF RemoveLoad, AfterRemove
  <2>6. CASE a \notin Subscribers(l) /\ p = Server
    <3>1. Finish(p) /\ promised' = [promised EXCEPT ![l] = @ \ {a}]
      BY <2>6, <1>20 DEF RemoveLoad, AfterRemove
    <3>2. Idle(p)' /\ Alone(p)'
      BY <3>1, <1>6
    <3>3. Members' = Members
      BY <2>1, <3>2, <1>13 DEF Removing
    <3>4. Invited' = Invited
      BY <2>1, <2>2, <3>2, <1>11, <1>12 DEF Joining
    <3>5. a \notin Members[l]
      BY <2>1, <2>6, <1>3, <1>11 DEF Removing
    <3>6. promised = Members => promised' = Members'
      <4>1. ASSUME promised = Members
            PROVE  promised' = Members
        BY <4>1, <3>1, <3>5, <1>3, <1>11
      <4> QED
        BY <4>1, <3>3
    <3>7. SerialInv'
      BY <2>1, <3>2, <3>6, <1>8, <1>14
    <3> QED
      BY <2>1, <3>3, <3>4, <3>7, <1>9
  <2> QED
    BY <2>4, <2>5, <2>6
<1>21. CASE RemoveRead(p)
  <2>1. proc[p].pc = "removeRead" /\ UNCHANGED <<file, pending, promised, count>>
    BY <1>21 DEF RemoveRead
  <2>2. /\ proc'[p].pc = "truncate" /\ proc'[p].list = l /\ proc'[p].addr = a
        /\ proc'[p].read = file[l] /\ \A q \in Procs : q # p => proc'[q] = proc[q]
    BY <1>1, <1>2, <1>21, BusyProcess DEF RemoveRead, TypeOK, Busy
  <2>3. Alone(p)' /\ ~Idle(p)'
    BY <2>2, <1>4 DEF Alone, Idle
  <2>4. Members' = Members
    BY <2>1, <2>2, <2>3, <1>13 DEF Removing
  <2>5. Invited' = Invited
    BY <2>1, <2>2, <2>3, <1>11, <1>12 DEF Joining
  <2>6. file[l][a] > 0
    BY <2>1, <1>2, <1>4 DEF InPlace
  <2>7. \A b \in Addresses : proc'[p].read[b] <= 1
    BY <2>2, <1>3, <1>4 DEF SingleLines
  <2>8. InPlace(p)'
    BY <2>1, <2>2, <2>6, <2>7 DEF InPlace, Joining
  <2>9. SerialInv'
    BY <2>1, <2>3, <2>4, <2>8, <1>8, <1>14
  <2> QED
    BY <2>1, <2>4, <2>5, <2>9, <1>9
<1>22. CASE Truncate(p)
  <2>1. /\ proc[p].pc = "truncate" /\ Goto(p, "rewrite")
        /\ file' = [file EXCEPT ![l] = NoLines] /\ UNCHANGED <<pending, promised, count>>
    BY <1>22 DEF Truncate
  <2>2. /\ proc'[p].pc = "rewrite" /\ proc'[p].list = l /\ proc'[p].addr = a
        /\ proc'[p].read = read /\ Alone(p)' /\ ~Idle(p)'
    BY <2>1, <1>7 DEF Steps
  <2>3. read = file[l] /\ read[a] > 0 /\ \A b \in Addresses : read[b] <= 1
    BY <2>1, <1>2, <1>4 DEF InPlace
  <2>4. file'[l] = NoLines /\ \A k \in Lists \ {l} : file'[k] = file[k]
    BY <2>1, <1>1, <1>3 DEF TypeOK
  <2>5. SingleLines'
    BY <2>4, <1>4 DEF SingleLines, NoLines
  <2>6. Members'[l] = Members[l]
    <3>1. ~Removing(p, l) /\ Removing(p, l)'
      BY <2>1, <2>2, <2>3 DEF Removing
    <3>2. Members[l] = {b \in Addresses : file[l][b] > 0}
      BY <3>1, <1>3, <1>11 DEF Subscribers
    <3>3. Members'[l] = {b \in Addresses : read[b] > 0}
      BY <3>1, <2>2, <1>3, <1>12
    <3> QED
      BY <3>2, <3>3, <2>3
  <2>7. \A k \in Lists \ {l} : Members'[k] = Members[k]
    BY <2>2, <2>4, <1>elsewhere
  <2>8. Members' = Members
    BY <2>2, <2>6, <2>7, <1>11, <1>12
  <2>9. Invited' = Invited
    BY <2>1, <2>2, <1>11, <1>12 DEF Joining
  <2>10. InPlace(p)'
    BY <2>2, <2>3, <2>4 DEF InPlace, Joining
  <2>11. SerialInv'
    BY <2>1, <2>2, <2>5, <2>8, <2>10, <1>8
  <2> QED
    BY <2>1, <2>8, <2>9, <2>11, <1>9
<1>23. CASE Rewrite(p)
  <2>1. /\ proc[p].pc = "rewrite" /\ AfterRemove(p)
        /\ file' = [file EXCEPT ![l] = [read EXCEPT ![a] = 0]]
        /\ UNCHANGED <<pending, count>>
    BY <1>23 DEF Rewrite
  <2>2. read[a] > 0 /\ \A b \in Addresses : read[b] <= 1
    BY <2>1, <1>2, <1>4 DEF InPlace
  <2>3. /\ file'[l] = [read EXCEPT ![a] = 0]
        /\ \A k \in Lists \ {l} : file'[k] = file[k]
    BY <2>1, <1>1, <1>3 DEF TypeOK
  <2>4. \A b \in Addresses : file'[l][b] = IF b = a THEN 0 ELSE read[b]
    BY <2>3, <1>3
  <2>5. SingleLines'
    <3>1. ASSUME NEW k \in Lists, NEW b \in Addresses
          PROVE  file'[k][b] <= 1
      <4>1. CASE k = l
        BY <4>1, <2>2, <2>4
      <4>2. CASE k # l
        BY <4>2, <2>3, <1>4 DEF SingleLines
      <4> QED
        BY <4>1, <4>2
    <3> QED
      BY <3>1 DEF SingleLines
  <2>6. Members[l] = {b \in Addresses : read[b] > 0}
    BY <2>1, <2>2, <1>2, <1>3, <1>11 DEF Removing
  <2>7. CASE p # Server
    <3>1. Goto(p, "unpend") /\ UNCHANGED promised
      BY <2>1, <2>7 DEF AfterRemove
    <3>2. /\ proc'[p].pc = "unpend" /\ proc'[p].list = l /\ proc'[p].addr = a
          /\ proc'[p].read = read /\ Alone(p)' /\ ~Idle(p)'
      BY <3>1, <1>7 DEF Steps
    <3>3. Members'[l] = Members[l]
      BY <2>2, <2>6, <3>2, <1>3, <1>12 DEF Removing
    <3>4. \A k \in Lists \ {l} : Members'[k] = Members[k]
      BY <2>3, <3>2, <1>elsewhere
    <3>5. Members' = Members
      BY <3>2, <3>3, <3>4, <1>11, <1>12
    <3>6. Invited' = Invited
      BY <2>1, <3>2, <1>11, <1>12 DEF Joining
    <3>7. InPlace(p)'
      BY <2>2, <2>3, <3>2 DEF InPlace, Joining
    <3>8. SerialInv'
      BY <2>1, <2>5, <3>1, <3>2, <3>5, <3>7, <1>8
    <3> QED
      BY <2>1, <3>5, <3>6, <3>8, <1>9
  <2>8. CASE p = Server
    <3>1. Finish(p) /\ promised' = [promised EXCEPT ![l] = @ \ {a}]
      BY <2>1, <2>8 DEF AfterRemove
    <3>2. Idle(p)' /\ Alone(p)'
      BY <3>1, <1>6
    <3>3. Members'[l] = {b \in Addresses : file'[l][b] > 0}
      BY <3>2, <1>3, <1>12 DEF Removing, Subscribers
    <3>4. Members'[l] = Members[l] \ {a}
      BY <2>4, <2>6, <3>3, <1>3
    <3>5. \A k \in Lists \ {l} : Members'[k] = Members[k]
      BY <2>3, <3>2, <1>elsewhere
    <3>6. Members' = [Members EXCEPT ![l] = @ \ {a}]
      BY <3>2, <3>4, <3>5, <1>11, <1>12
    <3>7. Invited' = Invited
      BY <2>1, <3>2, <1>11, <1>12 DEF Joining
    <3>8. a \in Members[l]
      BY <2>2, <2>6, <1>3
    <3>9. Promise!Leave(l, a)
      BY <2>1, <3>6, <3>7, <3>8 DEF Promise!Leave, Promise!Goes
    <3>10. promised = Members => promised' = Members'
      BY <3>1, <3>6
    <3>11. SerialInv'
      BY <2>1, <2>5, <3>2, <3>10, <1>8
    <3> QED
      BY <2>1, <3>9, <3>11, <1>10
  <2> QED
    BY <2>7, <2>8
<1> QED
  BY <1>15, <1>16, <1>17, <1>18, <1>19, <1>20, <1>21, <1>22, <1>23 DEF Step

\* Operations that begin, crashes and the clock keep the invariant, and only
\* crashes show.
LEMMA SerialBegin ==
    ASSUME SerialInv, [Next]_vars, ~\E p \in Procs : Step(p), count'.overlaps = 0
    PROVE  SerialInv' /\ (Promise!OneAtATime \/ UNCHANGED Promise!vars)
<1>1. TypeOK /\ TypeOK'
  BY BeginType DEF SerialInv
<1>2. Server \in Procs /\ Admins \subseteq Procs
  BY DEF Procs
\* A process that begins finds all others idle, and changes no store.
<1>3. ASSUME NEW p \in Procs, NEW what \in {"requests", "commands"}, Starts(p, what)
      PROVE  /\ count.overlaps = 0 /\ \A q \in Procs : Idle(q)
             /\ count'.refused = count.refused /\ count'.crashes = count.crashes
  BY <1>1, <1>3, StartsType
<1>4. ASSUME NEW p \in Procs, NEW what \in {"requests", "commands"}, Starts(p, what),
             UNCHANGED <<file, pending, promised>>, Alone(p)',
             \A l \in Lists : ~Removing(p, l)', ~Joining(p)',
             ~Idle(p)' => InPlace(p)'
      PROVE  SerialInv' /\ UNCHANGED Promise!vars
  <2>1. Alone(p) /\ ~Joining(p) /\ \A l \in Lists : ~Removing(p, l)
    BY <1>3, <1>4 DEF Alone, Joining, Removing
  <2>2. \A l \in Lists : Members[l] = Subscribers(l) /\ Members'[l] = Subscribers(l)'
    BY <1>4, <2>1, MembersNow, MembersNext
  <2>3. Members' = Members
    <3>1. \A l \in Lists : Members'[l] = Members[l]
      BY <1>4, <2>2 DEF Subscribers
    <3>2. Members \in [Lists -> SUBSET Addresses] /\ Members' \in [Lists -> SUBSET Addresses]
      BY <1>4, <2>1, MembersNow, MembersNext
    <3> QED
      BY <3>1, <3>2
  <2>4. Invited' = Invited
    BY <1>4, <2>1, MembersNow, MembersNext
  <2>5. \A q \in Procs : ~Idle(q)' => Alone(q)' /\ InPlace(q)'
    BY <1>4 DEF Alone
  <2>6. SingleLines' /\ (count'.crashes = 0 => promised' = Members')
    BY <1>3, <1>4, <2>3 DEF SerialInv, SingleLines
  <2> QED
    BY <1>1, <1>3, <1>4, <2>3, <2>4, <2>5, <2>6 DEF SerialInv, Promise!vars
<1>5. ASSUME NEW p \in Procs, NEW what \in {"requests", "commands"}, Starts(p, what),
             UNCHANGED <<file, pending, promised, proc>>
      PROVE  SerialInv' /\ UNCHANGED Promise!vars
  <2>1. \A q \in Procs : Idle(q)'
    BY <1>3, <1>5 DEF Idle
  <2>2. Alone(p)' /\ ~Joining(p)' /\ \A l \in Lists : ~Removing(p, l)'
    BY <2>1 DEF Alone, Joining, Removing
  <2> QED
    BY <1>4, <1>5, <2>1, <2>2
<1>6. ASSUME NEW p \in Procs, NEW what \in {"requests", "commands"}, Starts(p, what),
             UNCHANGED <<file, pending, promised>>,
             NEW step \in {"create", "consume", "addLoad", "removeLoad"}, NEW l \in Lists,
             NEW a \in Addresses, NEW who \in SUBSET Addresses,
             Begin(p, step, l, a, who),
             step = "create" => file[l][a] = 0,
             step = "consume" => RowsOf(l, a) # {},
             step = "addLoad" => who = {}
      PROVE  SerialInv' /\ UNCHANGED Promise!vars
  <2>1. /\ proc'[p].pc = step /\ proc'[p].list = l /\ proc'[p].addr = a
        /\ proc'[p].who = who /\ proc'[p].read = NoLines
        /\ \A q \in Procs : q # p => proc'[q] = proc[q]
    BY <1>1, <1>6, BeginProc DEF Steps
  <2>2. Alone(p)'
    BY <1>3, <1>6, <2>1 DEF Alone, Idle
  <2>3. ~Joining(p)' /\ \A k \in Lists : ~Removing(p, k)'
    BY <1>6, <2>1 DEF Joining, Removing
  <2>4. RowsOf(l, a)' = RowsOf(l, a) /\ file' = file
    BY <1>6 DEF RowsOf
  <2>5. InPlace(p)'
    BY <1>6, <2>1, <2>3, <2>4 DEF InPlace, NoLines
  <2> QED
    BY <1>4, <1>6, <2>2, <2>3, <2>5
<1>7. ASSUME NEW l \in Lists, NEW a \in Addresses, HandleSubscribe(l, a)
      PROVE  SerialInv' /\ UNCHANGED Promise!vars
  <2>1. Starts(Server, "requests") /\ UNCHANGED <<file, pending, promised>>
    BY <1>7 DEF HandleSubscribe, Request
  <2>2. CASE a \in Subscribers(l)
    BY <1>2, <1>5, <1>7, <2>1, <2>2 DEF HandleSubscribe
  <2>3. CASE a \notin Subscribers(l)
    <3>1. Begin(Server, "create", l, a, {a}) /\ file[l][a] = 0
      BY <1>1, <1>7, <2>3 DEF HandleSubscribe, Subscribers, TypeOK
    <3> QED
      BY <1>2, <1>6, <2>1, <3>1
  <2> QED
    BY <2>2, <2>3
<1>8. ASSUME NEW l \in Lists, NEW a \in Addresses, HandleUnsubscribe(l, a)
      PROVE  SerialInv' /\ UNCHANGED Promise!vars
  <2>1. Starts(Server, "requests") /\ UNCHANGED <<file, pending, promised>>
    BY <1>8 DEF HandleUnsubscribe, Request
  <2>2. UNCHANGED proc \/ Begin(Server, "removeLoad", l, a, {a})
    BY <1>8 DEF HandleUnsubscribe
  <2> QED
    BY <1>2, <1>5, <1>6, <2>1, <2>2
<1>9. ASSUME NEW l \in Lists, NEW who \in SUBSET Addresses, NEW t \in Tokens,
             HandleConfirm(l, who, t)
      PROVE  SerialInv' /\ UNCHANGED Promise!vars
  <2>1. Starts(Server, "requests") /\ UNCHANGED <<file, pending, promised>>
    BY <1>9 DEF HandleConfirm, Request
  <2>2. CASE UNCHANGED proc
    BY <1>2, <1>5, <2>1, <2>2
  <2>3. ASSUME NEW r \in Redeemable(l, t), Begin(Server, "consume", l, r.addr, who)
        PROVE  SerialInv' /\ UNCHANGED Promise!vars
    <3>1. r \in pending /\ r.list = l /\ r.addr \in Addresses
      BY <1>1 DEF Redeemable, TypeOK, Row
    <3>2. RowsOf(l, r.addr) # {}
      BY <3>1 DEF RowsOf
    <3> QED
      BY <1>2, <1>6, <2>1, <2>3, <3>1, <3>2
  <2> QED
    BY <1>9, <2>2, <2>3 DEF HandleConfirm
<1>10. ASSUME NEW l \in Lists, NEW a \in Addresses, NEW p \in Admins,
              ListAdd(p, l, a) \/ ListAddNoVerify(p, l, a) \/ ListRemove(p, l, a)
       PROVE  SerialInv' /\ UNCHANGED Promise!vars
  <2>1. Starts(p, "commands") /\ UNCHANGED <<file, pending, promised>>
    BY <1>10 DEF ListAdd, ListAddNoVerify, ListRemove, Command
  <2>2. \/ UNCHANGED proc
        \/ Begin(p, "create", l, a, {}) /\ a \notin Subscribers(l)
        \/ Begin(p, "addLoad", l, a, {})
        \/ Begin(p, "removeLoad", l, a, {})
    BY <1>10 DEF ListAdd, ListAddNoVerify, ListRemove
  <2>3. a \notin Subscribers(l) => file[l][a] = 0
    BY <1>1 DEF Subscribers, TypeOK
  <2> QED
    BY <1>2, <1>5, <1>6, <2>1, <2>2, <2>3
<1>11. ASSUME NEW p \in Procs, Crash(p)
       PROVE  SerialInv' /\ Promise!OneAtATime
  <2> DEFINE l == proc[p].list
             a == proc[p].addr
             read == proc[p].read
  <2>1. /\ ~Idle(p) /\ Finish(p) /\ Counted("crashes")
        /\ UNCHANGED <<file, pending, promised>>
    BY <1>11 DEF Crash
  <2>2. /\ count'.overlaps = count.overlaps /\ count'.refused = count.refused
        /\ count'.crashes = count.crashes + 1 /\ count.crashes \in Nat
    BY <1>1, <2>1, CountedType DEF Counters, TypeOK
  <2>3. Alone(p) /\ InPlace(p) /\ SingleLines
    BY <2>1, <2>2 DEF SerialInv
  <2>4. proc'[p].pc = "idle" /\ \A q \in Procs : q # p => proc'[q] = proc[q]
    BY <1>1, <2>1, FinishProc
  <2>5. Alone(p)' /\ \A q \in Procs : Idle(q)'
    BY <2>3, <2>4 DEF Alone, Idle
  <2>6. SerialInv'
    BY <1>1, <2>1, <2>2, <2>3, <2>5 DEF SerialInv, SingleLines
  <2>7. l \in Lists /\ a \in Addresses /\ read \in [Addresses -> Nat]
    BY <1>1, <2>1, BusyProcess
  <2>8. /\ Invited' = Pairs(pending) /\ Members' \in [Lists -> SUBSET Addresses]
        /\ \A k \in Lists : Members'[k] = {b \in Addresses : file[k][b] > 0}
    BY <2>1, <2>5, MembersNext DEF Joining, Removing, Idle, Subscribers
  <2>9. /\ Members \in [Lists -> SUBSET Addresses]
        /\ \A k \in Lists : ~Removing(p, k) =>
              Members[k] = {b \in Addresses : file[k][b] > 0}
    BY <2>3, MembersNow DEF Subscribers
  <2>10. Promise!Cut(l, a)
    <3>1. CASE ~Removing(p, l)
      <4>1. \A k \in Lists : ~Removing(p, k)
        BY <3>1 DEF Removing
      <4>2. Members' = Members
        <5>1. \A k \in Lists : Members'[k] = Members[k]
          BY <2>8, <2>9, <4>1
        <5> QED
          BY <2>8, <2>9, <5>1
      <4>3. Invited' = Invited \/ Invited' = Invited \ {<<l, a>>}
        <5>1. CASE Joining(p)
          <6>1. Invited = Pairs(pending) \cup {<<l, a>>}
            BY <2>3, <5>1, MembersNow
          <6>2. <<l, a>> \notin Pairs(pending)
            BY <1>1, <2>1, <2>3, <2>7, <5>1, PairsRows DEF InPlace
          <6> QED
            BY <2>8, <6>1, <6>2
        <5>2. CASE ~Joining(p)
          BY <2>3, <2>8, <5>2, MembersNow
        <5> QED
          BY <5>1, <5>2
      <4> QED
        BY <2>2, <4>2, <4>3 DEF Promise!Cut
    <3>2. CASE Removing(p, l)
      <4>1. /\ Members[l] = {b \in Addresses : read[b] > 0}
            /\ \A k \in Lists \ {l} : Members'[k] = Members[k]
        BY <2>3, <2>7, <2>8, <2>9, <3>2, MembersNow DEF Removing
      <4>2. Invited' = Invited
        BY <2>3, <2>8, <3>2, MembersNow DEF Removing, Joining
      <4>3. proc[p].pc \in {"rewrite", "unpend"} /\ read[a] > 0
        BY <3>2 DEF Removing
      <4>4. CASE proc[p].pc = "rewrite"
        <5>1. file[l] = NoLines
          BY <2>1, <2>3, <4>4 DEF InPlace
        <5>2. Members'[l] = {}
          BY <2>7, <2>8, <5>1 DEF NoLines
        <5>3. Members' = [Members EXCEPT ![l] = {}]
          BY <2>8, <2>9, <4>1, <5>2
        <5> QED
          BY <2>2, <4>2, <5>3 DEF Promise!Cut
      <4>5. CASE proc[p].pc = "unpend"
        <5>1. file[l] = [read EXCEPT ![a] = 0]
          BY <2>1, <2>3, <2>7, <4>3, <4>5 DEF InPlace, NoLines
        <5>2. Members'[l] = Members[l] \ {a}
          BY <2>7, <2>8, <4>1, <5>1
        <5>3. Members' = [Members EXCEPT ![l] = @ \ {a}]
          BY <2>8, <2>9, <4>1, <5>2
        <5> QED
          BY <2>2, <4>2, <5>3 DEF Promise!Cut, Promise!Goes
      <4> QED
        BY <4>3, <4>4, <4>5
    <3> QED
      BY <3>1, <3>2
  <2> QED
    BY <2>2, <2>6, <2>7, <2>10 DEF Promise!OneAtATime
<1>12. CASE UNCHANGED <<file, pending, proc, promised, count>>
  <2>1. Members' = Members
    BY <1>12 DEF Members, Removing, Idle
  <2>2. Invited' = Invited
    BY <1>12 DEF Invited, Joining, Idle
  <2>3. \A p \in Procs : (Idle(p)' <=> Idle(p)) /\ (Alone(p)' <=> Alone(p))
    BY <1>12 DEF Alone, Idle
  <2>4. \A p \in Procs : InPlace(p) => InPlace(p)'
    BY <1>12 DEF InPlace, RowsOf, Joining, Idle
  <2>5. SingleLines => SingleLines'
    BY <1>12 DEF SingleLines
  <2>6. SerialInv'
    BY <1>1, <1>12, <2>1, <2>3, <2>4, <2>5 DEF SerialInv
  <2> QED
    BY <1>12, <2>1, <2>2, <2>6 DEF Promise!vars
<1>13. CASE Tick
  BY <1>12, <1>13 DEF Tick
<1>14. CASE UNCHANGED vars
  BY <1>12, <1>14 DEF vars
<1> QED
  BY <1>7, <1>8, <1>9, <1>10, <1>11, <1>13, <1>14 DEF Next

\* Every step keeps the invariant and is one of the promise's.
LEMMA SerialNext ==
    ASSUME SerialInv, [Next]_vars
    PROVE  SerialInv' /\ [Promise!Next]_(Promise!vars)
<1>1. TypeOK'
  BY StepType, BeginType DEF SerialInv
<1>2. CASE count'.overlaps = 0 /\ \E p \in Procs : Step(p)
  <2>1. PICK p \in Procs : Step(p)
    BY <1>2
  <2>2. count'.overlaps = count.overlaps
    <3>1. UNCHANGED count \/ Counted("tokens") \/ Counted("refused")
      BY <2>1 DEF Step, CreateToken, ConsumeToken, RemovePending, AddLoad, AppendLine,
                  RemoveLoad, RemoveRead, Truncate, Rewrite
    <3> QED
      BY <3>1, CountedType DEF SerialInv, Counters
  <2> QED
    BY <1>2, <2>1, <2>2, SerialStep DEF Promise!Next
<1>3. CASE count'.overlaps = 0 /\ ~\E p \in Procs : Step(p)
  BY <1>3, SerialBegin DEF Promise!Next
<1>4. CASE count'.overlaps # 0
  <2>1. count'.overlaps > 0
    BY <1>1, <1>4 DEF TypeOK, Counters
  <2> QED
    BY <1>1, <1>4, <2>1 DEF SerialInv, Promise!Next, Promise!Overlapped
<1> QED
  BY <1>2, <1>3, <1>4

\* At first nobody is a member or invited.
LEMMA SerialInit == Init => SerialInv /\ Promise!Init
<1> SUFFICES ASSUME Init
             PROVE  SerialInv /\ Promise!Init
  OBVIOUS
<1>1. \A p \in Procs : Idle(p)
  BY DEF Init, Idle, IdleProcess
<1>2. Members = [l \in Lists |-> {}]
  BY <1>1 DEF Init, Members, Removing, NoLines
<1>3. Invited = {}
  BY <1>1 DEF Init, Invited, Joining
<1>4. SingleLines
  BY DEF Init, SingleLines, NoLines
<1> QED
  BY <1>1, <1>2, <1>3, <1>4, InitType DEF Init, SerialInv, Promise!Init

\* However the operations on the two stores follow each other, fail or are cut
\* short, a list is what ListMembership says until two of them overlap.
THEOREM SubscriptionIsMembership == Spec => ImplementsMembership
<1> QED
  BY SerialInit, SerialNext, PTL DEF Spec, ImplementsMembership, Promise!Spec

-----------------------------------------------------------------------------
(* Nobody is on a list without a report of it *)

\* Whoever is in the file, or about to be written back to it, is reported.
Reported ==
    /\ \A l \in Lists : Subscribers(l) \subseteq promised[l]
    /\ \A p \in Procs : proc[p].pc \in {"truncate", "rewrite"} =>
         \A a \in Addresses : proc[p].read[a] > 0 => a \in promised[proc[p].list]

ReportedInv == count.overlaps = 0 => Reported

\* A step that leaves the file alone, and the report on everybody in it.
LEMMA ReportedStays ==
    ASSUME Reported, file' = file,
           \A l \in Lists : promised[l] \cap Subscribers(l) \subseteq promised'[l],
           \A p \in Procs : proc'[p].pc \notin {"truncate", "rewrite"}
    PROVE  Reported'
BY DEF Reported, Subscribers

LEMMA ReportedStep ==
    ASSUME SerialInv, count.overlaps = 0, Reported, NEW p \in Procs, Step(p)
    PROVE  Reported'
<1> DEFINE l == proc[p].list
           a == proc[p].addr
<1>1. TypeOK /\ ~Idle(p)
  BY DEF SerialInv, Step, CreateToken, ConsumeToken, RemovePending, AddLoad, AppendLine,
         RemoveLoad, RemoveRead, Truncate, Rewrite, Idle
<1>2. Alone(p) /\ InPlace(p)
  BY <1>1 DEF SerialInv
<1>3. proc[p] \in Busy /\ l \in Lists /\ a \in Addresses /\ proc[p].read \in [Addresses -> Nat]
  BY <1>1, BusyProcess
<1>4. \A q \in Procs \ {p} : proc[q].pc = "idle"
  BY <1>2 DEF Alone, Idle
<1>5. /\ file \in [Lists -> [Addresses -> Nat]]
      /\ promised \in [Lists -> SUBSET Addresses]
  BY <1>1 DEF TypeOK
<1>6. CASE Finish(p) /\ file' = file /\ promised' = promised
  <2>1. \A q \in Procs : proc'[q].pc = "idle"
    BY <1>1, <1>4, <1>6, FinishProc
  <2> QED
    BY <1>6, <2>1, ReportedStays
<1>7. ASSUME NEW step \in Steps \ {"truncate", "rewrite"}, Goto(p, step),
             file' = file, promised' = promised
      PROVE  Reported'
  <2>1. \A q \in Procs : proc'[q].pc \notin {"truncate", "rewrite"}
    BY <1>1, <1>4, <1>7, GotoProc
  <2> QED
    BY <1>7, <2>1, ReportedStays
<1>8. CASE CreateToken(p) \/ ConsumeToken(p) \/ AddLoad(p)
  BY <1>6, <1>7, <1>8 DEF CreateToken, ConsumeToken, AddLoad, Steps
<1>9. ASSUME file[l][a] = 0, file' = file, Finish(p),
             promised' = [promised EXCEPT ![l] = @ \ {a}]
      PROVE  Reported'
  <2>1. \A q \in Procs : proc'[q].pc = "idle"
    BY <1>1, <1>4, <1>9, FinishProc
  <2>2. a \notin Subscribers(l)
    BY <1>9 DEF Subscribers
  <2>3. \A k \in Lists : promised[k] \cap Subscribers(k) \subseteq promised'[k]
    BY <1>3, <1>5, <1>9, <2>2
  <2> QED
    BY <1>9, <2>1, <2>3, ReportedStays
<1>10. CASE RemovePending(p)
  <2>1. file[l][a] = 0
    BY <1>2, <1>3, <1>5, <1>10 DEF RemovePending, InPlace, Idle, NoLines
  <2> QED
    BY <1>9, <1>10, <2>1 DEF RemovePending
<1>11. CASE RemoveLoad(p)
  <2>1. CASE a \in Subscribers(l)
    BY <1>7, <1>11, <2>1 DEF RemoveLoad, Steps
  <2>2. CASE a \notin Subscribers(l)
    <3>1. file[l][a] = 0
      BY <1>3, <1>5, <2>2 DEF Subscribers
    <3> QED
      BY <1>7, <1>9, <1>11, <2>2, <3>1 DEF RemoveLoad, AfterRemove, Steps
  <2> QED
    BY <2>1, <2>2
<1>12. CASE AppendLine(p)
  <2>1. /\ file' = [file EXCEPT ![l][a] = @ + 1] /\ Finish(p)
        /\ promised' = [promised EXCEPT ![l] = @ \cup {a}]
    BY <1>12 DEF AppendLine
  <2>2. \A q \in Procs : proc'[q].pc = "idle"
    BY <1>1, <1>4, <2>1, FinishProc
  <2>3. /\ \A k \in Lists \ {l} : file'[k] = file[k] /\ promised'[k] = promised[k]
        /\ \A b \in Addresses \ {a} : file'[l][b] = file[l][b]
        /\ promised'[l] = promised[l] \cup {a}
    BY <1>3, <1>5, <2>1
  <2> QED
    BY <2>2, <2>3 DEF Reported, Subscribers
<1>13. CASE RemoveRead(p)
  <2>1. /\ proc' = [proc EXCEPT ![p] = [proc[p] EXCEPT !.pc = "truncate", !.read = file[l]]]
        /\ file' = file /\ promised' = promised
    BY <1>13 DEF RemoveRead
  <2>2. /\ proc'[p].list = l /\ proc'[p].read = file[l]
        /\ \A q \in Procs \ {p} : proc'[q] = proc[q]
    BY <1>1, <1>3, <2>1 DEF TypeOK, Busy
  <2>3. \A b \in Addresses : file[l][b] > 0 => b \in promised[l]
    BY <1>3 DEF Reported, Subscribers
  <2>4. \A b \in Addresses : proc'[p].read[b] > 0 => b \in promised'[proc'[p].list]
    BY <2>1, <2>2, <2>3
  <2>5. \A k \in Lists : Subscribers(k)' \subseteq promised'[k]
    BY <2>1 DEF Reported, Subscribers
  <2> QED
    BY <1>4, <2>2, <2>4, <2>5 DEF Reported
<1>14. CASE Truncate(p)
  <2>1. /\ proc[p].pc = "truncate" /\ Goto(p, "rewrite") /\ promised' = promised
        /\ file' = [file EXCEPT ![l] = NoLines]
    BY <1>14 DEF Truncate
  <2>2. /\ proc'[p].list = l /\ proc'[p].read = proc[p].read
        /\ \A q \in Procs \ {p} : proc'[q] = proc[q]
    BY <1>1, <2>1, GotoProc DEF Steps
  <2>3. \A k \in Lists : Subscribers(k)' \subseteq Subscribers(k)
    BY <1>3, <1>5, <2>1 DEF Subscribers, NoLines
  <2> QED
    BY <1>4, <2>1, <2>2, <2>3 DEF Reported
<1>15. CASE Rewrite(p)
  <2>1. /\ proc[p].pc = "rewrite" /\ AfterRemove(p)
        /\ file' = [file EXCEPT ![l] = [proc[p].read EXCEPT ![a] = 0]]
    BY <1>15 DEF Rewrite
  <2>2. \A q \in Procs : proc'[q].pc \in {"idle", "unpend"}
    BY <1>1, <1>4, <2>1, FinishProc, GotoProc DEF AfterRemove, Steps
  <2>3. /\ \A k \in Lists \ {l} : file'[k] = file[k] /\ promised'[k] = promised[k]
        /\ promised[l] \ {a} \subseteq promised'[l]
    BY <1>3, <1>5, <2>1 DEF AfterRemove
  <2>4. \A b \in Addresses : file'[l][b] > 0 => b # a /\ proc[p].read[b] > 0
    BY <1>3, <1>5, <2>1
  <2>5. \A b \in Addresses : file'[l][b] > 0 => b \in promised'[l]
    BY <2>1, <2>3, <2>4 DEF Reported
  <2>6. \A k \in Lists : Subscribers(k)' \subseteq promised'[k]
    BY <2>3, <2>5 DEF Reported, Subscribers
  <2> QED
    BY <2>2, <2>6 DEF Reported
<1> QED
  BY <1>8, <1>10, <1>11, <1>12, <1>13, <1>14, <1>15 DEF Step

LEMMA ReportedNext == SerialInv /\ ReportedInv /\ [Next]_vars => ReportedInv'
<1> SUFFICES ASSUME SerialInv, ReportedInv, [Next]_vars, count'.overlaps = 0
             PROVE  Reported'
  BY DEF ReportedInv
<1>1. TypeOK
  BY DEF SerialInv
<1>2. ASSUME NEW p \in Procs, Step(p) PROVE Reported'
  <2>1. UNCHANGED count \/ Counted("tokens") \/ Counted("refused")
    BY <1>2 DEF Step, CreateToken, ConsumeToken, RemovePending, AddLoad, AppendLine,
                RemoveLoad, RemoveRead, Truncate, Rewrite
  <2>2. count.overlaps = 0
    BY <1>1, <2>1, CountedType DEF Counters
  <2> QED
    BY <1>2, <2>2, ReportedStep DEF ReportedInv
<1>3. ASSUME NEW p \in Procs, Crash(p) PROVE Reported'
  <2>1. /\ Finish(p) /\ Counted("crashes") /\ file' = file /\ promised' = promised
    BY <1>3 DEF Crash
  <2>2. count.overlaps = 0
    BY <1>1, <2>1, CountedType DEF Counters
  <2>3. proc'[p].pc = "idle" /\ \A q \in Procs \ {p} : proc'[q] = proc[q]
    BY <1>1, <2>1, FinishProc
  <2> QED
    BY <2>1, <2>2, <2>3 DEF ReportedInv, Reported, Subscribers
<1>4. ASSUME NEW p \in Procs, NEW what \in {"requests", "commands"}, Starts(p, what),
             file' = file, promised' = promised,
             \/ proc' = proc
             \/ \E step \in {"create", "consume", "removeLoad", "addLoad"}, l \in Lists,
                   a \in Addresses, who \in SUBSET Addresses : Begin(p, step, l, a, who)
      PROVE  Reported'
  <2>1. count.overlaps = 0 /\ \A q \in Procs : proc[q].pc = "idle"
    BY <1>1, <1>4, StartsType DEF Idle
  <2>2. \A q \in Procs : proc'[q].pc \notin {"truncate", "rewrite"}
    BY <1>1, <1>4, <2>1, BeginProc DEF Steps
  <2> QED
    BY <1>4, <2>1, <2>2, ReportedStays DEF ReportedInv
<1>5. ASSUME NEW l \in Lists, NEW a \in Addresses, HandleSubscribe(l, a) \/ HandleUnsubscribe(l, a)
      PROVE  Reported'
  <2>1. Server \in Procs /\ {a} \in SUBSET Addresses
    BY DEF Procs
  <2>2. /\ Starts(Server, "requests") /\ file' = file /\ promised' = promised
        /\ proc' = proc \/ \E step \in {"create", "removeLoad"} : Begin(Server, step, l, a, {a})
    BY <1>5 DEF HandleSubscribe, HandleUnsubscribe, Request
  <2> QED
    BY <1>4, <2>1, <2>2
<1>6. ASSUME NEW l \in Lists, NEW who \in SUBSET Addresses, NEW t \in Tokens,
             HandleConfirm(l, who, t)
      PROVE  Reported'
  <2>1. /\ Server \in Procs /\ \A r \in Redeemable(l, t) : r.addr \in Addresses
    BY <1>1 DEF Procs, Redeemable, TypeOK, Row
  <2>2. /\ Starts(Server, "requests") /\ file' = file /\ promised' = promised
        /\ proc' = proc \/ \E r \in Redeemable(l, t) : Begin(Server, "consume", l, r.addr, who)
    BY <1>6 DEF HandleConfirm, Request
  <2> QED
    BY <1>4, <2>1, <2>2
<1>7. ASSUME NEW p \in Admins, NEW l \in Lists, NEW a \in Addresses,
             ListAdd(p, l, a) \/ ListAddNoVerify(p, l, a) \/ ListRemove(p, l, a)
      PROVE  Reported'
  <2>1. p \in Procs /\ {} \in SUBSET Addresses
    BY DEF Procs
  <2>2. /\ Starts(p, "commands") /\ file' = file /\ promised' = promised
        /\ \/ proc' = proc
           \/ \E step \in {"create", "addLoad", "removeLoad"} : Begin(p, step, l, a, {})
    BY <1>7 DEF ListAdd, ListAddNoVerify, ListRemove, Command
  <2> QED
    BY <1>4, <2>1, <2>2
<1>8. CASE Tick \/ UNCHANGED vars
  <2>1. UNCHANGED <<file, promised, proc, count>>
    BY <1>8 DEF Tick, vars
  <2> QED
    BY <2>1 DEF ReportedInv, Reported, Subscribers
<1> QED
  BY <1>2, <1>3, <1>5, <1>6, <1>7, <1>8 DEF Next

\* Until operations overlap the file holds nobody but whom they reported, also
\* after crashes, and until a crash all of them, each on one line.
THEOREM FileIsTrue == Spec => []FileIsWhatWasReported
<1>1. ASSUME SerialInv, ReportedInv, count.overlaps = 0, \A p \in Procs : Idle(p)
      PROVE  \A l \in Lists : /\ Subscribers(l) \subseteq promised[l]
                              /\ \A a \in Addresses : file[l][a] <= 1
                              /\ count.crashes = 0 => Subscribers(l) = promised[l]
  <2>1. Server \in Procs /\ Alone(Server) /\ \A l \in Lists : ~Removing(Server, l)
    BY <1>1 DEF Procs, Alone, Removing
  <2>2. \A l \in Lists : Members[l] = Subscribers(l)
    BY <2>1, MembersNow
  <2>3. count.crashes = 0 => promised = Members
    BY <1>1 DEF SerialInv
  <2>4. SingleLines /\ \A l \in Lists : Subscribers(l) \subseteq promised[l]
    BY <1>1 DEF SerialInv, ReportedInv, Reported
  <2> QED
    BY <2>2, <2>3, <2>4 DEF SingleLines
<1>2. SerialInv /\ ReportedInv => FileIsWhatWasReported
  BY <1>1 DEF FileIsWhatWasReported
<1>3. Init => ReportedInv
  BY DEF Init, ReportedInv, Reported, Subscribers, NoLines, IdleProcess
<1>4. SerialInv /\ ReportedInv /\ [Next]_vars => SerialInv' /\ ReportedInv'
  BY SerialNext, ReportedNext
<1> QED
  BY <1>2, <1>3, <1>4, SerialInit, PTL DEF Spec
================================================================================
